-------------------------- MODULE WorkspaceProofs --------------------------
(***************************************************************************)
(* The workspace pages only use the executor as its specification allows,  *)
(* so that what is proved of the executor holds for their runs; no         *)
(* translation is applied without the peer's consent; no code is run on    *)
(* the user's own approval or on one that was used before; a page with     *)
(* nothing left to find out shows its peer as online exactly when he is    *)
(* there; and when all messages have come the pages agree. For any number  *)
(* of tabs, jobs and acts.                                                 *)
(***************************************************************************)
EXTENDS Workspace, FiniteSetTheorems, SequenceTheorems, WellFoundedInduction, TLAPS

USE ExecutorAssumption

LEMMA TabsAreNumbers == Tabs \subseteq Nat /\ 0 \notin Tabs /\ 0 \notin Jobs
  BY WorkspaceAssumption

USE TabsAreNumbers

LEMMA TwoUsers ==
  ASSUME NEW s \in Tabs, NEW t \in Tabs, Owner[s] # Owner[t], NEW u \in Tabs
  PROVE  Owner[u] = Owner[s] \/ Owner[u] = Owner[t]
  BY WorkspaceAssumption

-----------------------------------------------------------------------------
(* The executor, for any number of jobs, slots and failures: the semaphore *)
(* is exact, no program outlives its slot, no container outlives its job,  *)
(* but for the failures the properties name.                               *)

(* The jobs that hold a slot. *)
Holders == {j \in Jobs : stage[j] \in Holding}

(* What the stage of a job says of its container. *)
JobInv(j) ==
    /\ stage[j] \in {"idle", "fetching", "queued", "holding"} => box[j] = "none"
    /\ stage[j] = "created" => box[j] = "created"
    /\ stage[j] \in {"releasing", "answered"} =>
         /\ box[j] \in {"none", "removed"} \/ failed[j] \intersect {"create", "copy", "remove"} # {}
         /\ box[j] = "running" => "remove" \in failed[j]

(* The inductive invariant. *)
ExecInv == ExecTypeOK /\ SlotsAreBounded /\ \A j \in Jobs : JobInv(j)

(* No step of a job touches another one. *)
OnlyChanges(j) ==
    \A k \in Jobs \ {j} : stage'[k] = stage[k] /\ box'[k] = box[k] /\ failed'[k] = failed[k]

Step(j) == Submit(j) \/ JobStep(j) \/ ProgramEnds(j)

LEMMA HoldersAreFinite == IsFiniteSet(Holders)
  BY FS_Subset DEF Holders

(* Type correctness of a step, but for the number of slots. *)
LEMMA StepTypes ==
  ASSUME ExecTypeOK, NEW j \in Jobs, Step(j)
  PROVE  /\ stage' \in [Jobs -> Stages]
         /\ box' \in [Jobs -> {"none", "created", "running", "exited", "removed"}]
         /\ failed' \in [Jobs -> SUBSET Calls]
         /\ OnlyChanges(j)
<1> USE DEF ExecTypeOK, OnlyChanges, Goto, Becomes, Ok, Fails, Stages, Calls
<1>1. CASE Submit(j) BY <1>1 DEF Submit
<1>2. CASE FetchTestCases(j) BY <1>2 DEF FetchTestCases
<1>3. CASE Acquire(j) BY <1>3 DEF Acquire
<1>4. CASE Create(j) BY <1>4 DEF Create
<1>5. CASE CopyToContainer(j) BY <1>5 DEF CopyToContainer
<1>6. CASE Start(j) BY <1>6 DEF Start
<1>7. CASE Wait(j) BY <1>7 DEF Wait
<1>8. CASE Kill(j) BY <1>8 DEF Kill
<1>9. CASE Remove(j) BY <1>9 DEF Remove
<1>10. CASE Release(j) BY <1>10 DEF Release
<1>11. CASE ProgramEnds(j) BY <1>11 DEF ProgramEnds
<1>. QED BY <1>1, <1>2, <1>3, <1>4, <1>5, <1>6, <1>7, <1>8, <1>9, <1>10, <1>11
         DEF Step, JobStep

(* The container of the job that steps keeps to its stage. *)
LEMMA StepKeepsJob ==
  ASSUME ExecTypeOK, NEW j \in Jobs, Step(j), JobInv(j)
  PROVE  JobInv(j)'
<1> USE DEF ExecTypeOK, JobInv, Goto, Becomes, Ok, Fails, Stages, Calls
<1>1. CASE Submit(j) BY <1>1 DEF Submit
<1>2. CASE FetchTestCases(j) BY <1>2 DEF FetchTestCases
<1>3. CASE Acquire(j) BY <1>3 DEF Acquire
<1>4. CASE Create(j) BY <1>4 DEF Create
<1>5. CASE CopyToContainer(j) BY <1>5 DEF CopyToContainer
<1>6. CASE Start(j) BY <1>6 DEF Start
<1>7. CASE Wait(j) BY <1>7 DEF Wait
<1>8. CASE Kill(j) BY <1>8 DEF Kill
<1>9. CASE Remove(j) BY <1>9 DEF Remove
<1>10. CASE Release(j) BY <1>10 DEF Release
<1>11. CASE ProgramEnds(j) BY <1>11 DEF ProgramEnds
<1>. QED BY <1>1, <1>2, <1>3, <1>4, <1>5, <1>6, <1>7, <1>8, <1>9, <1>10, <1>11
         DEF Step, JobStep

(* The semaphore counts the holders across a step. *)
LEMMA StepKeepsSlots ==
  ASSUME ExecTypeOK, SlotsAreBounded, NEW j \in Jobs, Step(j)
  PROVE  SlotsAreBounded' /\ slots' \in 0..MaxConcurrent
<1>1. /\ stage' \in [Jobs -> Stages]
      /\ OnlyChanges(j)
  BY StepTypes
<1>2. /\ IsFiniteSet(Holders)
      /\ Cardinality(Holders) = slots
      /\ slots \in 0..MaxConcurrent
  BY HoldersAreFinite DEF SlotsAreBounded, Holders, ExecTypeOK
<1>3. CASE Acquire(j)
  <2>1. Holders' = Holders \union {j} /\ j \notin Holders
    BY <1>1, <1>3 DEF Acquire, Goto, Holders, Holding, ExecTypeOK, OnlyChanges
  <2>2. Cardinality(Holders') = slots + 1
    BY <1>2, <2>1, FS_AddElement
  <2>. QED BY <1>2, <1>3, <2>2 DEF Acquire, SlotsAreBounded, Holders
<1>4. CASE Release(j)
  <2>1. Holders' = Holders \ {j} /\ j \in Holders
    BY <1>1, <1>4 DEF Release, Goto, Holders, Holding, ExecTypeOK, OnlyChanges
  <2>2. Cardinality(Holders') = slots - 1
    BY <1>2, <2>1, FS_RemoveElement
  <2>3. Cardinality(Holders') \in Nat
    BY <1>2, <2>1, FS_RemoveElement, FS_CardinalityType
  <2>. QED BY <1>2, <1>4, <2>2, <2>3 DEF Release, SlotsAreBounded, Holders
<1>5. CASE ~Acquire(j) /\ ~Release(j)
  <2>1. slots' = slots /\ (stage[j] \in Holding <=> stage'[j] \in Holding)
    <3> USE DEF Goto, ExecTypeOK, Holding
    <3>1. CASE Submit(j) BY <3>1 DEF Submit
    <3>2. CASE FetchTestCases(j) BY <3>2 DEF FetchTestCases
    <3>3. CASE Create(j) BY <3>3 DEF Create
    <3>4. CASE CopyToContainer(j) BY <3>4 DEF CopyToContainer
    <3>5. CASE Start(j) BY <3>5 DEF Start
    <3>6. CASE Wait(j) BY <3>6 DEF Wait
    <3>7. CASE Kill(j) BY <3>7 DEF Kill
    <3>8. CASE Remove(j) BY <3>8 DEF Remove
    <3>9. CASE ProgramEnds(j) BY <3>9 DEF ProgramEnds
    <3>. QED BY <1>5, <3>1, <3>2, <3>3, <3>4, <3>5, <3>6, <3>7, <3>8, <3>9 DEF Step, JobStep
  <2>2. Holders' = Holders
    BY <1>1, <2>1 DEF Holders, OnlyChanges
  <2>. QED BY <1>2, <2>1, <2>2 DEF SlotsAreBounded, Holders
<1>. QED BY <1>3, <1>4, <1>5

LEMMA ExecInvInitially == ExecInit => ExecInv
<1>1. SUFFICES ASSUME ExecInit PROVE ExecInv
  OBVIOUS
<1>2. ExecTypeOK /\ \A j \in Jobs : JobInv(j)
  BY <1>1 DEF ExecInit, ExecTypeOK, JobInv, Stages, Calls
<1>3. Holders = {}
  BY <1>1 DEF ExecInit, Holders, Holding
<1>4. Cardinality(Holders) = 0
  BY <1>3, FS_EmptySet
<1>5. SlotsAreBounded
  BY <1>1, <1>4 DEF ExecInit, SlotsAreBounded, Holders
<1>. QED BY <1>2, <1>5 DEF ExecInv

LEMMA ExecInvPreserved == ExecInv /\ [ExecNext]_execVars => ExecInv'
<1>1. SUFFICES ASSUME ExecInv, [ExecNext]_execVars PROVE ExecInv'
  OBVIOUS
<1>2. CASE UNCHANGED execVars
  BY <1>1, <1>2 DEF ExecInv, ExecTypeOK, SlotsAreBounded, JobInv, execVars
<1>3. CASE ExecNext
  <2>1. PICK j \in Jobs : Step(j)
    BY <1>3 DEF ExecNext, Step
  <2>2. ExecTypeOK'
    BY <1>1, <2>1, StepTypes, StepKeepsSlots DEF ExecInv, ExecTypeOK
  <2>3. SlotsAreBounded'
    BY <1>1, <2>1, StepKeepsSlots DEF ExecInv
  <2>4. ASSUME NEW k \in Jobs PROVE JobInv(k)'
    <3>1. CASE k = j
      BY <1>1, <2>1, <3>1, StepKeepsJob DEF ExecInv
    <3>2. CASE k # j
      BY <1>1, <2>1, <3>2, StepTypes DEF ExecInv, OnlyChanges, JobInv
    <3>. QED BY <3>1, <3>2
  <2>. QED BY <2>2, <2>3, <2>4 DEF ExecInv
<1>. QED BY <1>1, <1>2, <1>3

LEMMA ExecInvAlways == ExecSpec => []ExecInv
  BY ExecInvInitially, ExecInvPreserved, PTL DEF ExecSpec

(* Types, and the semaphore: it counts exactly the jobs between its         *)
(* acquisition and its release, on every path out of Execute.              *)
THEOREM SemaphoreIsExact == ExecSpec => [](ExecTypeOK /\ SlotsAreBounded)
<1>1. ExecInv => ExecTypeOK /\ SlotsAreBounded
  BY DEF ExecInv
<1>. QED BY <1>1, ExecInvAlways, PTL

(* A program runs only while its job holds a slot, unless Docker refused    *)
(* to remove its container.                                                *)
THEOREM ProgramsAreAttended == ExecSpec => []NothingRunsUnattended
<1>1. ExecInv => NothingRunsUnattended
  BY DEF ExecInv, ExecTypeOK, JobInv, NothingRunsUnattended, Holding, Stages
<1>. QED BY <1>1, ExecInvAlways, PTL

(* The container of an answered job is gone, but for the named failures.    *)
THEOREM ContainersGo == ExecSpec => []ContainersAreRemoved
<1>1. ExecInv => ContainersAreRemoved
  BY DEF ExecInv, JobInv, ContainersAreRemoved
<1>. QED BY <1>1, ExecInvAlways, PTL

-----------------------------------------------------------------------------
(* Composition: a step of the pages is a step of the executor or none.      *)

LEMMA ExecuteSubmits ==
  ASSUME NEW t, NEW r, Execute(t, r)
  PROVE  [ExecNext]_execVars
  BY DEF Execute, IdleJobs, ExecNext

LEMMA PagesStepExecutor == [Next]_vars => [ExecNext]_execVars
<1>1. SUFFICES ASSUME [Next]_vars PROVE [ExecNext]_execVars
  OBVIOUS
<1>2. ASSUME NEW t, NEW r, NEW a, Write(t, r, a) PROVE [ExecNext]_execVars
  BY <1>2, ExecuteSubmits DEF Write, Observe
<1>3. ASSUME NEW t \in Tabs, UserStep(t) PROVE [ExecNext]_execVars
  <2>1. CASE RunCode(t) \/ ApproveRun(t) \/ DeclineRun(t)
    BY <1>2, <2>1 DEF RunCode, ApproveRun, DeclineRun
  <2>2. CASE ApproveLanguage(t) \/ RejectLanguage(t) \/ \E l \in Langs : SelectLanguage(t, l)
    BY <2>2 DEF ApproveLanguage, RejectLanguage, SelectLanguage, Tell, execVars
  <2>3. CASE \/ Translate(t) \/ DiscardTranslation(t) \/ OfferTranslation(t)
             \/ \E ok \in BOOLEAN : AnswerOffer(t, ok)
    BY <2>3 DEF Translate, DiscardTranslation, OfferTranslation, AnswerOffer, OnlyText, Tell,
                execVars
  <2>4. CASE Leave(t) \/ Open(t)
    BY <2>4 DEF Leave, Open, execVars
  <2>. QED BY <1>3, <2>1, <2>2, <2>3, <2>4 DEF UserStep
<1>4. ASSUME NEW t \in Tabs, Deliver(t) PROVE [ExecNext]_execVars
  <2>1. CASE ReceiveUpdate(t) \/ ReceiveSync(t)
    BY <2>1, ExecuteSubmits DEF ReceiveUpdate, ReceiveSync, Observe
  <2>2. CASE ~ReceiveUpdate(t) /\ ~ReceiveSync(t)
    BY <1>4, <2>2 DEF Deliver, ReceiveLangRequest, ReceiveLangApproved, ReceiveLangResponse,
       ReceiveOffer, ReceiveAnswer, ReceivePresence, Consume, execVars
  <2>. QED BY <2>1, <2>2
<1>5. ASSUME NEW t \in Tabs,
             \/ ResetRejection(t) \/ Translated(t) \/ DebounceOver(t) \/ ReportOffline(t)
             \/ \E j \in Jobs : ShowResults(t, j)
      PROVE  [ExecNext]_execVars
  BY <1>5 DEF ResetRejection, Translated, DebounceOver, ReportOffline, ShowResults, OnlyText,
              OnlyPeer, execVars
<1>6. ASSUME NEW l \in Langs, SaveLanguage(l) PROVE [ExecNext]_execVars
  BY <1>6 DEF SaveLanguage, execVars
<1>7. ASSUME NEW j \in Jobs, JobStep(j) \/ ProgramEnds(j) PROVE [ExecNext]_execVars
  BY <1>7 DEF ExecNext
<1>8. CASE UNCHANGED vars
  BY <1>8 DEF vars
<1>. QED
  BY <1>1, <1>3, <1>4, <1>5, <1>6, <1>7, <1>8 DEF Next

(* Every behaviour of the pages is one of the executor. *)
THEOREM PagesUseExecutor == Spec => ExecSpec
<1>1. Init => ExecInit
  BY DEF Init
<1>. QED BY <1>1, PagesStepExecutor, PTL DEF Spec, ExecSpec

(* What peers run is attended and removed as the executor promises. *)
THEOREM RunsAreAttended == Spec => [](NothingRunsUnattended /\ ContainersAreRemoved)
  BY PagesUseExecutor, ProgramsAreAttended, ContainersGo, PTL

-----------------------------------------------------------------------------
(* Consent to translations. *)

IsQueue(q) == \E S : q \in Seq(S)

(* An answer under way that agrees belongs to a translation agreed to. *)
Agreed(q, agreed) ==
    \A i \in 1..Len(q) : q[i].kind = "answer" /\ q[i].ok => q[i].val \in agreed

InboxesAgree == /\ inbox = [t \in Tabs |-> inbox[t]]
                /\ \A t \in Tabs : IsQueue(inbox[t]) /\ Agreed(inbox[t], consent)

(* The inductive invariant: consent is known before its answer is sent. *)
ConsentInv == InboxesAgree /\ TranslationNeedsConsent

LEMMA EmptyQueue == ASSUME NEW C PROVE IsQueue(<<>>) /\ Agreed(<<>>, C)
<1>1. <<>> \in Seq({})
  OBVIOUS
<1>. QED BY <1>1 DEF IsQueue, Agreed

LEMMA OneMessage ==
  ASSUME NEW C, NEW m, m.kind = "answer" /\ m.ok => m.val \in C
  PROVE  IsQueue(<<m>>) /\ Agreed(<<m>>, C)
<1>1. <<m>> \in Seq({m}) /\ Len(<<m>>) = 1 /\ <<m>>[1] = m
  OBVIOUS
<1>2. IsQueue(<<m>>)
  BY <1>1 DEF IsQueue
<1>3. ASSUME NEW i \in 1..Len(<<m>>) PROVE <<m>>[i] = m
  BY <1>1
<1>4. Agreed(<<m>>, C)
  BY <1>3 DEF Agreed
<1>. QED BY <1>2, <1>4

LEMMA JoinedQueues ==
  ASSUME NEW p, NEW q, IsQueue(p), IsQueue(q) PROVE IsQueue(p \o q)
<1>1. PICK S : p \in Seq(S)
  BY DEF IsQueue
<1>2. PICK R : q \in Seq(R)
  BY DEF IsQueue
<1>3. p \in Seq(S \union R) /\ q \in Seq(S \union R)
  BY <1>1, <1>2
<1>4. p \o q \in Seq(S \union R)
  BY <1>3
<1>. QED BY <1>4 DEF IsQueue

LEMMA Single == ASSUME NEW m PROVE IsQueue(<<m>>)
<1>1. <<m>> \in Seq({m})
  OBVIOUS
<1>. QED BY <1>1 DEF IsQueue

LEMMA Concatenated ==
  ASSUME NEW C, NEW p, NEW q, IsQueue(p), IsQueue(q), Agreed(p, C), Agreed(q, C)
  PROVE  IsQueue(p \o q) /\ Agreed(p \o q, C)
<1>1. PICK S : p \in Seq(S)
  BY DEF IsQueue
<1>2. PICK R : q \in Seq(R)
  BY DEF IsQueue
<1>3. p \in Seq(S \union R) /\ q \in Seq(S \union R)
  BY <1>1, <1>2
<1>4. p \o q \in Seq(S \union R) /\ Len(p \o q) = Len(p) + Len(q)
  BY <1>3
<1>5. ASSUME NEW i \in 1..Len(p \o q)
      PROVE  (p \o q)[i] = IF i <= Len(p) THEN p[i] ELSE q[i - Len(p)]
  BY <1>3, <1>4
<1>6. Agreed(p \o q, C)
  BY <1>3, <1>4, <1>5 DEF Agreed
<1>. QED BY <1>4, <1>6 DEF IsQueue

LEMMA Rest ==
  ASSUME NEW C, NEW q, IsQueue(q), q # <<>>, Agreed(q, C)
  PROVE  /\ IsQueue(Tail(q)) /\ Agreed(Tail(q), C)
         /\ Head(q).kind = "answer" /\ Head(q).ok => Head(q).val \in C
<1>1. PICK S : q \in Seq(S)
  BY DEF IsQueue
<1>2. /\ Tail(q) \in Seq(S) /\ Len(Tail(q)) = Len(q) - 1 /\ Len(q) \in Nat \ {0}
      /\ Head(q) = q[1]
      /\ \A i \in 1..Len(Tail(q)) : Tail(q)[i] = q[i + 1]
  BY <1>1
<1>. QED BY <1>2 DEF IsQueue, Agreed

LEMMA Documents ==
  ASSUME NEW C, NEW rs, IsQueue(rs)
  PROVE  IsQueue(DocMsgs(rs)) /\ Agreed(DocMsgs(rs), C)
<1>1. PICK S : rs \in Seq(S)
  BY DEF IsQueue
<1>2. DocMsgs(rs) \in Seq({[kind |-> "doc", regs |-> x] : x \in S})
      /\ \A i \in 1..Len(DocMsgs(rs)) : DocMsgs(rs)[i] = [kind |-> "doc", regs |-> rs[i]]
  BY <1>1 DEF DocMsgs
<1>. QED BY <1>2 DEF IsQueue, Agreed

(* Forwarding messages that agree. *)
LEMMA ForwardAgrees ==
  ASSUME InboxesAgree, consent \subseteq consent', NEW t \in Tabs, NEW ms, NEW rest,
         IsQueue(ms), Agreed(ms, consent'), IsQueue(rest), Agreed(rest, consent'),
         Forward(t, ms, rest)
  PROVE  InboxesAgree'
<1>1. ASSUME NEW s \in Tabs PROVE IsQueue(inbox'[s]) /\ Agreed(inbox'[s], consent')
  <2>1. IsQueue(inbox[s]) /\ Agreed(inbox[s], consent')
    BY DEF InboxesAgree, Agreed
  <2>2. IsQueue(inbox[s] \o ms) /\ Agreed(inbox[s] \o ms, consent')
    BY <2>1, Concatenated
  <2>3. inbox'[s] \in {rest, inbox[s] \o ms, inbox[s]}
    BY DEF Forward
  <2>. QED BY <2>1, <2>2, <2>3
<1>2. inbox' = [s \in Tabs |-> inbox'[s]]
  BY DEF Forward
<1>. QED BY <1>1, <1>2 DEF InboxesAgree

(* What the observer of tab t sends, before its reaction and after it. *)
LEMMA ObserverSends ==
  ASSUME NEW t, NEW r, NEW C
  PROVE  LET ran == IF MustExecute(t, r) THEN <<Executing(t, r)>> ELSE <<>>
         IN  IsQueue(DocMsgs(ran)) /\ Agreed(DocMsgs(ran), C)
<1> DEFINE ran == IF MustExecute(t, r) THEN <<Executing(t, r)>> ELSE <<>>
<1>1. IsQueue(ran)
  BY EmptyQueue, Single
<1>. QED BY <1>1, Documents

LEMMA WriteAgrees ==
  ASSUME ConsentInv, NEW t \in Tabs, NEW r, NEW after, IsQueue(after),
         Write(t, r, after), UNCHANGED textVars
  PROVE  ConsentInv'
<1> DEFINE ran == IF MustExecute(t, r) THEN <<Executing(t, r)>> ELSE <<>>
           rs == <<r>> \o ran \o after
<1>1. IsQueue(ran) /\ IsQueue(<<r>>)
  BY EmptyQueue, Single
<1>2. IsQueue(rs)
  BY <1>1, JoinedQueues
<1>3. IsQueue(DocMsgs(rs)) /\ Agreed(DocMsgs(rs), consent')
  BY <1>2, Documents
<1>4. consent' = consent /\ applied' = applied
  BY DEF textVars
<1>5. Forward(t, DocMsgs(rs), inbox[t])
  BY DEF Write
<1>6. IsQueue(inbox[t]) /\ Agreed(inbox[t], consent')
  BY <1>4 DEF ConsentInv, InboxesAgree
<1>7. InboxesAgree'
  BY <1>3, <1>4, <1>5, <1>6, ForwardAgrees DEF ConsentInv
<1>. QED BY <1>4, <1>7 DEF ConsentInv, TranslationNeedsConsent

(* One message to the other tabs. *)
LEMMA SendAgrees ==
  ASSUME ConsentInv, consent \subseteq consent', applied' = applied, NEW t \in Tabs, NEW m,
         m.kind = "answer" /\ m.ok => m.val \in consent',
         NEW rest, IsQueue(rest), Agreed(rest, consent'), Forward(t, <<m>>, rest)
  PROVE  ConsentInv'
<1>1. IsQueue(<<m>>) /\ Agreed(<<m>>, consent')
  BY OneMessage
<1>2. InboxesAgree'
  BY <1>1, ForwardAgrees DEF ConsentInv
<1>. QED BY <1>2 DEF ConsentInv, TranslationNeedsConsent

LEMMA OwnInbox ==
  ASSUME ConsentInv, consent \subseteq consent', NEW t \in Tabs
  PROVE  IsQueue(inbox[t]) /\ Agreed(inbox[t], consent')
  BY DEF ConsentInv, InboxesAgree, Agreed

LEMMA TellAgrees ==
  ASSUME ConsentInv, consent \subseteq consent', applied' = applied, NEW t \in Tabs, NEW m,
         m.kind = "answer" /\ m.ok => m.val \in consent', Tell(t, m)
  PROVE  ConsentInv'
<1>1. IsQueue(inbox[t]) /\ Agreed(inbox[t], consent')
  BY OwnInbox
<1>2. Forward(t, <<m>>, inbox[t])
  BY DEF Tell
<1>. QED BY <1>1, <1>2, SendAgrees

(* A message of tab t is taken, and nothing else is agreed to. *)
LEMMA TakeAgrees ==
  ASSUME ConsentInv, NEW t \in Tabs, inbox[t] # <<>>, consent' = consent,
         inbox' = [inbox EXCEPT ![t] = Tail(@)]
  PROVE  InboxesAgree'
<1>1. IsQueue(Tail(inbox[t])) /\ Agreed(Tail(inbox[t]), consent')
  BY Rest DEF ConsentInv, InboxesAgree
<1>2. ASSUME NEW s \in Tabs PROVE IsQueue(inbox'[s]) /\ Agreed(inbox'[s], consent')
  <2>1. inbox'[s] = IF s = t THEN Tail(inbox[t]) ELSE inbox[s]
    BY DEF ConsentInv, InboxesAgree
  <2>. QED BY <1>1, <2>1 DEF ConsentInv, InboxesAgree
<1>3. inbox' = [s \in Tabs |-> inbox'[s]]
  BY DEF ConsentInv, InboxesAgree
<1>. QED BY <1>2, <1>3 DEF InboxesAgree

LEMMA QuietAgrees ==
  ASSUME ConsentInv, UNCHANGED <<inbox, consent, applied>> PROVE ConsentInv'
  BY DEF ConsentInv, InboxesAgree, Agreed, TranslationNeedsConsent

LEMMA WritingConsents ==
  ASSUME ConsentInv, NEW t \in Tabs, RunCode(t) \/ ApproveRun(t) \/ DeclineRun(t)
  PROVE  ConsentInv'
<1>1. CASE RunCode(t)
  BY <1>1, EmptyQueue, WriteAgrees DEF RunCode, OnlyRun
<1>2. CASE ApproveRun(t)
  <2> DEFINE r == Set(map[t], "status", t, "approved")
  <2>1. IsQueue(<<Executing(t, r)>>)
    BY Single
  <2>2. Write(t, r, <<Executing(t, r)>>)
    BY <1>2 DEF ApproveRun
  <2>. QED BY <1>2, <2>1, <2>2, WriteAgrees DEF ApproveRun, OnlyRun
<1>3. CASE DeclineRun(t)
  BY <1>3, EmptyQueue, WriteAgrees DEF DeclineRun, OnlyRun
<1>. QED BY <1>1, <1>2, <1>3

LEMMA UsersConsent == ASSUME ConsentInv, NEW t \in Tabs, UserStep(t) PROVE ConsentInv'
<1>1. CASE RunCode(t) \/ ApproveRun(t) \/ DeclineRun(t)
  BY <1>1, WritingConsents
<1>2. ASSUME NEW l \in Langs, SelectLanguage(t, l) PROVE ConsentInv'
  <2>1. Tell(t, Msg("langRequest", l, TRUE)) /\ consent' = consent /\ applied' = applied
    BY <1>2 DEF SelectLanguage, textVars
  <2>. QED BY <2>1, TellAgrees DEF Msg
<1>3. CASE ApproveLanguage(t)
  <2>1. /\ Tell(t, Msg("langApproved", langModal[t], TRUE))
        /\ consent' = consent /\ applied' = applied
    BY <1>3 DEF ApproveLanguage, textVars
  <2>. QED BY <2>1, TellAgrees DEF Msg
<1>4. CASE RejectLanguage(t)
  <2>1. Tell(t, Msg("langResponse", None, FALSE)) /\ consent' = consent /\ applied' = applied
    BY <1>4 DEF RejectLanguage, textVars
  <2>. QED BY <2>1, TellAgrees DEF Msg
<1>5. CASE Translate(t) \/ DiscardTranslation(t)
  BY <1>5, QuietAgrees DEF Translate, DiscardTranslation, OnlyText, runVars
<1>6. CASE OfferTranslation(t)
  <2>1. Tell(t, Msg("offer", stamp', TRUE)) /\ consent' = consent /\ applied' = applied
    BY <1>6 DEF OfferTranslation
  <2>. QED BY <2>1, TellAgrees DEF Msg
<1>7. ASSUME NEW ok \in BOOLEAN, AnswerOffer(t, ok) PROVE ConsentInv'
  <2>1. Tell(t, Msg("answer", offerModal[t], ok)) /\ applied' = applied
    BY <1>7 DEF AnswerOffer
  <2>2. consent \subseteq consent' /\ (ok => offerModal[t] \in consent')
    BY <1>7 DEF AnswerOffer
  <2>. QED BY <2>1, <2>2, TellAgrees DEF Msg
<1>8. CASE Leave(t)
  <2>1. /\ Forward(t, <<Gone(t)>>, <<>>)
        /\ consent' = consent /\ applied' = applied
    BY <1>8 DEF Leave
  <2>. QED BY <2>1, EmptyQueue, SendAgrees DEF Gone
<1>9. CASE Open(t)
  <2> DEFINE others == {s \in Tabs : Here(s)}
             here == IF others = {} THEN <<>> ELSE <<Joins(CHOOSE s \in others : TRUE)>>
             sync == [kind |-> "sync", regs |-> doc]
  <2>1. Forward(t, <<Joins(t)>>, here \o <<sync>>) /\ consent' = consent /\ applied' = applied
    BY <1>9 DEF Open, textVars
  <2>2. IsQueue(here) /\ Agreed(here, consent')
    BY EmptyQueue, OneMessage DEF Joins
  <2>3. IsQueue(<<sync>>) /\ Agreed(<<sync>>, consent')
    BY OneMessage
  <2>4. IsQueue(here \o <<sync>>) /\ Agreed(here \o <<sync>>, consent')
    BY <2>2, <2>3, Concatenated
  <2>. QED BY <2>1, <2>4, SendAgrees DEF Joins
<1>. QED BY <1>1, <1>2, <1>3, <1>4, <1>5, <1>6, <1>7, <1>8, <1>9 DEF UserStep

LEMMA DeliveriesConsent == ASSUME ConsentInv, NEW t \in Tabs, Deliver(t) PROVE ConsentInv'
<1>1. CASE ReceiveUpdate(t) \/ ReceiveSync(t)
  <2> DEFINE r == Merge(map[t], Head(inbox[t]).regs)
             ran == IF MustExecute(t, r) THEN <<Executing(t, r)>> ELSE <<>>
  <2>1. /\ Forward(t, DocMsgs(ran), Tail(inbox[t])) /\ inbox[t] # <<>>
        /\ consent' = consent /\ applied' = applied
    BY <1>1 DEF ReceiveUpdate, ReceiveSync, Receive, OnlyRun, textVars
  <2>2. IsQueue(DocMsgs(ran)) /\ Agreed(DocMsgs(ran), consent')
    BY ObserverSends
  <2>3. IsQueue(Tail(inbox[t])) /\ Agreed(Tail(inbox[t]), consent')
    BY <2>1, OwnInbox, Rest
  <2>4. InboxesAgree'
    BY <2>1, <2>2, <2>3, ForwardAgrees DEF ConsentInv
  <2>. QED BY <2>1, <2>4 DEF ConsentInv, TranslationNeedsConsent
<1>2. CASE \/ ReceiveLangRequest(t) \/ ReceiveLangApproved(t) \/ ReceiveLangResponse(t)
           \/ ReceiveOffer(t) \/ ReceivePresence(t)
  <2>1. /\ inbox[t] # <<>> /\ inbox' = [inbox EXCEPT ![t] = Tail(@)]
        /\ consent' = consent /\ applied' = applied
    BY <1>2 DEF ReceiveLangRequest, ReceiveLangApproved, ReceiveLangResponse, ReceiveOffer,
                ReceivePresence, Receive, Consume, textVars
  <2>. QED BY <2>1, TakeAgrees DEF ConsentInv, TranslationNeedsConsent
<1>3. CASE ReceiveAnswer(t)
  <2>1. /\ inbox[t] # <<>> /\ inbox' = [inbox EXCEPT ![t] = Tail(@)]
        /\ consent' = consent /\ Head(inbox[t]).kind = "answer"
    BY <1>3 DEF ReceiveAnswer, Receive, Consume
  <2>2. InboxesAgree'
    BY <2>1, TakeAgrees
  <2>3. Head(inbox[t]).ok => Head(inbox[t]).val \in consent
    BY <2>1, Rest DEF ConsentInv, InboxesAgree
  <2>4. CASE Answers(t, Head(inbox[t]).val) /\ Head(inbox[t]).ok
    <3>1. applied' = applied \union {offer[t]} /\ offer[t] \in consent
      BY <1>3, <2>3, <2>4 DEF ReceiveAnswer, Answers
    <3>. QED BY <2>1, <2>2, <3>1 DEF ConsentInv, TranslationNeedsConsent
  <2>5. CASE ~(Answers(t, Head(inbox[t]).val) /\ Head(inbox[t]).ok)
    <3>1. applied' = applied
      BY <1>3, <2>5 DEF ReceiveAnswer
    <3>. QED BY <2>1, <2>2, <3>1 DEF ConsentInv, TranslationNeedsConsent
  <2>. QED BY <2>4, <2>5
<1>. QED BY <1>1, <1>2, <1>3 DEF Deliver

LEMMA PagesConsent == ConsentInv /\ [Next]_vars => ConsentInv'
<1>1. SUFFICES ASSUME ConsentInv, [Next]_vars PROVE ConsentInv'
  OBVIOUS
<1>2. ASSUME NEW t \in Tabs, UserStep(t) \/ Deliver(t) PROVE ConsentInv'
  BY <1>1, <1>2, UsersConsent, DeliveriesConsent
<1>3. ASSUME NEW t \in Tabs, ResetRejection(t) PROVE ConsentInv'
  <2>1. consent' = consent /\ applied' = applied
    BY <1>3 DEF ResetRejection, OnlyRun, textVars
  <2>2. CASE UNCHANGED inbox
    BY <1>1, <2>1, <2>2, QuietAgrees
  <2>3. CASE ~UNCHANGED inbox
    <3> DEFINE r == Set(map[t], "status", t, "idle")
    <3>1. Forward(t, DocMsgs(<<r>>), inbox[t])
      BY <1>3, <2>3 DEF ResetRejection
    <3>2. IsQueue(DocMsgs(<<r>>)) /\ Agreed(DocMsgs(<<r>>), consent')
      BY Single, Documents
    <3>3. IsQueue(inbox[t]) /\ Agreed(inbox[t], consent')
      BY <1>1, <2>1, OwnInbox
    <3>4. InboxesAgree'
      BY <1>1, <2>1, <3>1, <3>2, <3>3, ForwardAgrees DEF ConsentInv
    <3>. QED BY <1>1, <2>1, <3>4 DEF ConsentInv, TranslationNeedsConsent
  <2>. QED BY <2>2, <2>3
<1>4. ASSUME NEW t \in Tabs, NEW j \in Jobs, ShowResults(t, j) PROVE ConsentInv'
  <2> DEFINE r == Set(map[t], "status", t, "completed")
             s == Set(r, "results", t, j)
  <2>1. /\ Forward(t, DocMsgs(<<r, s>>), inbox[t])
        /\ consent' = consent /\ applied' = applied
    BY <1>4 DEF ShowResults, OnlyRun, textVars
  <2>2. <<r, s>> \in Seq({r, s})
    OBVIOUS
  <2>3. IsQueue(<<r, s>>)
    BY <2>2 DEF IsQueue
  <2>4. IsQueue(DocMsgs(<<r, s>>)) /\ Agreed(DocMsgs(<<r, s>>), consent')
    BY <2>3, Documents
  <2>5. IsQueue(inbox[t]) /\ Agreed(inbox[t], consent')
    BY <1>1, <2>1, OwnInbox
  <2>6. InboxesAgree'
    BY <1>1, <2>1, <2>4, <2>5, ForwardAgrees DEF ConsentInv
  <2>. QED BY <1>1, <2>1, <2>6 DEF ConsentInv, TranslationNeedsConsent
<1>5. ASSUME NEW t \in Tabs, Translated(t) \/ DebounceOver(t) \/ ReportOffline(t)
      PROVE  ConsentInv'
  BY <1>1, <1>5, QuietAgrees
  DEF Translated, DebounceOver, ReportOffline, OnlyText, OnlyPeer, runVars, textVars
<1>6. ASSUME NEW l \in Langs, SaveLanguage(l) PROVE ConsentInv'
  BY <1>1, <1>6, QuietAgrees DEF SaveLanguage, runVars, textVars
<1>7. CASE OnlyExec
  BY <1>1, <1>7, QuietAgrees DEF OnlyExec, runVars, textVars
<1>8. CASE UNCHANGED vars
  BY <1>1, <1>8, QuietAgrees DEF vars, runVars, textVars
<1>. QED BY <1>1, <1>2, <1>3, <1>4, <1>5, <1>6, <1>7, <1>8 DEF Next

LEMMA NothingAgreedYet == Init => ConsentInv
<1>1. SUFFICES ASSUME Init PROVE ConsentInv
  OBVIOUS
<1>2. inbox = [t \in Tabs |-> <<>>] /\ applied = {}
  BY <1>1 DEF Init
<1>. QED BY <1>2, EmptyQueue DEF ConsentInv, InboxesAgree, TranslationNeedsConsent

(* No translation replaces the shared text without the peer's consent to it. *)
THEOREM TranslationsAreAgreed == Spec => []TranslationNeedsConsent
<1>1. ConsentInv => TranslationNeedsConsent
  BY DEF ConsentInv
<1>. QED BY <1>1, NothingAgreedYet, PagesConsent, PTL DEF Spec

-----------------------------------------------------------------------------
(* Running code, however the writes of the pages are merged. Yjs orders    *)
(* the items of a key totally, and an item is later than every item its    *)
(* writer had seen.                                                        *)

LEMMA Least ==
  ASSUME NEW N, N \subseteq Nat, N # {}
  PROVE  \E x \in N : \A y \in N : x <= y
<1> DEFINE R == StrictSubsetOrdering(Nat)
           F == FiniteSubsetsOf(Nat)
           U == {1..x : x \in N}
<1>1. IsWellFoundedOn(R, F)
  BY FS_StrictSubsetOrderingWellFounded
<1>2. U \subseteq F
  <2> SUFFICES ASSUME NEW x \in N PROVE 1..x \in F
    OBVIOUS
  <2>1. x \in Int
    OBVIOUS
  <2>2. IsFiniteSet(1..x)
    BY <2>1, FS_Interval
  <2> QED BY <2>1, <2>2 DEF FiniteSubsetsOf
<1>3. U # {}
  OBVIOUS
<1>4. PICK u \in U : \A v \in U : ~(<<v, u>> \in R)
  <2> HIDE DEF R, F, U
  <2> QED BY <1>1, <1>2, <1>3, WFMin
<1>5. PICK x \in N : u = 1..x
  OBVIOUS
<1>6. ASSUME NEW y \in N, y < x PROVE FALSE
  <2>1. 1..y \subseteq 1..x /\ x \in 1..x /\ x \notin 1..y
    BY <1>6
  <2>2. 1..y \in SUBSET Nat /\ 1..x \in SUBSET Nat
    OBVIOUS
  <2>3. <<1..y, 1..x>> \in R
    BY <2>1, <2>2 DEF StrictSubsetOrdering
  <2> QED BY <1>4, <1>5, <2>3
<1> QED BY <1>6

(* Item p comes later at place k: it goes on, or a greater client wrote it. *)
LaterAt(p, q, k) == /\ k \in 1..Len(p)
                    /\ k <= Len(q) + 1
                    /\ \A i \in 1..(k - 1) : p[i] = q[i]
                    /\ k = Len(q) + 1 \/ p[k] > q[k]

LEMMA Prefixes ==
  ASSUME NEW p \in Seq(Nat), NEW q \in Seq(Nat), NEW k \in 1..Len(p), k <= Len(q) + 1
  PROVE  SubSeq(q, 1, k - 1) = SubSeq(p, 1, k - 1) <=> \A i \in 1..(k - 1) : p[i] = q[i]
<1>1. /\ SubSeq(p, 1, k - 1) \in Seq(Nat) /\ SubSeq(q, 1, k - 1) \in Seq(Nat)
      /\ Len(SubSeq(p, 1, k - 1)) = k - 1 /\ Len(SubSeq(q, 1, k - 1)) = k - 1
      /\ \A i \in 1..(k - 1) : SubSeq(p, 1, k - 1)[i] = p[i] /\ SubSeq(q, 1, k - 1)[i] = q[i]
  OBVIOUS
<1>2. (\A i \in 1..(k - 1) : p[i] = q[i]) => SubSeq(q, 1, k - 1) = SubSeq(p, 1, k - 1)
  BY <1>1, SeqEqual
<1>3. ASSUME SubSeq(q, 1, k - 1) = SubSeq(p, 1, k - 1), NEW i \in 1..(k - 1) PROVE p[i] = q[i]
  BY <1>1, <1>3
<1>. QED BY <1>2, <1>3

LEMMA BehindIs ==
  ASSUME NEW p \in Seq(Nat), NEW q \in Seq(Nat)
  PROVE  Behind(p, q) <=> \E k \in 1..Len(p) : LaterAt(p, q, k)
<1>1. ASSUME NEW k \in 1..Len(p)
      PROVE  (/\ k <= Len(q) + 1
              /\ SubSeq(p, 1, k - 1) = SubSeq(q, 1, k - 1)
              /\ (k = Len(q) + 1 \/ p[k] > q[k])) <=> LaterAt(p, q, k)
  BY Prefixes DEF LaterAt
<1>. QED BY <1>1 DEF Behind

LEMMA LaterOnce == ASSUME NEW p \in Seq(Nat) PROVE ~Behind(p, p)
<1>1. ASSUME NEW k \in 1..Len(p) PROVE ~LaterAt(p, p, k)
  BY DEF LaterAt
<1>. QED BY <1>1, BehindIs

LEMMA LaterAtTransitive ==
  ASSUME NEW p \in Seq(Nat), NEW q \in Seq(Nat), NEW r \in Seq(Nat),
         NEW k, LaterAt(p, q, k), NEW l, LaterAt(q, r, l)
  PROVE  LaterAt(p, r, IF k <= l THEN k ELSE l)
<1>1. k \in 1..Len(p) /\ l \in 1..Len(q) /\ Len(p) \in Nat /\ Len(q) \in Nat /\ Len(r) \in Nat
  BY DEF LaterAt
<1>2. CASE k < l
  <2>1. k # Len(q) + 1 /\ k <= Len(r)
    BY <1>1, <1>2 DEF LaterAt
  <2>2. p[k] > q[k] /\ q[k] = r[k]
    BY <1>1, <1>2, <2>1 DEF LaterAt
  <2>3. \A i \in 1..(k - 1) : p[i] = r[i]
    BY <1>1, <1>2 DEF LaterAt
  <2>. QED BY <1>1, <1>2, <2>1, <2>2, <2>3 DEF LaterAt
<1>3. CASE k = l
  <2>1. \A i \in 1..(k - 1) : p[i] = r[i]
    BY <1>1, <1>3 DEF LaterAt
  <2>2. p[k] > q[k]
    BY <1>1, <1>3 DEF LaterAt
  <2>3. k <= Len(r) => p[k] > r[k]
    <3>1. SUFFICES ASSUME k <= Len(r) PROVE p[k] > r[k]
      OBVIOUS
    <3>2. q[k] > r[k]
      BY <1>1, <1>3, <3>1 DEF LaterAt
    <3>3. p[k] \in Nat /\ q[k] \in Nat /\ r[k] \in Nat
      BY <1>1, <1>3, <3>1
    <3>. QED BY <2>2, <3>2, <3>3
  <2>4. k \in 1..Len(p) /\ k <= Len(r) + 1
    BY <1>1, <1>3 DEF LaterAt
  <2>5. k = Len(r) + 1 \/ p[k] > r[k]
    BY <1>1, <2>3, <2>4
  <2>. QED BY <1>3, <2>1, <2>4, <2>5 DEF LaterAt
<1>4. CASE k > l
  <2>1. p[l] = q[l] /\ l \in 1..Len(p)
    BY <1>1, <1>4 DEF LaterAt
  <2>2. \A i \in 1..(l - 1) : p[i] = r[i]
    BY <1>1, <1>4 DEF LaterAt
  <2>. QED BY <1>1, <1>4, <2>1, <2>2 DEF LaterAt
<1>. QED BY <1>1, <1>2, <1>3, <1>4

LEMMA LaterTransitive ==
  ASSUME NEW p \in Seq(Nat), NEW q \in Seq(Nat), NEW r \in Seq(Nat), Behind(p, q), Behind(q, r)
  PROVE  Behind(p, r)
<1>1. PICK k \in 1..Len(p) : LaterAt(p, q, k)
  BY BehindIs
<1>2. PICK l \in 1..Len(q) : LaterAt(q, r, l)
  BY BehindIs
<1>3. LaterAt(p, r, IF k <= l THEN k ELSE l)
  BY <1>1, <1>2, LaterAtTransitive
<1>4. (IF k <= l THEN k ELSE l) \in 1..Len(p)
  BY <1>3 DEF LaterAt
<1>. QED BY <1>3, <1>4, BehindIs

(* The first place where two items differ decides. *)
LEMMA LaterOneWay ==
  ASSUME NEW p \in Seq(Nat), NEW q \in Seq(Nat), p # q
  PROVE  Behind(p, q) \/ Behind(q, p)
<1> DEFINE m == IF Len(p) <= Len(q) THEN Len(p) ELSE Len(q)
           N == {i \in 1..m : p[i] # q[i]} \union {m + 1}
<1>1. m \in Nat /\ m <= Len(p) /\ m <= Len(q) /\ N \subseteq Nat /\ N # {}
  OBVIOUS
<1>2. PICK k \in N : \A i \in N : k <= i
  BY <1>1, Least
<1>3. k \in 1..(m + 1) /\ \A i \in 1..(k - 1) : p[i] = q[i]
  <2>1. k \in 1..(m + 1)
    BY <1>1
  <2>2. ASSUME NEW i \in 1..(k - 1) PROVE p[i] = q[i]
    <3>1. i \in 1..m /\ i < k
      BY <1>1, <2>1
    <3>2. i \notin N
      BY <1>2, <2>1, <3>1
    <3>. QED BY <3>1, <3>2
  <2>. QED BY <2>1, <2>2
<1>4. CASE k <= m
  <2>1. p[k] # q[k] /\ p[k] \in Nat /\ q[k] \in Nat /\ k \in 1..Len(p) /\ k \in 1..Len(q)
    BY <1>1, <1>3, <1>4
  <2>2. LaterAt(p, q, k) \/ LaterAt(q, p, k)
    BY <1>3, <2>1 DEF LaterAt
  <2>. QED BY <2>1, <2>2, BehindIs
<1>5. CASE k = m + 1
  <2>1. Len(p) # Len(q)
    <3>1. SUFFICES ASSUME Len(p) = Len(q) PROVE FALSE
      OBVIOUS
    <3>2. \A i \in 1..Len(p) : p[i] = q[i]
      BY <1>3, <1>5, <3>1
    <3>. QED BY <3>1, <3>2, SeqEqual
  <2>2. CASE Len(p) > Len(q)
    <3>1. LaterAt(p, q, k) /\ k \in 1..Len(p)
      BY <1>3, <1>5, <2>2 DEF LaterAt
    <3>. QED BY <3>1, BehindIs
  <2>3. CASE Len(q) > Len(p)
    <3>1. LaterAt(q, p, k) /\ k \in 1..Len(q)
      BY <1>3, <1>5, <2>3 DEF LaterAt
    <3>. QED BY <3>1, BehindIs
  <2>. QED BY <2>1, <2>2, <2>3
<1>. QED BY <1>3, <1>4, <1>5

(* An item stands behind the one it was written on. *)
LEMMA WrittenOn ==
  ASSUME NEW p \in Seq(Nat), NEW t \in Nat
  PROVE  Append(p, t) \in Seq(Nat) /\ Behind(Append(p, t), p)
<1>1. /\ Append(p, t) \in Seq(Nat) /\ Len(Append(p, t)) = Len(p) + 1
      /\ \A i \in 1..Len(p) : Append(p, t)[i] = p[i]
  OBVIOUS
<1>2. LaterAt(Append(p, t), p, Len(p) + 1) /\ Len(p) + 1 \in 1..Len(Append(p, t))
  BY <1>1 DEF LaterAt
<1>. QED BY <1>1, <1>2, BehindIs

(* What the first writers say of the order. *)
LEMMA FirstWriters ==
  ASSUME NEW p \in Seq(Nat), NEW q \in Seq(Nat)
  PROVE  /\ p = <<>> => ~Behind(p, q)
         /\ p # <<>> /\ q = <<>> => Behind(p, q)
         /\ p # <<>> /\ q # <<>> /\ p[1] > q[1] => Behind(p, q)
         /\ p # <<>> /\ q # <<>> /\ Behind(p, q) => p[1] >= q[1]
<1>1. ASSUME p = <<>> PROVE ~Behind(p, q)
  <2>1. 1..Len(p) = {}
    BY <1>1
  <2>. QED BY <2>1, BehindIs
<1>2. ASSUME p # <<>>, q = <<>> \/ p[1] > q[1] PROVE Behind(p, q)
  <2>1. LaterAt(p, q, 1) /\ 1 \in 1..Len(p)
    BY <1>2 DEF LaterAt
  <2>. QED BY <2>1, BehindIs
<1>3. ASSUME p # <<>>, q # <<>>, Behind(p, q) PROVE p[1] >= q[1]
  <2>1. PICK k \in 1..Len(p) : LaterAt(p, q, k)
    BY <1>3, BehindIs
  <2>2. p[1] \in Nat /\ q[1] \in Nat /\ Len(q) >= 1
    BY <1>3
  <2>3. CASE k = 1
    BY <2>1, <2>2, <2>3 DEF LaterAt
  <2>4. CASE k > 1
    BY <2>1, <2>2, <2>4 DEF LaterAt
  <2>. QED BY <2>3, <2>4
<1>. QED BY <1>1, <1>2, <1>3

-----------------------------------------------------------------------------
(* The invariant. Of any two documents, wherever they are: the first       *)
(* status comes with the first request; a request names its writer; an     *)
(* approval is by somebody else; and a request of the approver that an     *)
(* approving document does not know came with a status later than the      *)
(* approval. So no merge can put a user's approval and his own request     *)
(* together. What a user wrote is known to the page he has open; and an    *)
(* approval that was used is past for the server and for every page of the *)
(* user who used it.                                                       *)

Keys == {"status", "requestedBy", "results"}
StatusItem(r) == r["status"].path
RequestItem(r) == r["requestedBy"].path

IsReg(r) == /\ DOMAIN r = Keys
            /\ StatusItem(r) \in Seq(Tabs) /\ RequestItem(r) \in Seq(Tabs)

Writer(p) == Owner[LastWriter(p)]

(* The first status was written with the first request. *)
Begun(r) == /\ StatusItem(r) = <<>> <=> RequestItem(r) = <<>>
            /\ StatusItem(r) # <<>> => StatusItem(r)[1] = RequestItem(r)[1]

(* The request is its writer's, and approved by somebody else. *)
Sound(r) == /\ IsReg(r) /\ Begun(r)
            /\ StatusItem(r) = <<>> => Status(r) = "unset"
            /\ RequestItem(r) # <<>> => RequestedBy(r) = Writer(RequestItem(r))
            /\ Status(r) = "approved" => Writer(StatusItem(r)) # RequestedBy(r)

(* A user's request that r does not know came with a status later than *)
(* that user's approval in r.                                          *)
Fit(r, s) == /\ Status(r) = "approved"
             /\ RequestedBy(s) = Writer(StatusItem(r))
             /\ Behind(RequestItem(s), RequestItem(r))
             => Behind(StatusItem(s), StatusItem(r))

Good(R) == /\ \A r \in R : Sound(r)
           /\ \A r, s \in R : Fit(r, s)

(* Item p is not later than item q. *)
Upto(p, q) == ~Behind(p, q)
Within(r, s) == /\ Upto(StatusItem(r), StatusItem(s))
                /\ Upto(RequestItem(r), RequestItem(s))

(* What the user of t wrote last in r is known to k. *)
KnownItem(p, q, t) == p # <<>> /\ Writer(p) = Owner[t] => Upto(p, q)
Known(r, t, k) == /\ KnownItem(StatusItem(r), StatusItem(k), t)
                  /\ KnownItem(RequestItem(r), RequestItem(k), t)

(* The documents on their way in a queue, and among them the server's own. *)

Underway(q) == {q[i].regs : i \in {k \in 1..Len(q) : q[k].kind \in {"doc", "sync"}}}
Syncs(q) == {q[i].regs : i \in {k \in 1..Len(q) : q[k].kind = "sync"}}

(* The document of the server comes once, after at most who else is there. *)
InOrder(q) == \A i, k \in 1..Len(q) :
                 q[i].kind = "sync" /\ i # k =>
                    /\ q[k].kind # "sync"
                    /\ k < i => q[k].kind = "here"

Regs == {map[t] : t \in Tabs} \union {doc} \union UNION {Underway(inbox[t]) : t \in Tabs}

(* What a page knows, once it has the document of the server. *)
Views(m, q) == IF Syncs(q) = {} THEN {m} ELSE {Merge(m, g) : g \in Syncs(q)}

ShapeInv == /\ open = [t \in Tabs |-> open[t]] /\ map = [t \in Tabs |-> map[t]]
            /\ inbox = [t \in Tabs |-> inbox[t]] /\ modal = [t \in Tabs |-> modal[t]]
            /\ timers = [t \in Tabs |-> timers[t]] /\ awaits = [t \in Tabs |-> awaits[t]]
            /\ grant = [j \in Jobs |-> grant[j]] /\ ranBy = [j \in Jobs |-> ranBy[j]]

(* A user has the page open in one tab. *)
Alone == \A s, t \in Tabs : Here(s) /\ Here(t) /\ Owner[s] = Owner[t] => s = t

(* A page that is not shown holds nothing. *)
Away(t) == ~Here(t) => /\ map[t] = Blank /\ inbox[t] = <<>>
                       /\ ~modal[t] /\ timers[t] = 0 /\ awaits[t] = {}

(* A page that has not heard from the server asks for a run at most. *)
Early(t) == Syncs(inbox[t]) # {} => /\ ~modal[t] /\ timers[t] = 0 /\ awaits[t] = {}
                                    /\ StatusItem(map[t]) = <<>> \/ Status(map[t]) = "pending"

(* The question is never about one's own request. *)
Asked(t) == modal[t] => RequestItem(map[t]) # <<>> /\ RequestedBy(map[t]) # Owner[t]

Waits(t) == awaits[t] # {} => StatusItem(map[t]) # <<>>

PageOK(t) == Away(t) /\ Early(t) /\ Asked(t) /\ Waits(t) /\ InOrder(inbox[t])

DocInv == \A r \in Regs : Within(r, doc)
KnowInv == \A t \in Tabs : Here(t) =>
             \A k \in Views(map[t], inbox[t]), r \in Regs : Known(r, t, k)

(* An approval that was used is past, for all who might use it. *)
Used(j) == ranBy[j] # 0 =>
    /\ ranBy[j] \in Tabs /\ grant[j] \in Seq(Tabs) /\ grant[j] # <<>>
    /\ Writer(grant[j]) # Owner[ranBy[j]]
    /\ Behind(StatusItem(doc), grant[j])
    /\ \A t \in Tabs : Here(t) /\ Owner[t] = Owner[ranBy[j]] =>
          \A k \in Views(map[t], inbox[t]) : Behind(StatusItem(k), grant[j])

UsedOnce == /\ \A j \in Jobs : Used(j) /\ (ranBy[j] = 0 => grant[j] = <<>>)
            /\ \A i, j \in Jobs : i # j /\ ranBy[i] # 0 /\ ranBy[j] # 0 => grant[i] # grant[j]

DocsInv == Alone /\ Good(Regs) /\ DocInv /\ KnowInv
Runs == ShapeInv /\ DocsInv /\ UsedOnce /\ \A t \in Tabs : PageOK(t)

-----------------------------------------------------------------------------
(* Merging and writing documents.                                          *)

LEMMA ItemsAreSeqs == Seq(Tabs) \subseteq Seq(Nat)
<1> SUFFICES ASSUME NEW p \in Seq(Tabs) PROVE p \in Seq(Nat)
  OBVIOUS
<1>1. p \in [1..Len(p) -> Tabs] /\ Len(p) \in Nat
  OBVIOUS
<1>2. p \in [1..Len(p) -> Nat]
  BY <1>1
<1>. QED BY <1>1, <1>2

(* The order is total. *)
LEMMA Order ==
  /\ \A p \in Seq(Tabs) : Upto(p, p)
  /\ \A p, q, r \in Seq(Tabs) : Behind(p, q) /\ Behind(q, r) => Behind(p, r)
  /\ \A p, q \in Seq(Tabs) : p = q \/ Behind(p, q) \/ Behind(q, p)
  BY ItemsAreSeqs, LaterOnce, LaterTransitive, LaterOneWay DEF Upto

LEMMA UptoOrder ==
  ASSUME NEW p \in Seq(Tabs), NEW q \in Seq(Tabs), NEW r \in Seq(Tabs)
  PROVE  /\ Upto(p, q) /\ Upto(q, r) => Upto(p, r)
         /\ Behind(q, p) /\ Upto(q, r) => Behind(r, p)
         /\ Upto(p, q) /\ Behind(r, q) => Behind(r, p)
         /\ Behind(p, q) => Upto(q, p)
  BY Order DEF Upto

LEMMA Written ==
  ASSUME NEW p \in Seq(Tabs), NEW t \in Tabs
  PROVE  /\ Append(p, t) \in Seq(Tabs) /\ Append(p, t) # <<>>
         /\ Behind(Append(p, t), p) /\ Upto(p, Append(p, t))
         /\ LastWriter(Append(p, t)) = t /\ Writer(Append(p, t)) = Owner[t]
         /\ p # <<>> => Append(p, t)[1] = p[1]
         /\ p = <<>> => Append(p, t)[1] = t
<1>1. /\ Append(p, t) \in Seq(Tabs) /\ Append(p, t) # <<>>
      /\ Len(Append(p, t)) = Len(p) + 1 /\ Append(p, t)[Len(p) + 1] = t
      /\ p # <<>> => Append(p, t)[1] = p[1]
      /\ p = <<>> => Append(p, t)[1] = t
  OBVIOUS
<1>2. Behind(Append(p, t), p)
  BY ItemsAreSeqs, WrittenOn
<1>3. Upto(p, Append(p, t))
  BY <1>1, <1>2, UptoOrder
<1>. QED BY <1>1, <1>2, <1>3 DEF LastWriter, Writer

LEMMA Merged ==
  ASSUME NEW r, NEW s, IsReg(r), IsReg(s)
  PROVE  /\ IsReg(Merge(r, s))
         /\ \/ Merge(r, s)["status"] = r["status"] /\ Upto(StatusItem(s), StatusItem(r))
            \/ Merge(r, s)["status"] = s["status"] /\ Behind(StatusItem(s), StatusItem(r))
         /\ \/ /\ Merge(r, s)["requestedBy"] = r["requestedBy"]
               /\ Upto(RequestItem(s), RequestItem(r))
            \/ /\ Merge(r, s)["requestedBy"] = s["requestedBy"]
               /\ Behind(RequestItem(s), RequestItem(r))
<1> DEFINE m == Merge(r, s)
<1>1. DOMAIN m = Keys
  BY DEF IsReg, Merge
<1>2. \A k \in Keys : m[k] = IF Behind(s[k].path, r[k].path) THEN s[k] ELSE r[k]
  BY DEF IsReg, Merge
<1>3. m["status"] = IF Behind(StatusItem(s), StatusItem(r)) THEN s["status"] ELSE r["status"]
  BY <1>2 DEF Keys, StatusItem
<1>4. m["requestedBy"] = IF Behind(RequestItem(s), RequestItem(r))
                         THEN s["requestedBy"] ELSE r["requestedBy"]
  BY <1>2 DEF Keys, RequestItem
<1>5. IsReg(m)
  BY <1>1, <1>3, <1>4 DEF IsReg, StatusItem, RequestItem
<1>. QED BY <1>3, <1>4, <1>5 DEF Upto

(* A merge is one of the two and not before any. *)
LEMMA MergeIsLater ==
  ASSUME NEW r, NEW s, IsReg(r), IsReg(s)
  PROVE  /\ Within(r, Merge(r, s)) /\ Within(s, Merge(r, s))
         /\ StatusItem(Merge(r, s)) \in {StatusItem(r), StatusItem(s)}
         /\ RequestItem(Merge(r, s)) \in {RequestItem(r), RequestItem(s)}
<1> DEFINE m == Merge(r, s)
<1>1. StatusItem(r) \in Seq(Tabs) /\ StatusItem(s) \in Seq(Tabs)
      /\ RequestItem(r) \in Seq(Tabs) /\ RequestItem(s) \in Seq(Tabs)
  BY DEF IsReg
<1>2. \/ StatusItem(m) = StatusItem(r) /\ Upto(StatusItem(s), StatusItem(r))
      \/ StatusItem(m) = StatusItem(s) /\ Behind(StatusItem(s), StatusItem(r))
  BY Merged DEF StatusItem
<1>3. \/ RequestItem(m) = RequestItem(r) /\ Upto(RequestItem(s), RequestItem(r))
      \/ RequestItem(m) = RequestItem(s) /\ Behind(RequestItem(s), RequestItem(r))
  BY Merged DEF RequestItem
<1>4. Upto(StatusItem(r), StatusItem(m)) /\ Upto(StatusItem(s), StatusItem(m))
  BY <1>1, <1>2, Order, UptoOrder
<1>5. Upto(RequestItem(r), RequestItem(m)) /\ Upto(RequestItem(s), RequestItem(m))
  BY <1>1, <1>3, Order, UptoOrder
<1>. QED BY <1>2, <1>3, <1>4, <1>5 DEF Within

LEMMA WithinOrder ==
  ASSUME NEW r, NEW s, NEW x, IsReg(r), IsReg(s), IsReg(x)
  PROVE  /\ Within(r, r)
         /\ Within(r, s) /\ Within(s, x) => Within(r, x)
  BY Order, UptoOrder DEF Within, IsReg

LEMMA MergeIsBegun ==
  ASSUME NEW r, NEW s, Sound(r), Sound(s)
  PROVE  Begun(Merge(r, s))
<1> DEFINE m == Merge(r, s)
           sr == StatusItem(r)
           ss == StatusItem(s)
           qr == RequestItem(r)
           qs == RequestItem(s)
<1>1. IsReg(r) /\ IsReg(s) /\ Begun(r) /\ Begun(s)
  BY DEF Sound
<1>2. /\ sr \in Seq(Tabs) /\ ss \in Seq(Tabs) /\ qr \in Seq(Tabs) /\ qs \in Seq(Tabs)
      /\ sr \in Seq(Nat) /\ ss \in Seq(Nat) /\ qr \in Seq(Nat) /\ qs \in Seq(Nat)
  BY <1>1, ItemsAreSeqs DEF IsReg
<1>3. /\ sr = <<>> <=> qr = <<>>
      /\ ss = <<>> <=> qs = <<>>
      /\ sr # <<>> => sr[1] = qr[1]
      /\ ss # <<>> => ss[1] = qs[1]
  BY <1>1 DEF Begun
<1>4. \/ StatusItem(m) = sr /\ ~Behind(ss, sr)
      \/ StatusItem(m) = ss /\ Behind(ss, sr)
  BY <1>1, Merged DEF StatusItem, Upto
<1>5. \/ RequestItem(m) = qr /\ ~Behind(qs, qr)
      \/ RequestItem(m) = qs /\ Behind(qs, qr)
  BY <1>1, Merged DEF RequestItem, Upto
<1> HIDE DEF m, sr, ss, qr, qs
<1>6. /\ ss = <<>> => ~Behind(ss, sr)
      /\ qs = <<>> => ~Behind(qs, qr)
      /\ ss # <<>> /\ sr = <<>> => Behind(ss, sr)
      /\ qs # <<>> /\ qr = <<>> => Behind(qs, qr)
  BY <1>2, FirstWriters
<1>7. ASSUME sr # <<>>, ss # <<>>
      PROVE  /\ sr[1] \in Nat /\ ss[1] \in Nat
             /\ ss[1] > sr[1] => Behind(ss, sr)
             /\ Behind(ss, sr) => ss[1] >= sr[1]
             /\ qs[1] > qr[1] => Behind(qs, qr)
             /\ Behind(qs, qr) => qs[1] >= qr[1]
  <2>1. qr # <<>> /\ qs # <<>>
    BY <1>3, <1>7
  <2>2. sr[1] \in Nat /\ ss[1] \in Nat
    BY <1>2, <1>7
  <2>3. /\ ss[1] > sr[1] => Behind(ss, sr)
        /\ Behind(ss, sr) => ss[1] >= sr[1]
    BY <1>2, <1>7, FirstWriters
  <2>4. /\ qs[1] > qr[1] => Behind(qs, qr)
        /\ Behind(qs, qr) => qs[1] >= qr[1]
    BY <1>2, <2>1, FirstWriters
  <2>. QED BY <2>2, <2>3, <2>4
<1>8. ASSUME sr # <<>> /\ ss # <<>> PROVE Begun(m)
  <2>1. sr[1] = qr[1] /\ ss[1] = qs[1] /\ qr # <<>> /\ qs # <<>>
    BY <1>3, <1>8
  <2>2. StatusItem(m) # <<>> /\ RequestItem(m) # <<>>
    BY <1>4, <1>5, <1>8, <2>1
  <2>3. StatusItem(m)[1] = RequestItem(m)[1]
    BY <1>4, <1>5, <1>7, <1>8, <2>1
  <2>. QED BY <2>2, <2>3 DEF Begun
<1>9. ASSUME sr = <<>> \/ ss = <<>> PROVE Begun(m)
  BY <1>3, <1>4, <1>5, <1>6, <1>9 DEF Begun
<1>. QED BY <1>8, <1>9 DEF m

LEMMA MergeIsSound ==
  ASSUME NEW r, NEW s, Sound(r), Sound(s), Fit(r, s), Fit(s, r)
  PROVE  Sound(Merge(r, s))
<1> DEFINE m == Merge(r, s)
<1>1. IsReg(r) /\ IsReg(s) /\ IsReg(m) /\ Begun(m)
  BY Merged, MergeIsBegun DEF Sound
<1>2. /\ StatusItem(r) \in Seq(Tabs) /\ StatusItem(s) \in Seq(Tabs)
      /\ RequestItem(r) \in Seq(Tabs) /\ RequestItem(s) \in Seq(Tabs)
  BY <1>1 DEF IsReg
<1>3. \/ /\ StatusItem(m) = StatusItem(r) /\ Status(m) = Status(r)
         /\ Upto(StatusItem(s), StatusItem(r))
      \/ /\ StatusItem(m) = StatusItem(s) /\ Status(m) = Status(s)
         /\ Behind(StatusItem(s), StatusItem(r))
  BY <1>1, Merged DEF StatusItem, Status
<1>4. \/ /\ RequestItem(m) = RequestItem(r) /\ RequestedBy(m) = RequestedBy(r)
         /\ Upto(RequestItem(s), RequestItem(r))
      \/ /\ RequestItem(m) = RequestItem(s) /\ RequestedBy(m) = RequestedBy(s)
         /\ Behind(RequestItem(s), RequestItem(r))
  BY <1>1, Merged DEF RequestItem, RequestedBy
<1> HIDE DEF m
<1>5. StatusItem(m) = <<>> => Status(m) = "unset"
  BY <1>3 DEF Sound
<1>6. RequestItem(m) # <<>> => RequestedBy(m) = Writer(RequestItem(m))
  BY <1>4 DEF Sound
<1>7. ASSUME Status(m) = "approved" PROVE Writer(StatusItem(m)) # RequestedBy(m)
  <2>1. CASE StatusItem(m) = StatusItem(r) /\ Status(m) = Status(r)
             /\ Upto(StatusItem(s), StatusItem(r))
    <3>1. CASE RequestedBy(m) = RequestedBy(r)
      BY <1>7, <2>1, <3>1 DEF Sound
    <3>2. CASE RequestedBy(m) = RequestedBy(s) /\ Behind(RequestItem(s), RequestItem(r))
      BY <1>7, <2>1, <3>2 DEF Fit, Upto
    <3>. QED BY <1>4, <3>1, <3>2
  <2>2. CASE StatusItem(m) = StatusItem(s) /\ Status(m) = Status(s)
             /\ Behind(StatusItem(s), StatusItem(r))
    <3>1. CASE RequestedBy(m) = RequestedBy(s)
      BY <1>7, <2>2, <3>1 DEF Sound
    <3>2. CASE RequestedBy(m) = RequestedBy(r) /\ Upto(RequestItem(s), RequestItem(r))
      <4>1. CASE RequestItem(s) = RequestItem(r)
        <5>1. StatusItem(s) # <<>>
          BY <1>7, <2>2 DEF Sound
        <5>2. RequestItem(s) # <<>> /\ RequestItem(r) # <<>>
          BY <4>1, <5>1 DEF Sound, Begun
        <5>3. RequestedBy(r) = RequestedBy(s)
          BY <4>1, <5>2 DEF Sound
        <5>. QED BY <1>7, <2>2, <3>2, <5>3 DEF Sound
      <4>2. CASE RequestItem(s) # RequestItem(r)
        <5>1. Behind(RequestItem(r), RequestItem(s))
          BY <1>2, <3>2, <4>2, Order DEF Upto
        <5>2. ~Behind(StatusItem(r), StatusItem(s))
          BY <1>2, <2>2, UptoOrder DEF Upto
        <5>. QED BY <1>7, <2>2, <3>2, <5>1, <5>2 DEF Fit
      <4>. QED BY <4>1, <4>2
    <3>. QED BY <1>4, <3>1, <3>2
  <2>. QED BY <1>3, <2>1, <2>2
<1>8. Sound(m)
  BY <1>1, <1>5, <1>6, <1>7 DEF Sound, m
<1>. QED BY <1>8 DEF m

(* What fits two registers fits their merge. *)
LEMMA MergeFits ==
  ASSUME NEW r, NEW s, NEW x, IsReg(r), IsReg(s), IsReg(x)
  PROVE  /\ Fit(r, x) /\ Fit(s, x) => Fit(Merge(r, s), x)
         /\ Fit(x, r) /\ Fit(x, s) => Fit(x, Merge(r, s))
<1> DEFINE m == Merge(r, s)
<1>1. IsReg(m) /\ Within(r, m) /\ Within(s, m)
  BY Merged, MergeIsLater
<1>2. \/ StatusItem(m) = StatusItem(r) /\ Status(m) = Status(r)
      \/ StatusItem(m) = StatusItem(s) /\ Status(m) = Status(s)
  BY Merged DEF StatusItem, Status
<1>3. \/ RequestItem(m) = RequestItem(r) /\ RequestedBy(m) = RequestedBy(r)
      \/ RequestItem(m) = RequestItem(s) /\ RequestedBy(m) = RequestedBy(s)
  BY Merged DEF RequestItem, RequestedBy
<1>4. /\ \A y \in {r, s, x, m} : StatusItem(y) \in Seq(Tabs) /\ RequestItem(y) \in Seq(Tabs)
      /\ Upto(StatusItem(r), StatusItem(m)) /\ Upto(StatusItem(s), StatusItem(m))
      /\ Upto(RequestItem(r), RequestItem(m)) /\ Upto(RequestItem(s), RequestItem(m))
  BY <1>1 DEF IsReg, Within
<1> HIDE DEF m
<1>5. ASSUME Fit(r, x), Fit(s, x), Status(m) = "approved",
             RequestedBy(x) = Writer(StatusItem(m)), Behind(RequestItem(x), RequestItem(m))
      PROVE  Behind(StatusItem(x), StatusItem(m))
  <2>1. Behind(RequestItem(x), RequestItem(r)) /\ Behind(RequestItem(x), RequestItem(s))
    BY <1>4, <1>5, UptoOrder
  <2>. QED BY <1>2, <1>5, <2>1 DEF Fit
<1>6. ASSUME Fit(x, r), Fit(x, s), Status(x) = "approved",
             RequestedBy(m) = Writer(StatusItem(x)), Behind(RequestItem(m), RequestItem(x))
      PROVE  Behind(StatusItem(m), StatusItem(x))
  <2>1. Behind(StatusItem(r), StatusItem(x)) \/ Behind(StatusItem(s), StatusItem(x))
    BY <1>3, <1>6 DEF Fit
  <2>. QED BY <1>4, <2>1, UptoOrder
<1>. QED BY <1>5, <1>6 DEF Fit, m

LEMMA FitsItself == ASSUME NEW r, IsReg(r) PROVE Fit(r, r)
  BY Order DEF Fit, IsReg, Upto

LEMMA AddedIsGood ==
  ASSUME NEW R, Good(R), NEW m, Sound(m), \A x \in R : Fit(m, x) /\ Fit(x, m)
  PROVE  Good(R \union {m})
  BY FitsItself DEF Good, Sound

LEMMA MergeIsGood ==
  ASSUME NEW R, Good(R), NEW r \in R, NEW s \in R
  PROVE  Good(R \union {Merge(r, s)})
<1>1. Sound(r) /\ Sound(s) /\ Fit(r, s) /\ Fit(s, r)
  BY DEF Good
<1>2. Sound(Merge(r, s))
  BY <1>1, MergeIsSound
<1>3. ASSUME NEW x \in R PROVE Fit(Merge(r, s), x) /\ Fit(x, Merge(r, s))
  <2>1. /\ IsReg(r) /\ IsReg(s) /\ IsReg(x)
        /\ Fit(r, x) /\ Fit(s, x) /\ Fit(x, r) /\ Fit(x, s)
    BY <1>1 DEF Good, Sound
  <2>. QED BY <2>1, MergeFits
<1>. QED BY <1>2, <1>3, AddedIsGood

LEMMA SetStatus ==
  ASSUME NEW r, IsReg(r), NEW t, NEW v
  PROVE  /\ DOMAIN Set(r, "status", t, v) = Keys
         /\ Set(r, "status", t, v)["status"] = [path |-> Append(StatusItem(r), t), val |-> v]
         /\ Set(r, "status", t, v)["requestedBy"] = r["requestedBy"]
  BY DEF Set, IsReg, Keys, StatusItem

LEMMA SetRequest ==
  ASSUME NEW r, IsReg(r), NEW t, NEW v
  PROVE  /\ DOMAIN Set(r, "requestedBy", t, v) = Keys
         /\ Set(r, "requestedBy", t, v)["requestedBy"]
              = [path |-> Append(RequestItem(r), t), val |-> v]
         /\ Set(r, "requestedBy", t, v)["status"] = r["status"]
  BY DEF Set, IsReg, Keys, RequestItem

LEMMA SetResults ==
  ASSUME NEW r, IsReg(r), NEW t, NEW v
  PROVE  /\ DOMAIN Set(r, "results", t, v) = Keys
         /\ Set(r, "results", t, v)["status"] = r["status"]
         /\ Set(r, "results", t, v)["requestedBy"] = r["requestedBy"]
  BY DEF Set, IsReg, Keys

(* Setting the status. *)
LEMMA StatusIsGood ==
  ASSUME NEW R, Good(R), NEW r \in R, NEW t \in Tabs, NEW v, StatusItem(r) # <<>>,
         v = "approved" => /\ RequestedBy(r) # Owner[t]
                           /\ \A x \in R : Known(x, t, r)
  PROVE  /\ Good(R \union {Set(r, "status", t, v)})
         /\ Within(r, Set(r, "status", t, v))
         /\ StatusItem(Set(r, "status", t, v)) = Append(StatusItem(r), t)
         /\ RequestItem(Set(r, "status", t, v)) = RequestItem(r)
         /\ RequestedBy(Set(r, "status", t, v)) = RequestedBy(r)
         /\ Status(Set(r, "status", t, v)) = v
<1> DEFINE n == Set(r, "status", t, v)
<1>1. IsReg(r) /\ Begun(r) /\ Sound(r)
  BY DEF Good, Sound
<1>2. /\ DOMAIN n = Keys /\ StatusItem(n) = Append(StatusItem(r), t) /\ Status(n) = v
      /\ RequestItem(n) = RequestItem(r) /\ RequestedBy(n) = RequestedBy(r)
  <2>1. /\ DOMAIN n = Keys /\ n["requestedBy"] = r["requestedBy"]
        /\ n["status"] = [path |-> Append(StatusItem(r), t), val |-> v]
    BY <1>1, SetStatus
  <2> HIDE DEF n
  <2>. QED BY <2>1 DEF StatusItem, RequestItem, Status, RequestedBy
<1>3. StatusItem(r) \in Seq(Tabs) /\ RequestItem(r) \in Seq(Tabs)
  BY <1>1 DEF IsReg
<1> HIDE DEF n
<1>4. /\ StatusItem(n) \in Seq(Tabs) /\ StatusItem(n) # <<>>
      /\ Upto(StatusItem(r), StatusItem(n)) /\ Writer(StatusItem(n)) = Owner[t]
      /\ StatusItem(n)[1] = StatusItem(r)[1]
  BY <1>2, <1>3, Written
<1>5. IsReg(n) /\ Begun(n)
  BY <1>1, <1>2, <1>3, <1>4 DEF IsReg, Begun
<1>6. Within(r, n)
  BY <1>2, <1>3, <1>4, Order DEF Within
<1>7. Sound(n)
  BY <1>1, <1>2, <1>4, <1>5 DEF Sound
<1>8. ASSUME NEW x \in R PROVE Fit(n, x) /\ Fit(x, n)
  <2>1. /\ StatusItem(x) \in Seq(Tabs) /\ RequestItem(x) \in Seq(Tabs)
        /\ Fit(x, r) /\ Sound(x)
    BY DEF Good, Sound, IsReg
  <2>2. Fit(x, n)
    BY <1>2, <1>3, <1>4, <2>1, UptoOrder DEF Fit
  <2>3. ASSUME v = "approved", RequestedBy(x) = Owner[t], Behind(RequestItem(x), RequestItem(r))
        PROVE  FALSE
    <3>1. RequestItem(x) # <<>>
      <4>1. RequestItem(x) \in Seq(Nat) /\ RequestItem(r) \in Seq(Nat)
        BY <1>3, <2>1, ItemsAreSeqs
      <4>. QED BY <2>3, <4>1, FirstWriters
    <3>2. Writer(RequestItem(x)) = Owner[t]
      BY <2>1, <2>3, <3>1 DEF Sound
    <3>. QED BY <2>3, <3>1, <3>2 DEF Known, KnownItem, Upto
  <2>4. Fit(n, x)
    BY <1>2, <1>4, <2>3 DEF Fit
  <2>. QED BY <2>2, <2>4
<1>9. Good(R \union {n})
  BY <1>7, <1>8, AddedIsGood
<1>. QED BY <1>2, <1>6, <1>9 DEF n

(* Nobody looks at the results here. *)
LEMMA ResultsAreGood ==
  ASSUME NEW R, Good(R), NEW r \in R, NEW t \in Tabs, NEW v
  PROVE  /\ Good(R \union {Set(r, "results", t, v)})
         /\ Within(r, Set(r, "results", t, v))
         /\ StatusItem(Set(r, "results", t, v)) = StatusItem(r)
         /\ RequestItem(Set(r, "results", t, v)) = RequestItem(r)
         /\ RequestedBy(Set(r, "results", t, v)) = RequestedBy(r)
<1> DEFINE n == Set(r, "results", t, v)
<1>1. IsReg(r) /\ Begun(r) /\ Sound(r)
  BY DEF Good, Sound
<1>2. /\ DOMAIN n = Keys /\ StatusItem(n) = StatusItem(r) /\ Status(n) = Status(r)
      /\ RequestItem(n) = RequestItem(r) /\ RequestedBy(n) = RequestedBy(r)
  BY <1>1, SetResults DEF StatusItem, RequestItem, Status, RequestedBy
<1> HIDE DEF n
<1>3. Sound(n)
  BY <1>1, <1>2 DEF Sound, IsReg, Begun
<1>4. ASSUME NEW x \in R PROVE Fit(n, x) /\ Fit(x, n)
  BY <1>2 DEF Good, Fit
<1>5. Within(r, n)
  BY <1>1, <1>2, Order DEF Within, IsReg
<1>. QED BY <1>2, <1>3, <1>4, <1>5, AddedIsGood DEF n

Request(r, t) == Set(Set(r, "requestedBy", t, Owner[t]), "status", t, "pending")

(* Asking for a run, on a map that has one's own approvals or is empty. *)
LEMMA RequestIsGood ==
  ASSUME NEW R, Good(R), NEW r \in R, NEW t \in Tabs,
         StatusItem(r) = <<>> \/ \A x \in R : Known(x, t, r)
  PROVE  /\ Good(R \union {Request(r, t)})
         /\ Within(r, Request(r, t))
         /\ StatusItem(Request(r, t)) = Append(StatusItem(r), t)
         /\ RequestItem(Request(r, t)) = Append(RequestItem(r), t)
         /\ RequestedBy(Request(r, t)) = Owner[t]
         /\ Status(Request(r, t)) = "pending"
<1> DEFINE a == Set(r, "requestedBy", t, Owner[t])
           n == Request(r, t)
<1>1. IsReg(r) /\ Begun(r) /\ Sound(r)
  BY DEF Good, Sound
<1>2. /\ DOMAIN a = Keys /\ a["status"] = r["status"]
      /\ a["requestedBy"] = [path |-> Append(RequestItem(r), t), val |-> Owner[t]]
  BY <1>1, SetRequest
<1>3. RequestItem(a) = Append(RequestItem(r), t) /\ StatusItem(a) = StatusItem(r)
  BY <1>2 DEF RequestItem, StatusItem
<1>4. StatusItem(r) \in Seq(Tabs) /\ RequestItem(r) \in Seq(Tabs)
  BY <1>1 DEF IsReg
<1>5. IsReg(a)
  BY <1>2, <1>3, <1>4, Written DEF IsReg
<1>6. /\ DOMAIN n = Keys /\ n["requestedBy"] = a["requestedBy"]
      /\ n["status"] = [path |-> Append(StatusItem(a), t), val |-> "pending"]
  BY <1>5, SetStatus DEF Request
<1> HIDE DEF n, a
<1>7. /\ StatusItem(n) = Append(StatusItem(r), t) /\ Status(n) = "pending"
      /\ RequestItem(n) = Append(RequestItem(r), t) /\ RequestedBy(n) = Owner[t]
  BY <1>2, <1>3, <1>6 DEF StatusItem, RequestItem, Status, RequestedBy
<1>8. /\ StatusItem(n) \in Seq(Tabs) /\ StatusItem(n) # <<>>
      /\ Upto(StatusItem(r), StatusItem(n)) /\ Behind(StatusItem(n), StatusItem(r))
      /\ StatusItem(r) # <<>> => StatusItem(n)[1] = StatusItem(r)[1]
      /\ StatusItem(r) = <<>> => StatusItem(n)[1] = t
  BY <1>4, <1>7, Written
<1>9. /\ RequestItem(n) \in Seq(Tabs) /\ RequestItem(n) # <<>>
      /\ Upto(RequestItem(r), RequestItem(n)) /\ Writer(RequestItem(n)) = Owner[t]
      /\ RequestItem(r) # <<>> => RequestItem(n)[1] = RequestItem(r)[1]
      /\ RequestItem(r) = <<>> => RequestItem(n)[1] = t
  BY <1>4, <1>7, Written
<1>10. IsReg(n) /\ Begun(n)
  BY <1>1, <1>6, <1>8, <1>9 DEF IsReg, Begun
<1>11. Within(r, n)
  BY <1>8, <1>9 DEF Within
<1>12. Sound(n)
  BY <1>7, <1>8, <1>9, <1>10 DEF Sound
<1>13. ASSUME NEW x \in R PROVE Fit(n, x) /\ Fit(x, n)
  <2>1. Fit(n, x)
    BY <1>7 DEF Fit
  <2>2. StatusItem(x) \in Seq(Tabs) /\ RequestItem(x) \in Seq(Tabs) /\ Sound(x) /\ Begun(x)
    BY DEF Good, Sound, IsReg
  <2>3. ASSUME Status(x) = "approved", Owner[t] = Writer(StatusItem(x)),
               Behind(RequestItem(n), RequestItem(x))
        PROVE  Behind(StatusItem(n), StatusItem(x))
    <3>1. StatusItem(x) # <<>>
      BY <2>2, <2>3 DEF Sound
    <3>2. CASE StatusItem(r) = <<>>
      <4>1. RequestItem(r) = <<>> /\ StatusItem(n)[1] = t /\ RequestItem(n)[1] = t
        BY <1>1, <1>8, <1>9, <3>2 DEF Begun
      <4>2. RequestItem(x) # <<>> /\ StatusItem(x)[1] = RequestItem(x)[1]
        BY <2>2, <3>1 DEF Begun
      <4>3. StatusItem(n) = <<t>> /\ RequestItem(n) = <<t>>
        BY <1>7, <3>2, <4>1
      <4>4. /\ StatusItem(x) \in Seq(Nat) /\ RequestItem(x) \in Seq(Nat)
            /\ StatusItem(n) \in Seq(Nat) /\ RequestItem(n) \in Seq(Nat)
        BY <1>8, <1>9, <2>2, ItemsAreSeqs
      <4>5. PICK k \in 1..Len(RequestItem(n)) : LaterAt(RequestItem(n), RequestItem(x), k)
        BY <2>3, <4>4, BehindIs
      <4>6. k = 1 /\ Len(RequestItem(x)) >= 1
        BY <4>2, <4>3, <4>4, <4>5
      <4>7. t > RequestItem(x)[1]
        BY <4>3, <4>4, <4>5, <4>6 DEF LaterAt
      <4>. QED BY <1>8, <3>1, <4>1, <4>2, <4>4, <4>7, FirstWriters
    <3>3. CASE StatusItem(r) # <<>>
      <4>1. Upto(StatusItem(x), StatusItem(r))
        BY <2>3, <3>1, <3>3 DEF Known, KnownItem
      <4>. QED BY <1>4, <1>8, <2>2, <4>1, UptoOrder
    <3>. QED BY <3>2, <3>3
  <2>4. Fit(x, n)
    BY <1>7, <2>3 DEF Fit
  <2>. QED BY <2>1, <2>4
<1>14. Good(R \union {n})
  BY <1>12, <1>13, AddedIsGood
<1>. QED BY <1>7, <1>11, <1>14 DEF n

LEMMA BlankIsGood ==
  ASSUME NEW R, Good(R)
  PROVE  Good(R \union {Blank}) /\ IsReg(Blank) /\ StatusItem(Blank) = <<>>
         /\ RequestItem(Blank) = <<>> /\ Status(Blank) = "unset"
<1>1. /\ DOMAIN Blank = Keys
      /\ StatusItem(Blank) = <<>> /\ Status(Blank) = "unset"
      /\ RequestItem(Blank) = <<>> /\ RequestedBy(Blank) = "unset"
  BY DEF Blank, Keys, StatusItem, RequestItem, Status, RequestedBy
<1>2. <<>> \in Seq(Tabs) /\ <<>> \in Seq(Nat)
  OBVIOUS
<1>3. Sound(Blank) /\ IsReg(Blank)
  BY <1>1, <1>2 DEF Sound, IsReg, Begun
<1>4. ASSUME NEW x \in R PROVE Fit(Blank, x) /\ Fit(x, Blank)
  <2>1. RequestItem(x) \in Seq(Nat)
    BY ItemsAreSeqs DEF Good, Sound, IsReg
  <2>2. ~Behind(<<>>, RequestItem(x))
    BY <1>2, <2>1, FirstWriters
  <2>. QED BY <1>1, <2>2 DEF Fit
<1>. QED BY <1>1, <1>3, <1>4, AddedIsGood

-----------------------------------------------------------------------------
(* What is on its way to a page.                                           *)

LEMMA NothingUnderway == Underway(<<>>) = {} /\ Syncs(<<>>) = {} /\ InOrder(<<>>)
  BY DEF Underway, Syncs, InOrder

LEMMA OtherMessage ==
  ASSUME NEW m, m.kind \notin {"doc", "sync"}
  PROVE  Underway(<<m>>) = {} /\ Syncs(<<m>>) = {}
  BY DEF Underway, Syncs

LEMMA JoinedUnderway ==
  ASSUME NEW p, NEW q, IsQueue(p), IsQueue(q)
  PROVE  /\ Underway(p \o q) = Underway(p) \union Underway(q)
         /\ Syncs(p \o q) = Syncs(p) \union Syncs(q)
         /\ InOrder(p) /\ Syncs(q) = {} => InOrder(p \o q)
<1>1. PICK S : p \in Seq(S)
  BY DEF IsQueue
<1>2. PICK R : q \in Seq(R)
  BY DEF IsQueue
<1>3. p \in Seq(S \union R) /\ q \in Seq(S \union R)
  BY <1>1, <1>2
<1>4. /\ p \o q \in Seq(S \union R) /\ Len(p \o q) = Len(p) + Len(q)
      /\ Len(p) \in Nat /\ Len(q) \in Nat
  BY <1>3
<1> DEFINE c == p \o q
<1>5. ASSUME NEW i \in 1..Len(p) PROVE i \in 1..Len(c) /\ c[i] = p[i]
  BY <1>3, <1>4
<1>6. ASSUME NEW i \in 1..Len(q) PROVE Len(p) + i \in 1..Len(c) /\ c[Len(p) + i] = q[i]
  BY <1>3, <1>4
<1>7. ASSUME NEW i \in 1..Len(c)
      PROVE  \/ i \in 1..Len(p) /\ c[i] = p[i]
             \/ i - Len(p) \in 1..Len(q) /\ c[i] = q[i - Len(p)] /\ i > Len(p)
  BY <1>3, <1>4
<1> HIDE DEF c
<1>8. Underway(c) = Underway(p) \union Underway(q)
  <2>1. Underway(c) \subseteq Underway(p) \union Underway(q)
    BY <1>7 DEF Underway
  <2>2. Underway(p) \subseteq Underway(c)
    BY <1>5 DEF Underway
  <2>3. Underway(q) \subseteq Underway(c)
    <3> SUFFICES ASSUME NEW i \in 1..Len(q), q[i].kind \in {"doc", "sync"}
                 PROVE  q[i].regs \in Underway(c)
      BY DEF Underway
    <3>. QED BY <1>6 DEF Underway
  <2>. QED BY <2>1, <2>2, <2>3
<1>9. Syncs(c) = Syncs(p) \union Syncs(q)
  <2>1. Syncs(c) \subseteq Syncs(p) \union Syncs(q)
    BY <1>7 DEF Syncs
  <2>2. Syncs(p) \subseteq Syncs(c)
    BY <1>5 DEF Syncs
  <2>3. Syncs(q) \subseteq Syncs(c)
    <3> SUFFICES ASSUME NEW i \in 1..Len(q), q[i].kind = "sync" PROVE q[i].regs \in Syncs(c)
      BY DEF Syncs
    <3>. QED BY <1>6 DEF Syncs
  <2>. QED BY <2>1, <2>2, <2>3
<1>10. ASSUME InOrder(p), Syncs(q) = {} PROVE InOrder(c)
  <2>1. ASSUME NEW i \in 1..Len(q) PROVE q[i].kind # "sync"
    BY <1>10 DEF Syncs
  <2>2. ASSUME NEW i \in 1..Len(c), NEW k \in 1..Len(c), c[i].kind = "sync", i # k
        PROVE  c[k].kind # "sync" /\ (k < i => c[k].kind = "here")
    <3>1. i \in 1..Len(p) /\ c[i] = p[i]
      BY <1>7, <2>1, <2>2
    <3>2. CASE k \in 1..Len(p) /\ c[k] = p[k]
      BY <1>10, <2>2, <3>1, <3>2 DEF InOrder
    <3>3. CASE k - Len(p) \in 1..Len(q) /\ c[k] = q[k - Len(p)] /\ k > Len(p)
      BY <1>4, <2>1, <3>1, <3>3
    <3>. QED BY <1>7, <3>2, <3>3
  <2>. QED BY <2>2 DEF InOrder
<1>. QED BY <1>8, <1>9, <1>10 DEF c

(* The first message is taken. *)
LEMMA TakenUnderway ==
  ASSUME NEW q, IsQueue(q), q # <<>>, InOrder(q)
  PROVE  /\ Underway(Tail(q)) \subseteq Underway(q)
         /\ Head(q).kind \in {"doc", "sync"} => Head(q).regs \in Underway(q)
         /\ InOrder(Tail(q))
         /\ Head(q).kind = "sync" => Syncs(Tail(q)) = {} /\ Head(q).regs \in Syncs(q)
         /\ Head(q).kind # "sync" => Syncs(Tail(q)) = Syncs(q)
         /\ Head(q).kind \notin {"sync", "here"} => Syncs(q) = {}
<1>1. PICK S : q \in Seq(S)
  BY DEF IsQueue
<1> DEFINE r == Tail(q)
<1>2. /\ r \in Seq(S) /\ Len(r) = Len(q) - 1 /\ Len(q) \in Nat \ {0} /\ Head(q) = q[1]
      /\ 1 \in 1..Len(q)
  BY <1>1
<1>3. ASSUME NEW i \in 1..Len(r) PROVE i + 1 \in 1..Len(q) /\ r[i] = q[i + 1] /\ i + 1 # 1
  BY <1>1, <1>2
<1>4. ASSUME NEW i \in 1..Len(q), i # 1 PROVE i - 1 \in 1..Len(r) /\ r[i - 1] = q[i]
  <2>1. i - 1 \in 1..Len(r) /\ (i - 1) + 1 = i
    BY <1>2, <1>4
  <2>. QED BY <1>3, <2>1
<1> HIDE DEF r
<1>5. Underway(r) \subseteq Underway(q)
  <2> SUFFICES ASSUME NEW i \in 1..Len(r), r[i].kind \in {"doc", "sync"}
               PROVE  r[i].regs \in Underway(q)
    BY DEF Underway
  <2>. QED BY <1>3 DEF Underway
<1>6. Syncs(r) \subseteq Syncs(q)
  <2> SUFFICES ASSUME NEW i \in 1..Len(r), r[i].kind = "sync" PROVE r[i].regs \in Syncs(q)
    BY DEF Syncs
  <2>. QED BY <1>3 DEF Syncs
<1>7. InOrder(r)
  <2> SUFFICES ASSUME NEW i \in 1..Len(r), NEW k \in 1..Len(r), r[i].kind = "sync", i # k
               PROVE  r[k].kind # "sync" /\ (k < i => r[k].kind = "here")
    BY DEF InOrder
  <2>1. /\ i + 1 \in 1..Len(q) /\ r[i] = q[i + 1]
        /\ k + 1 \in 1..Len(q) /\ r[k] = q[k + 1]
    BY <1>3
  <2>. QED BY <2>1 DEF InOrder
<1>8. Head(q).kind \in {"doc", "sync"} => Head(q).regs \in Underway(q)
  BY <1>2 DEF Underway
<1>9. ASSUME Head(q).kind = "sync" PROVE Syncs(r) = {} /\ Head(q).regs \in Syncs(q)
  <2>1. Head(q).regs \in Syncs(q)
    BY <1>2, <1>9 DEF Syncs
  <2>2. ASSUME NEW i \in 1..Len(r) PROVE r[i].kind # "sync"
    BY <1>2, <1>3, <1>9 DEF InOrder
  <2>. QED BY <2>1, <2>2 DEF Syncs
<1>10. ASSUME Head(q).kind # "sync" PROVE Syncs(q) \subseteq Syncs(r)
  <2> SUFFICES ASSUME NEW i \in 1..Len(q), q[i].kind = "sync" PROVE q[i].regs \in Syncs(r)
    BY DEF Syncs
  <2>1. i # 1
    BY <1>2, <1>10
  <2>2. i - 1 \in 1..Len(r) /\ r[i - 1] = q[i]
    BY <1>4, <2>1
  <2>. QED BY <2>2 DEF Syncs
<1>11. ASSUME Head(q).kind \notin {"sync", "here"} PROVE Syncs(q) = {}
  <2> SUFFICES ASSUME NEW i \in 1..Len(q), q[i].kind = "sync" PROVE FALSE
    BY DEF Syncs
  <2>1. i # 1
    BY <1>2, <1>11
  <2>2. q[1].kind = "here"
    BY <1>2, <2>1 DEF InOrder
  <2>. QED BY <1>2, <1>11, <2>2
<1>. QED BY <1>5, <1>6, <1>7, <1>8, <1>9, <1>10, <1>11 DEF r

LEMMA DocsUnderway ==
  ASSUME NEW R, NEW rs \in Seq(R)
  PROVE  Syncs(DocMsgs(rs)) = {} /\ Underway(DocMsgs(rs)) \subseteq R /\ IsQueue(DocMsgs(rs))
<1>1. /\ DocMsgs(rs) \in Seq({[kind |-> "doc", regs |-> x] : x \in R})
      /\ Len(DocMsgs(rs)) = Len(rs)
      /\ \A i \in 1..Len(DocMsgs(rs)) : DocMsgs(rs)[i] = [kind |-> "doc", regs |-> rs[i]]
      /\ \A i \in 1..Len(rs) : rs[i] \in R
  BY DEF DocMsgs
<1> DEFINE d == DocMsgs(rs)
<1> HIDE DEF d
<1>2. \A i \in 1..Len(d) : d[i].kind = "doc" /\ d[i].regs \in R
  BY <1>1 DEF d
<1>3. Syncs(d) = {} /\ Underway(d) \subseteq R
  BY <1>2 DEF Syncs, Underway
<1>. QED BY <1>1, <1>3 DEF IsQueue, d

(* A page that is opened hears at most who else is there, then the document. *)
LEMMA OpeningOrder ==
  ASSUME NEW h, NEW g
  PROVE  LET q == <<[kind |-> "sync", regs |-> g]>>
         IN  /\ InOrder(q) /\ Underway(q) = {g} /\ Syncs(q) = {g} /\ IsQueue(q)
             /\ InOrder(<<Joins(h)>> \o q) /\ Underway(<<Joins(h)>> \o q) = {g}
             /\ Syncs(<<Joins(h)>> \o q) = {g} /\ IsQueue(<<Joins(h)>> \o q)
<1> DEFINE m == [kind |-> "sync", regs |-> g]
           q == <<m>>
           p == <<Joins(h)>>
<1>1. IsQueue(q) /\ IsQueue(p)
  BY Single
<1>2. m.kind = "sync" /\ m.regs = g /\ Joins(h).kind = "here"
  BY DEF Joins
<1> HIDE DEF m
<1>3. Len(q) = 1 /\ q[1] = m /\ Len(p) = 1 /\ p[1] = Joins(h)
  OBVIOUS
<1>4. InOrder(q) /\ Underway(q) = {g} /\ Syncs(q) = {g}
  BY <1>2, <1>3 DEF InOrder, Underway, Syncs
<1>5. Underway(p) = {} /\ Syncs(p) = {}
  BY <1>2, OtherMessage
<1>6. Underway(p \o q) = {g} /\ Syncs(p \o q) = {g}
  BY <1>1, <1>4, <1>5, JoinedUnderway
<1>7. Len(p \o q) = 2 /\ (p \o q)[1] = Joins(h) /\ (p \o q)[2] = m
  <2>1. p \in Seq({Joins(h), m}) /\ q \in Seq({Joins(h), m})
    OBVIOUS
  <2>. QED BY <1>3, <2>1
<1>8. InOrder(p \o q)
  <2>1. ASSUME NEW i \in 1..Len(p \o q) PROVE i = 1 \/ i = 2
    BY <1>7
  <2>. QED BY <1>2, <1>7, <2>1 DEF InOrder
<1>9. IsQueue(p \o q)
  BY <1>1, JoinedQueues
<1>. QED BY <1>1, <1>4, <1>6, <1>7, <1>8, <1>9 DEF m

-----------------------------------------------------------------------------
(* The document of one tab changes.                                        *)

(* An item that was there, or that tab t wrote. *)
MineItem(p, P, t) == p \in P \/ LastWriter(p) = t
Mine(x, t) == /\ MineItem(StatusItem(x), {StatusItem(y) : y \in Regs}, t)
              /\ MineItem(RequestItem(x), {RequestItem(y) : y \in Regs}, t)

(* Tab t comes to know s, by way of r, and tells the others. *)
Updates(t, r, s, rest) ==
    /\ Here(t) /\ open' = open
    /\ map' = [map EXCEPT ![t] = s] /\ doc' = Merge(doc, s)
    /\ \E ms : /\ IsQueue(ms) /\ Syncs(ms) = {} /\ Underway(ms) \subseteq {r, s}
               /\ Forward(t, ms, rest)
    /\ IsQueue(rest) /\ InOrder(rest) /\ Underway(rest) \subseteq Underway(inbox[t])
    /\ Good(Regs \union {r, s}) /\ Within(r, s) /\ Mine(r, t) /\ Mine(s, t)
    /\ \A k \in Views(s, rest) : /\ IsReg(k) /\ Within(s, k)
                                 /\ \E l \in Views(map[t], inbox[t]) : Within(l, k)

Queues == \A u \in Tabs : IsQueue(inbox[u]) /\ InOrder(inbox[u])

LEMMA ForwardIs ==
  ASSUME NEW t \in Tabs, NEW ms, NEW rest, Forward(t, ms, rest)
  PROVE  /\ inbox' = [u \in Tabs |-> inbox'[u]]
         /\ inbox'[t] = rest
         /\ \A u \in Tabs \ {t} : inbox'[u] = IF Here(u) THEN inbox[u] \o ms ELSE inbox[u]
  BY DEF Forward

LEMMA ForwardKeeps ==
  ASSUME Queues, NEW t \in Tabs, NEW ms, NEW rest, IsQueue(ms), Syncs(ms) = {},
         InOrder(rest), IsQueue(rest), Forward(t, ms, rest)
  PROVE  /\ Queues'
         /\ \A u \in Tabs \ {t} :
              /\ Syncs(inbox'[u]) = Syncs(inbox[u])
              /\ Underway(inbox'[u]) \subseteq Underway(inbox[u]) \union Underway(ms)
              /\ ~Here(u) => inbox'[u] = inbox[u]
<1>1. ASSUME NEW u \in Tabs \ {t}
      PROVE  /\ Syncs(inbox'[u]) = Syncs(inbox[u])
             /\ Underway(inbox'[u]) \subseteq Underway(inbox[u]) \union Underway(ms)
             /\ IsQueue(inbox'[u]) /\ InOrder(inbox'[u])
             /\ ~Here(u) => inbox'[u] = inbox[u]
  <2>1. inbox'[u] = IF Here(u) THEN inbox[u] \o ms ELSE inbox[u]
    BY ForwardIs
  <2>2. IsQueue(inbox[u]) /\ InOrder(inbox[u])
    BY DEF Queues
  <2>3. /\ Syncs(inbox[u] \o ms) = Syncs(inbox[u])
        /\ Underway(inbox[u] \o ms) \subseteq Underway(inbox[u]) \union Underway(ms)
        /\ IsQueue(inbox[u] \o ms) /\ InOrder(inbox[u] \o ms)
    BY <2>2, JoinedUnderway, JoinedQueues
  <2>. QED BY <2>1, <2>2, <2>3
<1>2. IsQueue(inbox'[t]) /\ InOrder(inbox'[t])
  BY ForwardIs
<1>. QED BY <1>1, <1>2 DEF Queues

LEMMA RegsAre ==
  /\ doc \in Regs
  /\ \A u \in Tabs : map[u] \in Regs /\ Underway(inbox[u]) \subseteq Regs
                     /\ Syncs(inbox[u]) \subseteq Regs
  /\ \A x \in Regs : x = doc \/ \E u \in Tabs : x = map[u] \/ x \in Underway(inbox[u])
<1>1. ASSUME NEW u \in Tabs PROVE Syncs(inbox[u]) \subseteq Underway(inbox[u])
  BY DEF Syncs, Underway
<1>. QED BY <1>1 DEF Regs

LEMMA LessIsGood == ASSUME NEW R, NEW Q, Good(R), Q \subseteq R PROVE Good(Q)
  BY DEF Good

LEMMA GoodAreRegs == ASSUME NEW R, Good(R), NEW x \in R PROVE IsReg(x)
  BY DEF Good, Sound

LEMMA ViewsAre ==
  ASSUME Good(Regs), NEW t \in Tabs, NEW k \in Views(map[t], inbox[t])
  PROVE  IsReg(k) /\ Within(map[t], k)
<1>1. IsReg(map[t])
  BY RegsAre, GoodAreRegs
<1>2. CASE k = map[t]
  BY <1>1, <1>2, WithinOrder
<1>3. ASSUME NEW g \in Syncs(inbox[t]), k = Merge(map[t], g) PROVE IsReg(k) /\ Within(map[t], k)
  <2>1. IsReg(g)
    BY RegsAre, GoodAreRegs
  <2>. QED BY <1>1, <1>3, <2>1, Merged, MergeIsLater
<1>. QED BY <1>2, <1>3 DEF Views

LEMMA UpdateRegs ==
  ASSUME Queues, ShapeInv, NEW t \in Tabs, NEW r, NEW s, NEW rest, Updates(t, r, s, rest)
  PROVE  /\ Regs' \subseteq Regs \union {r, s, doc'}
         /\ \A u \in Tabs \ {t} : map'[u] = map[u] /\ Syncs(inbox'[u]) = Syncs(inbox[u])
         /\ \A u \in Tabs \ {t} : ~Here(u) => inbox'[u] = inbox[u]
         /\ map'[t] = s /\ inbox'[t] = rest /\ Queues'
         /\ map' = [u \in Tabs |-> map'[u]] /\ inbox' = [u \in Tabs |-> inbox'[u]]
<1>1. PICK ms : /\ IsQueue(ms) /\ Syncs(ms) = {} /\ Underway(ms) \subseteq {r, s}
                /\ Forward(t, ms, rest)
  BY DEF Updates
<1>2. IsQueue(rest) /\ InOrder(rest) /\ Underway(rest) \subseteq Underway(inbox[t])
      /\ map' = [map EXCEPT ![t] = s]
  BY DEF Updates
<1>3. /\ Queues'
      /\ \A u \in Tabs \ {t} :
           /\ Syncs(inbox'[u]) = Syncs(inbox[u])
           /\ Underway(inbox'[u]) \subseteq Underway(inbox[u]) \union Underway(ms)
           /\ ~Here(u) => inbox'[u] = inbox[u]
  BY <1>1, <1>2, ForwardKeeps
<1>4. inbox' = [u \in Tabs |-> inbox'[u]] /\ inbox'[t] = rest
  BY <1>1, ForwardIs
<1>5. /\ map'[t] = s /\ \A u \in Tabs \ {t} : map'[u] = map[u]
      /\ map' = [u \in Tabs |-> map'[u]]
  BY <1>2 DEF ShapeInv
<1>6. ASSUME NEW x \in Regs' PROVE x \in Regs \union {r, s, doc'}
  <2>1. x = doc' \/ \E u \in Tabs : x = map'[u] \/ x \in Underway(inbox'[u])
    BY DEF Regs
  <2>2. ASSUME NEW u \in Tabs, x = map'[u] PROVE x \in Regs \union {s}
    BY <1>5, <2>2, RegsAre
  <2>3. ASSUME NEW u \in Tabs, x \in Underway(inbox'[u]) PROVE x \in Regs \union {r, s}
    BY <1>1, <1>2, <1>3, <1>4, <2>3, RegsAre
  <2>. QED BY <2>1, <2>2, <2>3
<1>. QED BY <1>3, <1>4, <1>5, <1>6

LEMMA KnownOn ==
  ASSUME NEW x, NEW t, NEW l, NEW k, IsReg(x), IsReg(l), IsReg(k), Within(l, k)
  PROVE  Known(x, t, l) => Known(x, t, k)
  BY UptoOrder DEF Known, KnownItem, Within, IsReg

LEMMA WithinIsKnown ==
  ASSUME NEW x, NEW t, NEW k, Within(x, k) PROVE Known(x, t, k)
  BY DEF Within, Known, KnownItem

(* What tab t wrote need not be known to others. *)
LEMMA OthersKnow ==
  ASSUME NEW t \in Tabs, NEW u \in Tabs, Owner[u] # Owner[t], NEW k,
         \A y \in Regs : Known(y, u, k), NEW x, Mine(x, t)
  PROVE  Known(x, u, k)
<1>1. KnownItem(StatusItem(x), StatusItem(k), u)
  <2>1. CASE LastWriter(StatusItem(x)) = t
    BY <2>1 DEF KnownItem, Writer
  <2>2. ASSUME NEW y \in Regs, StatusItem(x) = StatusItem(y)
        PROVE  KnownItem(StatusItem(x), StatusItem(k), u)
    BY <2>2 DEF Known
  <2>. QED BY <2>1, <2>2 DEF Mine, MineItem
<1>2. KnownItem(RequestItem(x), RequestItem(k), u)
  <2>1. CASE LastWriter(RequestItem(x)) = t
    BY <2>1 DEF KnownItem, Writer
  <2>2. ASSUME NEW y \in Regs, RequestItem(x) = RequestItem(y)
        PROVE  KnownItem(RequestItem(x), RequestItem(k), u)
    BY <2>2 DEF Known
  <2>. QED BY <2>1, <2>2 DEF Mine, MineItem
<1>. QED BY <1>1, <1>2 DEF Known

LEMMA MergeIsKnown ==
  ASSUME NEW x, NEW y, IsReg(x), IsReg(y), NEW t, NEW k, Known(x, t, k), Known(y, t, k)
  PROVE  Known(Merge(x, y), t, k)
<1>1. /\ StatusItem(Merge(x, y)) \in {StatusItem(x), StatusItem(y)}
      /\ RequestItem(Merge(x, y)) \in {RequestItem(x), RequestItem(y)}
  BY MergeIsLater
<1>. QED BY <1>1 DEF Known

LEMMA UpdateKeepsDocs ==
  ASSUME Queues, ShapeInv, DocsInv, NEW t \in Tabs, NEW r, NEW s, NEW rest,
         Updates(t, r, s, rest)
  PROVE  DocsInv'
<1> DEFINE d == Merge(doc, s)
<1>1. /\ Here(t) /\ open' = open /\ doc' = d
      /\ Good(Regs \union {r, s}) /\ Within(r, s) /\ Mine(r, t) /\ Mine(s, t)
      /\ \A k \in Views(s, rest) : /\ IsReg(k) /\ Within(s, k)
                                   /\ \E l \in Views(map[t], inbox[t]) : Within(l, k)
  BY DEF Updates
<1>2. /\ Regs' \subseteq Regs \union {r, s, d}
      /\ \A u \in Tabs \ {t} : map'[u] = map[u] /\ Syncs(inbox'[u]) = Syncs(inbox[u])
      /\ map'[t] = s /\ inbox'[t] = rest
  BY <1>1, UpdateRegs
<1>3. Good(Regs) /\ Alone /\ DocInv /\ KnowInv
  BY DEF DocsInv
<1>4. Good((Regs \union {r, s}) \union {d})
  BY <1>1, RegsAre, MergeIsGood
<1>5. Good(Regs')
  BY <1>2, <1>4, LessIsGood
<1>6. IsReg(r) /\ IsReg(s) /\ IsReg(doc) /\ IsReg(d) /\ \A x \in Regs : IsReg(x)
  BY <1>4, RegsAre, GoodAreRegs
<1>7. Within(doc, d) /\ Within(s, d) /\ Within(r, d) /\ Within(d, d)
  BY <1>1, <1>6, MergeIsLater, WithinOrder
<1>8. ASSUME NEW x \in Regs PROVE Within(x, d)
  BY <1>3, <1>6, <1>7, <1>8, WithinOrder DEF DocInv
<1> HIDE DEF d
<1>9. DocInv'
  <2>1. \A x \in Regs' : Within(x, d)
    BY <1>2, <1>7, <1>8
  <2>. QED BY <1>1, <2>1 DEF DocInv
<1>10. Alone'
  BY <1>1, <1>3 DEF Alone, Here
<1>11. ASSUME NEW u \in Tabs, Here(u), u # t,
              NEW k \in Views(map[u], inbox[u]), NEW x \in Regs'
       PROVE  Known(x, u, k)
  <2>1. Owner[u] # Owner[t]
    BY <1>1, <1>3, <1>11 DEF Alone
  <2>2. \A y \in Regs : Known(y, u, k)
    BY <1>3, <1>11 DEF KnowInv
  <2>3. Known(r, u, k) /\ Known(s, u, k)
    BY <1>1, <2>1, <2>2, OthersKnow
  <2>4. Known(d, u, k)
    BY <1>6, <2>2, <2>3, RegsAre, MergeIsKnown DEF d
  <2>. QED BY <1>2, <1>11, <2>2, <2>3, <2>4
<1>12. ASSUME NEW k \in Views(s, rest), NEW x \in Regs' PROVE Known(x, t, k)
  <2>1. PICK l \in Views(map[t], inbox[t]) : Within(l, k)
    BY <1>1, <1>12
  <2>2. IsReg(k) /\ Within(s, k) /\ IsReg(l)
    BY <1>1, <1>3, <1>12, ViewsAre
  <2>3. ASSUME NEW y \in Regs PROVE Known(y, t, k)
    <3>1. Known(y, t, l)
      BY <1>1, <1>3 DEF KnowInv
    <3>. QED BY <1>6, <2>1, <2>2, <3>1, KnownOn
  <2>4. Known(s, t, k) /\ Known(r, t, k)
    BY <1>1, <1>6, <2>2, WithinOrder, WithinIsKnown
  <2>5. Known(d, t, k)
    BY <1>6, <2>3, <2>4, RegsAre, MergeIsKnown DEF d
  <2>. QED BY <1>2, <1>12, <2>3, <2>4, <2>5
<1>13. KnowInv'
  <2>1. ASSUME NEW u \in Tabs, Here(u), NEW k \in Views(map'[u], inbox'[u]), NEW x \in Regs'
        PROVE  Known(x, u, k)
    <3>1. CASE u = t
      BY <1>2, <1>12, <2>1, <3>1
    <3>2. CASE u # t
      <4>1. Views(map'[u], inbox'[u]) = Views(map[u], inbox[u])
        BY <1>2, <3>2 DEF Views
      <4>. QED BY <1>11, <2>1, <3>2, <4>1
    <3>. QED BY <3>1, <3>2
  <2>2. \A u \in Tabs : Here(u)' = Here(u)
    BY <1>1 DEF Here
  <2>. QED BY <2>1, <2>2 DEF KnowInv
<1>. QED BY <1>5, <1>9, <1>10, <1>13 DEF DocsInv

-----------------------------------------------------------------------------
(* Approvals that were used, and the pages of the other tabs.              *)

LEMMA ViewsGrow ==
  ASSUME Queues, ShapeInv, DocsInv, NEW t \in Tabs, NEW r, NEW s, NEW rest,
         Updates(t, r, s, rest), NEW u \in Tabs, Here(u), NEW k \in Views(map'[u], inbox'[u])
  PROVE  \E l \in Views(map[u], inbox[u]) : IsReg(l) /\ IsReg(k) /\ Within(l, k)
<1>1. Good(Regs)
  BY DEF DocsInv
<1>2. /\ \A v \in Tabs \ {t} : map'[v] = map[v] /\ Syncs(inbox'[v]) = Syncs(inbox[v])
      /\ map'[t] = s /\ inbox'[t] = rest
  BY UpdateRegs
<1>3. CASE u = t
  <2>1. IsReg(k) /\ \E l \in Views(map[t], inbox[t]) : Within(l, k)
    BY <1>2, <1>3 DEF Updates
  <2>. QED BY <1>1, <1>3, <2>1, ViewsAre
<1>4. CASE u # t
  <2>1. k \in Views(map[u], inbox[u])
    BY <1>2, <1>4 DEF Views
  <2>. QED BY <1>1, <2>1, ViewsAre, WithinOrder
<1>. QED BY <1>3, <1>4

LEMMA DocGrows ==
  ASSUME DocsInv, NEW t, NEW r, NEW s, NEW rest, Updates(t, r, s, rest)
  PROVE  IsReg(doc) /\ IsReg(doc') /\ IsReg(s) /\ Within(doc, doc') /\ Within(s, doc')
<1>1. IsReg(doc) /\ IsReg(s)
  BY RegsAre, GoodAreRegs DEF DocsInv, Updates
<1>. QED BY <1>1, Merged, MergeIsLater DEF Updates

LEMMA StaysBehind ==
  ASSUME NEW l, NEW k, IsReg(l), IsReg(k), Within(l, k), NEW p \in Seq(Tabs),
         Behind(StatusItem(l), p)
  PROVE  Behind(StatusItem(k), p)
  BY UptoOrder DEF IsReg, Within

(* What was used stays used, when the job is no other's. *)
LEMMA UsedStays ==
  ASSUME Queues, ShapeInv, DocsInv, NEW t \in Tabs, NEW r, NEW s, NEW rest,
         Updates(t, r, s, rest), NEW j \in Jobs, Used(j),
         grant'[j] = grant[j], ranBy'[j] = ranBy[j]
  PROVE  Used(j)'
<1>1. SUFFICES ASSUME ranBy[j] # 0 PROVE Used(j)'
  BY DEF Used
<1>2. /\ ranBy[j] \in Tabs /\ grant[j] \in Seq(Tabs) /\ grant[j] # <<>>
      /\ Writer(grant[j]) # Owner[ranBy[j]] /\ Behind(StatusItem(doc), grant[j])
  BY <1>1 DEF Used
<1>3. Behind(StatusItem(doc'), grant[j])
  BY <1>2, DocGrows, StaysBehind
<1>4. ASSUME NEW u \in Tabs, Here(u), Owner[u] = Owner[ranBy[j]],
             NEW k \in Views(map'[u], inbox'[u])
      PROVE  Behind(StatusItem(k), grant[j])
  <2>1. PICK l \in Views(map[u], inbox[u]) : IsReg(l) /\ IsReg(k) /\ Within(l, k)
    BY <1>4, ViewsGrow
  <2>2. Behind(StatusItem(l), grant[j])
    BY <1>1, <1>4 DEF Used
  <2>. QED BY <1>2, <2>1, <2>2, StaysBehind
<1>5. \A u \in Tabs : Here(u)' = Here(u)
  BY DEF Updates, Here
<1>. QED BY <1>2, <1>3, <1>4, <1>5 DEF Used

LEMMA NoneUsed ==
  ASSUME Queues, ShapeInv, DocsInv, NEW t \in Tabs, NEW r, NEW s, NEW rest,
         Updates(t, r, s, rest), UsedOnce, UNCHANGED <<grant, ranBy>>
  PROVE  UsedOnce'
<1>1. \A j \in Jobs : Used(j)'
  BY UsedStays DEF UsedOnce
<1>. QED BY <1>1 DEF UsedOnce

(* Tab t uses the approval of r. *)
LEMMA OneUsed ==
  ASSUME Queues, ShapeInv, DocsInv, NEW t \in Tabs, NEW r, NEW s, NEW rest,
         Updates(t, r, s, rest), UsedOnce, MustExecute(t, r),
         Behind(StatusItem(s), StatusItem(r)),
         \E k \in Views(map[t], inbox[t]) : Within(k, r),
         NEW j \in Jobs,
         grant' = [grant EXCEPT ![j] = StatusItem(r)],
         ranBy' = [ranBy EXCEPT ![j] = t]
  PROVE  UsedOnce'
<1>1. /\ \A i \in Jobs \ {j} : grant'[i] = grant[i] /\ ranBy'[i] = ranBy[i]
      /\ grant'[j] = StatusItem(r) /\ ranBy'[j] = t
  BY DEF ShapeInv
<1>2. Here(t) /\ Good(Regs \union {r, s}) /\ \A u \in Tabs : Here(u)' = Here(u)
  BY DEF Updates, Here
<1>3. Sound(r) /\ IsReg(r) /\ IsReg(s) /\ Status(r) = "approved" /\ RequestedBy(r) = Owner[t]
  BY <1>2 DEF Good, Sound, MustExecute
<1>4. /\ StatusItem(r) \in Seq(Tabs) /\ StatusItem(r) # <<>>
      /\ Writer(StatusItem(r)) # Owner[t]
  BY <1>3 DEF Sound, IsReg
<1>5. Behind(StatusItem(doc'), StatusItem(r))
  BY <1>4, DocGrows, StaysBehind
<1>6. ASSUME NEW u \in Tabs, Here(u), Owner[u] = Owner[t], NEW k \in Views(map'[u], inbox'[u])
      PROVE  Behind(StatusItem(k), StatusItem(r))
  <2>1. u = t
    BY <1>2, <1>6 DEF DocsInv, Alone
  <2>2. map'[t] = s /\ inbox'[t] = rest
    BY UpdateRegs
  <2>3. IsReg(k) /\ Within(s, k)
    BY <1>6, <2>1, <2>2 DEF Updates
  <2>. QED BY <1>3, <1>4, <2>3, StaysBehind
<1>7. Used(j)'
  BY <1>1, <1>2, <1>4, <1>5, <1>6 DEF Used
<1>8. ASSUME NEW i \in Jobs \ {j} PROVE Used(i)' /\ (ranBy'[i] = 0 => grant'[i] = <<>>)
  BY <1>1, <1>8, UsedStays DEF UsedOnce
<1>9. ASSUME NEW i \in Jobs \ {j}, ranBy[i] # 0 PROVE grant[i] # StatusItem(r)
  <2>1. SUFFICES ASSUME grant[i] = StatusItem(r) PROVE FALSE
    OBVIOUS
  <2>2. /\ ranBy[i] \in Tabs /\ Writer(StatusItem(r)) # Owner[ranBy[i]]
        /\ \A u \in Tabs : Here(u) /\ Owner[u] = Owner[ranBy[i]] =>
              \A k \in Views(map[u], inbox[u]) : Behind(StatusItem(k), StatusItem(r))
    BY <1>9, <2>1 DEF UsedOnce, Used
  <2>3. LastWriter(StatusItem(r)) \in Tabs
    BY <1>4 DEF LastWriter
  <2>4. Owner[t] = Owner[ranBy[i]]
    BY <1>4, <2>2, <2>3, TwoUsers DEF Writer
  <2>5. PICK k \in Views(map[t], inbox[t]) : Within(k, r)
    OBVIOUS
  <2>6. Behind(StatusItem(k), StatusItem(r))
    BY <1>2, <2>2, <2>4
  <2>. QED BY <2>5, <2>6 DEF Within, Upto
<1>10. ranBy'[j] # 0
  BY <1>1
<1>. QED BY <1>1, <1>7, <1>8, <1>9, <1>10 DEF UsedOnce

(* The other tabs only get messages. *)
LEMMA OtherPages ==
  ASSUME Queues, ShapeInv, NEW t \in Tabs, NEW r, NEW s, NEW rest,
         Updates(t, r, s, rest), NEW u \in Tabs \ {t}, PageOK(u),
         modal'[u] = modal[u], timers'[u] = timers[u], awaits'[u] = awaits[u]
  PROVE  PageOK(u)'
<1>1. /\ map'[u] = map[u] /\ Syncs(inbox'[u]) = Syncs(inbox[u])
      /\ ~Here(u) => inbox'[u] = inbox[u]
      /\ Queues' /\ Here(u)' = Here(u)
  BY UpdateRegs DEF Updates, Here
<1>2. Away(u)'
  BY <1>1 DEF PageOK, Away
<1>3. Early(u)'
  BY <1>1 DEF PageOK, Early
<1>4. Asked(u)' /\ Waits(u)'
  BY <1>1 DEF PageOK, Asked, Waits
<1>5. InOrder(inbox[u])'
  BY <1>1 DEF Queues
<1>. QED BY <1>2, <1>3, <1>4, <1>5 DEF PageOK

-----------------------------------------------------------------------------
(* The observer.                                                           *)

LEMMA QueuesHold == ConsentInv /\ Runs => Queues
  BY DEF ConsentInv, InboxesAgree, Runs, PageOK, Queues

LEMMA NotEmptied ==
  ASSUME NEW p \in Seq(Tabs), NEW q \in Seq(Tabs), p # <<>>, Upto(p, q) PROVE q # <<>>
  BY ItemsAreSeqs, FirstWriters DEF Upto

LEMMA WithinNotEmptied ==
  ASSUME NEW r, NEW s, IsReg(r), IsReg(s), Within(r, s)
  PROVE  /\ StatusItem(r) # <<>> => StatusItem(s) # <<>>
         /\ RequestItem(r) # <<>> => RequestItem(s) # <<>>
  BY NotEmptied DEF IsReg, Within

(* Executing what the observer sees as approved. *)
LEMMA ExecutingIs ==
  ASSUME NEW R, Good(R), NEW r \in R, NEW t \in Tabs
  PROVE  LET s == Executing(t, r) IN
         /\ Good(R \union {s}) /\ Within(r, s)
         /\ RequestItem(s) = RequestItem(r) /\ RequestedBy(s) = RequestedBy(r)
         /\ ~MustExecute(t, r) => s = r
         /\ MustExecute(t, r) => /\ StatusItem(s) = Append(StatusItem(r), t)
                                 /\ StatusItem(s) # <<>>
                                 /\ Behind(StatusItem(s), StatusItem(r))
<1>1. IsReg(r) /\ Sound(r) /\ StatusItem(r) \in Seq(Tabs)
  BY DEF Good, Sound, IsReg
<1>2. CASE ~MustExecute(t, r)
  <2>1. Executing(t, r) = r
    BY <1>2 DEF Executing
  <2>2. R \union {r} = R
    OBVIOUS
  <2>. QED BY <1>1, <1>2, <2>1, <2>2, WithinOrder
<1>3. CASE MustExecute(t, r)
  <2>1. Executing(t, r) = Set(r, "status", t, "running")
    BY <1>3 DEF Executing
  <2>2. StatusItem(r) # <<>>
    BY <1>1, <1>3 DEF Sound, MustExecute
  <2>3. /\ Good(R \union {Executing(t, r)}) /\ Within(r, Executing(t, r))
        /\ StatusItem(Executing(t, r)) = Append(StatusItem(r), t)
        /\ RequestItem(Executing(t, r)) = RequestItem(r)
        /\ RequestedBy(Executing(t, r)) = RequestedBy(r)
    BY <2>1, <2>2, StatusIsGood
  <2>. QED BY <1>1, <1>3, <2>3, Written
<1>. QED BY <1>2, <1>3

LEMMA ExecutingIsMine ==
  ASSUME NEW R, Good(R), NEW r \in R, NEW t \in Tabs, Mine(r, t)
  PROVE  Mine(Executing(t, r), t)
<1> DEFINE s == Executing(t, r)
<1>1. /\ RequestItem(s) = RequestItem(r)
      /\ ~MustExecute(t, r) => s = r
      /\ MustExecute(t, r) => StatusItem(s) = Append(StatusItem(r), t)
  BY ExecutingIs
<1>2. StatusItem(r) \in Seq(Tabs)
  BY DEF Good, Sound, IsReg
<1> HIDE DEF s
<1>3. MustExecute(t, r) => LastWriter(StatusItem(s)) = t
  <2>1. LastWriter(Append(StatusItem(r), t)) = t
    BY <1>2, Written
  <2>. QED BY <1>1, <2>1
<1>4. Mine(s, t)
  BY <1>1, <1>3 DEF Mine, MineItem
<1>. QED BY <1>4 DEF s

(* The page of a tab whose observer ran. *)
LEMMA ObserverPage ==
  ASSUME Queues, Runs, NEW t \in Tabs, NEW r, NEW rest,
         Updates(t, r, Executing(t, r), rest), Observe(t, r), Within(map[t], r),
         modal[t] => RequestedBy(r) # Owner[t],
         Syncs(rest) # {} => /\ ~modal[t] /\ timers[t] = 0 /\ awaits[t] = {}
                             /\ Status(r) = "pending" /\ RequestedBy(r) = Owner[t]
  PROVE  PageOK(t)' /\ ShapeInv'
<1> DEFINE s == Executing(t, r)
<1>1. ShapeInv /\ PageOK(t)
  BY DEF Runs
<1>2. Good(Regs \union {r, s}) /\ Here(t) /\ open' = open
  BY DEF Updates
<1>3. /\ map'[t] = s /\ inbox'[t] = rest /\ Queues'
      /\ map' = [u \in Tabs |-> map'[u]] /\ inbox' = [u \in Tabs |-> inbox'[u]]
  BY <1>1, UpdateRegs
<1>4. /\ modal' = [modal EXCEPT ![t] = ModalAfter(t, r) /\ ~MustExecute(t, r)]
      /\ timers' = [timers EXCEPT ![t] = IF Status(r) = "rejected" THEN @ + 1 ELSE @]
      /\ Execute(t, r)
  BY DEF Observe
<1>5. /\ modal'[t] = (ModalAfter(t, r) /\ ~MustExecute(t, r))
      /\ timers'[t] = IF Status(r) = "rejected" THEN timers[t] + 1 ELSE timers[t]
      /\ modal' = [u \in Tabs |-> modal'[u]] /\ timers' = [u \in Tabs |-> timers'[u]]
  BY <1>1, <1>4 DEF ShapeInv
<1>6. /\ RequestItem(s) = RequestItem(r) /\ RequestedBy(s) = RequestedBy(r)
      /\ Within(r, s) /\ (~MustExecute(t, r) => s = r)
      /\ MustExecute(t, r) => StatusItem(s) # <<>>
  BY <1>2, ExecutingIs
<1>7. IsReg(r) /\ IsReg(map[t]) /\ IsReg(s) /\ Sound(r)
  BY <1>2, RegsAre, GoodAreRegs DEF Good
<1> HIDE DEF s
<1>8. /\ awaits' = [u \in Tabs |-> awaits'[u]]
      /\ ~MustExecute(t, r) => awaits'[t] = awaits[t]
      /\ grant' = [j \in Jobs |-> grant'[j]] /\ ranBy' = [j \in Jobs |-> ranBy'[j]]
  BY <1>1, <1>4 DEF ShapeInv, Execute
<1>9. open' = [u \in Tabs |-> open'[u]]
  BY <1>1, <1>2 DEF ShapeInv
<1>10. ShapeInv'
  BY <1>3, <1>5, <1>8, <1>9 DEF ShapeInv
<1>11. Away(t)'
  BY <1>2 DEF Away, Here
<1>12. ASSUME Syncs(rest) # {}
       PROVE  ~modal'[t] /\ timers'[t] = 0 /\ awaits'[t] = {} /\ Status(s) = "pending"
  <2>1. /\ ~modal[t] /\ timers[t] = 0 /\ awaits[t] = {}
        /\ Status(r) = "pending" /\ RequestedBy(r) = Owner[t]
    BY <1>12
  <2>2. ~MustExecute(t, r)
    BY <2>1 DEF MustExecute
  <2>3. ~ModalAfter(t, r)
    BY <2>1 DEF ModalAfter
  <2>. QED BY <1>5, <1>6, <1>8, <2>1, <2>2, <2>3
<1>13. Early(t)'
  BY <1>3, <1>12 DEF Early
<1>14. Asked(t)'
  <2>1. SUFFICES ASSUME modal'[t] PROVE RequestItem(s) # <<>> /\ RequestedBy(s) # Owner[t]
    BY <1>3 DEF Asked
  <2>2. ModalAfter(t, r)
    BY <1>5, <2>1
  <2>3. CASE Status(r) = "pending" /\ RequestedBy(r) # Owner[t]
    <3>1. StatusItem(r) # <<>>
      BY <1>7, <2>3 DEF Sound
    <3>2. RequestItem(r) # <<>>
      BY <1>7, <3>1 DEF Sound, Begun
    <3>. QED BY <1>6, <2>3, <3>2
  <2>4. CASE modal[t]
    <3>1. RequestItem(map[t]) # <<>>
      BY <1>1, <2>4 DEF PageOK, Asked
    <3>2. RequestItem(r) # <<>>
      BY <1>7, <3>1, WithinNotEmptied
    <3>. QED BY <1>6, <2>4, <3>2
  <2>. QED BY <2>2, <2>3, <2>4 DEF ModalAfter
<1>15. Waits(t)'
  <2>1. SUFFICES ASSUME awaits'[t] # {} PROVE StatusItem(s) # <<>>
    BY <1>3 DEF Waits
  <2>2. CASE MustExecute(t, r)
    BY <1>6, <2>2
  <2>3. CASE ~MustExecute(t, r)
    <3>1. StatusItem(map[t]) # <<>>
      BY <1>1, <1>8, <2>1, <2>3 DEF PageOK, Waits
    <3>. QED BY <1>6, <1>7, <2>3, <3>1, WithinNotEmptied
  <2>. QED BY <2>2, <2>3
<1>16. InOrder(inbox[t])'
  BY <1>3 DEF Queues
<1>. QED BY <1>10, <1>11, <1>13, <1>14, <1>15, <1>16 DEF PageOK

LEMMA ObserverKeeps ==
  ASSUME Queues, Runs, NEW t \in Tabs, NEW r, NEW rest,
         Updates(t, r, Executing(t, r), rest), Observe(t, r), Within(map[t], r),
         modal[t] => RequestedBy(r) # Owner[t],
         Syncs(rest) # {} => /\ ~modal[t] /\ timers[t] = 0 /\ awaits[t] = {}
                             /\ Status(r) = "pending" /\ RequestedBy(r) = Owner[t],
         MustExecute(t, r) => \E k \in Views(map[t], inbox[t]) : Within(k, r)
  PROVE  Runs'
<1> DEFINE s == Executing(t, r)
<1>1. PageOK(t)' /\ ShapeInv'
  BY ObserverPage
<1>2. ShapeInv /\ DocsInv /\ UsedOnce /\ \A u \in Tabs : PageOK(u)
  BY DEF Runs
<1>3. DocsInv'
  BY <1>2, UpdateKeepsDocs
<1>4. Execute(t, r) /\ Updates(t, r, s, rest)
  BY DEF Observe
<1>9. MustExecute(t, r) => Behind(StatusItem(s), StatusItem(r))
  <2>1. Good(Regs \union {r, s})
    BY <1>4 DEF Updates
  <2>. QED BY <2>1, ExecutingIs
<1> HIDE DEF s
<1>5. ASSUME ~MustExecute(t, r) PROVE UsedOnce'
  <2>1. UNCHANGED <<grant, ranBy>>
    BY <1>4, <1>5 DEF Execute
  <2>. QED BY <1>2, <1>4, <2>1, NoneUsed
<1>6. ASSUME MustExecute(t, r) PROVE UsedOnce'
  <2>1. PICK j \in Jobs : /\ grant' = [grant EXCEPT ![j] = StatusItem(r)]
                          /\ ranBy' = [ranBy EXCEPT ![j] = t]
    BY <1>4, <1>6 DEF Execute, IdleJobs, StatusItem
  <2>2. Behind(StatusItem(s), StatusItem(r))
    BY <1>6, <1>9
  <2>3. \E k \in Views(map[t], inbox[t]) : Within(k, r)
    BY <1>6
  <2>. QED BY <1>2, <1>4, <1>6, <2>1, <2>2, <2>3, OneUsed
<1>7. UsedOnce'
  BY <1>5, <1>6
<1>8. ASSUME NEW u \in Tabs \ {t} PROVE PageOK(u)'
  <2>1. modal'[u] = modal[u] /\ timers'[u] = timers[u]
    BY <1>2 DEF Observe, ShapeInv
  <2>2. awaits'[u] = awaits[u]
    BY <1>2, <1>4 DEF Execute, ShapeInv
  <2>. QED BY <1>2, <1>4, <2>1, <2>2, OtherPages
<1>. QED BY <1>1, <1>3, <1>7, <1>8 DEF Runs

-----------------------------------------------------------------------------
(* Writing.                                                                *)

LEMMA MergeGrows ==
  ASSUME NEW r, NEW s, NEW g, IsReg(r), IsReg(s), IsReg(g), Within(r, s)
  PROVE  Within(Merge(r, g), Merge(s, g))
<1>1. IsReg(Merge(r, g)) /\ IsReg(Merge(s, g))
  BY Merged
<1>2. /\ Within(s, Merge(s, g)) /\ Within(g, Merge(s, g))
      /\ StatusItem(Merge(r, g)) \in {StatusItem(r), StatusItem(g)}
      /\ RequestItem(Merge(r, g)) \in {RequestItem(r), RequestItem(g)}
  BY MergeIsLater
<1>3. Within(r, Merge(s, g))
  BY <1>1, <1>2, WithinOrder
<1>. QED BY <1>2, <1>3 DEF Within

LEMMA ViewsGrowOn ==
  ASSUME Good(Regs), NEW t \in Tabs, NEW s, IsReg(s), Within(map[t], s),
         NEW k \in Views(s, inbox[t])
  PROVE  IsReg(k) /\ Within(s, k) /\ \E l \in Views(map[t], inbox[t]) : Within(l, k)
<1>1. IsReg(map[t])
  BY RegsAre, GoodAreRegs
<1>2. CASE Syncs(inbox[t]) = {}
  <2>1. k = s /\ map[t] \in Views(map[t], inbox[t])
    BY <1>2 DEF Views
  <2>. QED BY <2>1, WithinOrder
<1>3. CASE Syncs(inbox[t]) # {}
  <2>1. PICK g \in Syncs(inbox[t]) : k = Merge(s, g)
    BY <1>3 DEF Views
  <2>2. Merge(map[t], g) \in Views(map[t], inbox[t])
    BY <1>3 DEF Views
  <2>3. IsReg(g)
    BY RegsAre, GoodAreRegs
  <2>4. Within(Merge(map[t], g), k)
    BY <1>1, <2>1, <2>3, MergeGrows
  <2>. QED BY <2>1, <2>2, <2>3, <2>4, Merged, MergeIsLater
<1>. QED BY <1>2, <1>3

(* A tab that does not execute writes. *)
LEMMA WriteUpdates ==
  ASSUME Queues, Runs, NEW t \in Tabs, NEW r, NEW s, NEW rs \in Seq({r, s}), Here(t),
         open' = open, map' = [map EXCEPT ![t] = s], doc' = Merge(doc, s),
         Forward(t, DocMsgs(rs), inbox[t]),
         Good(Regs \union {r, s}), Within(map[t], r), Within(r, s), Mine(r, t), Mine(s, t)
  PROVE  Updates(t, r, s, inbox[t])
<1>1. IsQueue(DocMsgs(rs)) /\ Syncs(DocMsgs(rs)) = {} /\ Underway(DocMsgs(rs)) \subseteq {r, s}
  BY DocsUnderway
<1>2. IsQueue(inbox[t]) /\ InOrder(inbox[t])
  BY DEF Queues
<1>3. Good(Regs) /\ IsReg(s) /\ IsReg(r) /\ IsReg(map[t])
  BY RegsAre, GoodAreRegs, LessIsGood
<1>4. Within(map[t], s)
  BY <1>3, WithinOrder
<1>5. ASSUME NEW k \in Views(s, inbox[t])
      PROVE  IsReg(k) /\ Within(s, k) /\ \E l \in Views(map[t], inbox[t]) : Within(l, k)
  BY <1>3, <1>4, ViewsGrowOn
<1>. QED BY <1>1, <1>2, <1>5 DEF Updates

LEMMA WriteKeeps ==
  ASSUME Queues, Runs, NEW t \in Tabs, NEW r, NEW after \in Seq({r}), Here(t), open' = open,
         Write(t, r, after), ~MustExecute(t, r),
         Good(Regs \union {r}), Within(map[t], r), Mine(r, t),
         modal[t] => RequestedBy(r) # Owner[t],
         Syncs(inbox[t]) # {} => /\ ~modal[t] /\ timers[t] = 0 /\ awaits[t] = {}
                                 /\ Status(r) = "pending" /\ RequestedBy(r) = Owner[t]
  PROVE  Runs'
<1>1. Executing(t, r) = r
  BY DEF Executing
<1>2. IsReg(r)
  BY GoodAreRegs
<1>3. <<r>> \o <<>> \o after \in Seq({r, r})
  OBVIOUS
<1>4. /\ Observe(t, r) /\ Forward(t, DocMsgs(<<r>> \o <<>> \o after), inbox[t])
  BY DEF Write
<1>5. map' = [map EXCEPT ![t] = r] /\ doc' = Merge(doc, r)
  BY <1>1, <1>4 DEF Observe
<1>6. Good(Regs \union {r, r}) /\ Within(r, r)
  <2>1. Regs \union {r, r} = Regs \union {r}
    OBVIOUS
  <2>. QED BY <1>2, <2>1, WithinOrder
<1>7. Updates(t, r, r, inbox[t])
  BY <1>3, <1>4, <1>5, <1>6, WriteUpdates
<1>. QED BY <1>1, <1>4, <1>7, ObserverKeeps

LEMMA MineWritten ==
  ASSUME NEW t \in Tabs, NEW r, NEW p \in Seq(Tabs), NEW q \in Seq(Tabs),
         StatusItem(r) = Append(p, t),
         RequestItem(r) = Append(q, t) \/ RequestItem(r) = RequestItem(map[t])
  PROVE  Mine(r, t)
<1>1. LastWriter(Append(p, t)) = t /\ LastWriter(Append(q, t)) = t
  BY Written
<1>2. map[t] \in Regs
  BY RegsAre
<1>. QED BY <1>1, <1>2 DEF Mine, MineItem

LEMMA RunCodeKeeps ==
  ASSUME ConsentInv, Runs, NEW t \in Tabs, RunCode(t), ~hasty' PROVE Runs'
<1> DEFINE r == Request(map[t], t)
<1>1. /\ Here(t) /\ Status(map[t]) \notin {"pending", "running"} /\ Write(t, r, <<>>)
      /\ ~modal[t] /\ open' = open
  BY DEF RunCode, Request, OnlyRun
<1>2. Queues /\ Good(Regs) /\ KnowInv /\ PageOK(t) /\ map[t] \in Regs
  BY QueuesHold, RegsAre DEF Runs, DocsInv
<1>3. IsReg(map[t])
  BY <1>2, GoodAreRegs
<1>4. Syncs(inbox[t]) # {} => /\ timers[t] = 0 /\ awaits[t] = {}
                              /\ StatusItem(map[t]) = <<>>
  BY <1>1, <1>2 DEF PageOK, Early
<1>5. StatusItem(map[t]) = <<>> \/ \A x \in Regs : Known(x, t, map[t])
  <2>1. Syncs(inbox[t]) = {} => map[t] \in Views(map[t], inbox[t])
    BY DEF Views
  <2>. QED BY <1>1, <1>2, <1>4, <2>1 DEF KnowInv
<1>6. /\ Good(Regs \union {r}) /\ Within(map[t], r)
      /\ StatusItem(r) = Append(StatusItem(map[t]), t)
      /\ RequestItem(r) = Append(RequestItem(map[t]), t)
      /\ RequestedBy(r) = Owner[t] /\ Status(r) = "pending"
  BY <1>2, <1>5, RequestIsGood
<1> HIDE DEF r
<1>7. Mine(r, t)
  BY <1>3, <1>6, MineWritten DEF IsReg
<1>8. ~MustExecute(t, r)
  BY <1>6 DEF MustExecute
<1>9. <<>> \in Seq({r})
  OBVIOUS
<1>. QED BY <1>1, <1>2, <1>4, <1>6, <1>7, <1>8, <1>9, WriteKeeps

(* The question that is shown is about somebody else's request, in a document *)
(* that the page knows.                                                       *)
LEMMA AskedPage ==
  ASSUME Runs, NEW t \in Tabs, Here(t), modal[t]
  PROVE  /\ Syncs(inbox[t]) = {} /\ map[t] \in Regs /\ IsReg(map[t])
         /\ StatusItem(map[t]) # <<>> /\ RequestedBy(map[t]) # Owner[t]
         /\ \A x \in Regs : Known(x, t, map[t])
<1>1. Good(Regs) /\ KnowInv /\ PageOK(t) /\ map[t] \in Regs
  BY RegsAre DEF Runs, DocsInv
<1>2. Syncs(inbox[t]) = {}
  BY <1>1 DEF PageOK, Early
<1>3. map[t] \in Views(map[t], inbox[t])
  BY <1>2 DEF Views
<1>4. RequestItem(map[t]) # <<>> /\ RequestedBy(map[t]) # Owner[t]
  BY <1>1 DEF PageOK, Asked
<1>5. Sound(map[t])
  BY <1>1 DEF Good
<1>. QED BY <1>1, <1>2, <1>3, <1>4, <1>5 DEF KnowInv, Sound, Begun

(* The answer of a page that knows all. *)
LEMMA ApprovalIsGood ==
  ASSUME NEW R, Good(R), NEW r \in R, NEW t \in Tabs, StatusItem(r) # <<>>,
         RequestedBy(r) # Owner[t], \A x \in R : Known(x, t, r)
  PROVE  LET n == Set(r, "status", t, "approved")
         IN  /\ Good(R \union {n}) /\ Within(r, n)
             /\ StatusItem(n) = Append(StatusItem(r), t)
             /\ RequestItem(n) = RequestItem(r) /\ RequestedBy(n) = RequestedBy(r)
<1> DEFINE n == Set(r, "status", t, "approved")
<1>1. Good(R \union {n})
  BY StatusIsGood
<1>2. Within(r, n)
  BY <1>1, StatusIsGood
<1>3. StatusItem(n) = Append(StatusItem(r), t)
  BY <1>1, StatusIsGood
<1>4. RequestItem(n) = RequestItem(r)
  BY <1>1, StatusIsGood
<1>5. RequestedBy(n) = RequestedBy(r)
  BY <1>1, StatusIsGood
<1> HIDE DEF n
<1>6. /\ Good(R \union {n}) /\ Within(r, n)
      /\ StatusItem(n) = Append(StatusItem(r), t)
      /\ RequestItem(n) = RequestItem(r) /\ RequestedBy(n) = RequestedBy(r)
  BY <1>1, <1>2, <1>3, <1>4, <1>5
<1>. QED BY <1>6 DEF n

(* The other statuses. *)
LEMMA OtherStatusIsGood ==
  ASSUME NEW R, Good(R), NEW r \in R, NEW t \in Tabs, StatusItem(r) # <<>>,
         NEW v \in {"rejected", "idle", "completed"}
  PROVE  LET n == Set(r, "status", t, v)
         IN  /\ Good(R \union {n}) /\ Within(r, n)
             /\ StatusItem(n) = Append(StatusItem(r), t)
             /\ RequestItem(n) = RequestItem(r) /\ RequestedBy(n) = RequestedBy(r)
<1> DEFINE n == Set(r, "status", t, v)
<1>1. Good(R \union {n})
  BY StatusIsGood
<1>2. Within(r, n)
  BY <1>1, StatusIsGood
<1>3. StatusItem(n) = Append(StatusItem(r), t)
  BY <1>1, StatusIsGood
<1>4. RequestItem(n) = RequestItem(r)
  BY <1>1, StatusIsGood
<1>5. RequestedBy(n) = RequestedBy(r)
  BY <1>1, StatusIsGood
<1> HIDE DEF n
<1>6. /\ Good(R \union {n}) /\ Within(r, n)
      /\ StatusItem(n) = Append(StatusItem(r), t)
      /\ RequestItem(n) = RequestItem(r) /\ RequestedBy(n) = RequestedBy(r)
  BY <1>1, <1>2, <1>3, <1>4, <1>5
<1>. QED BY <1>6 DEF n

LEMMA AnswerKeeps ==
  ASSUME ConsentInv, Runs, NEW t \in Tabs, ApproveRun(t) \/ DeclineRun(t) PROVE Runs'
<1>1. Here(t) /\ modal[t] /\ open' = open
  BY DEF ApproveRun, DeclineRun, OnlyRun
<1>2. Queues /\ Good(Regs)
  BY QueuesHold DEF Runs, DocsInv
<1>3. /\ Syncs(inbox[t]) = {} /\ map[t] \in Regs /\ IsReg(map[t])
      /\ StatusItem(map[t]) # <<>> /\ RequestedBy(map[t]) # Owner[t]
      /\ \A x \in Regs : Known(x, t, map[t])
  BY <1>1, AskedPage
<1>4. ASSUME NEW r, Good(Regs \union {r}), Within(map[t], r),
             StatusItem(r) = Append(StatusItem(map[t]), t),
             RequestItem(r) = RequestItem(map[t]), RequestedBy(r) = RequestedBy(map[t])
      PROVE  Mine(r, t) /\ RequestedBy(r) # Owner[t] /\ ~MustExecute(t, r)
  <2>1. Mine(r, t)
    BY <1>3, <1>4, MineWritten DEF IsReg
  <2>. QED BY <1>3, <1>4, <2>1 DEF MustExecute
<1>5. ASSUME ApproveRun(t) PROVE Runs'
  <2> DEFINE r == Set(map[t], "status", t, "approved")
  <2>1. Write(t, r, <<Executing(t, r)>>)
    BY <1>5 DEF ApproveRun
  <2>2. /\ Good(Regs \union {r}) /\ Within(map[t], r)
        /\ StatusItem(r) = Append(StatusItem(map[t]), t)
        /\ RequestItem(r) = RequestItem(map[t]) /\ RequestedBy(r) = RequestedBy(map[t])
    BY <1>2, <1>3, ApprovalIsGood
  <2> HIDE DEF r
  <2>3. Mine(r, t) /\ RequestedBy(r) # Owner[t] /\ ~MustExecute(t, r)
    BY <1>4, <2>2
  <2>4. <<Executing(t, r)>> \in Seq({r})
    BY <2>3 DEF Executing
  <2>. QED BY <1>1, <1>2, <1>3, <2>1, <2>2, <2>3, <2>4, WriteKeeps
<1>6. ASSUME DeclineRun(t) PROVE Runs'
  <2> DEFINE r == Set(map[t], "status", t, "rejected")
  <2>1. Write(t, r, <<>>)
    BY <1>6 DEF DeclineRun
  <2>2. /\ Good(Regs \union {r}) /\ Within(map[t], r)
        /\ StatusItem(r) = Append(StatusItem(map[t]), t)
        /\ RequestItem(r) = RequestItem(map[t]) /\ RequestedBy(r) = RequestedBy(map[t])
    BY <1>2, <1>3, OtherStatusIsGood
  <2> HIDE DEF r
  <2>3. Mine(r, t) /\ RequestedBy(r) # Owner[t] /\ ~MustExecute(t, r)
    BY <1>4, <2>2
  <2>4. <<>> \in Seq({r})
    OBVIOUS
  <2>. QED BY <1>1, <1>2, <1>3, <2>1, <2>2, <2>3, <2>4, WriteKeeps
<1>. QED BY <1>5, <1>6

(* A write that the observer is not called for. *)
LEMMA SilentKeeps ==
  ASSUME Queues, Runs, NEW t \in Tabs, NEW r, NEW s, NEW rest, Updates(t, r, s, rest),
         Within(map[t], s), RequestedBy(s) = RequestedBy(map[t]), Syncs(rest) = {},
         modal' = [modal EXCEPT ![t] = modal'[t]], modal'[t] => modal[t],
         timers' = [timers EXCEPT ![t] = timers'[t]],
         awaits' = [awaits EXCEPT ![t] = awaits'[t]], awaits'[t] \subseteq awaits[t],
         UNCHANGED <<grant, ranBy>>
  PROVE  Runs'
<1>1. ShapeInv /\ DocsInv /\ UsedOnce /\ \A u \in Tabs : PageOK(u)
  BY DEF Runs
<1>2. Good(Regs \union {r, s}) /\ Here(t) /\ open' = open
  BY DEF Updates
<1>3. /\ map'[t] = s /\ inbox'[t] = rest /\ Queues'
      /\ map' = [u \in Tabs |-> map'[u]] /\ inbox' = [u \in Tabs |-> inbox'[u]]
  BY <1>1, UpdateRegs
<1>4. ShapeInv'
  BY <1>1, <1>2, <1>3 DEF ShapeInv
<1>5. DocsInv'
  BY <1>1, UpdateKeepsDocs
<1>6. UsedOnce'
  BY <1>1, NoneUsed
<1>7. IsReg(map[t]) /\ IsReg(s)
  BY <1>2, RegsAre, GoodAreRegs
<1>8. PageOK(t)'
  <2>1. Away(t)'
    BY <1>2 DEF Away, Here
  <2>2. Early(t)'
    BY <1>3 DEF Early
  <2>3. Asked(t)' /\ Waits(t)'
    BY <1>1, <1>3, <1>7, WithinNotEmptied DEF PageOK, Asked, Waits
  <2>4. InOrder(inbox[t])'
    BY <1>3 DEF Queues
  <2>. QED BY <2>1, <2>2, <2>3, <2>4 DEF PageOK
<1>9. ASSUME NEW u \in Tabs \ {t} PROVE PageOK(u)'
  <2>1. modal'[u] = modal[u] /\ timers'[u] = timers[u] /\ awaits'[u] = awaits[u]
    BY <1>1 DEF ShapeInv
  <2>. QED BY <1>1, <2>1, OtherPages
<1>. QED BY <1>4, <1>5, <1>6, <1>8, <1>9 DEF Runs

(* The page has heard from the server. *)
LEMMA LatePage ==
  ASSUME Runs, NEW t \in Tabs, Syncs(inbox[t]) = {}
  PROVE  map[t] \in Regs /\ IsReg(map[t]) /\ Good(Regs)
<1>1. Good(Regs) /\ map[t] \in Regs
  BY RegsAre DEF Runs, DocsInv
<1>. QED BY <1>1, GoodAreRegs

LEMMA ResetKeeps ==
  ASSUME ConsentInv, Runs, NEW t \in Tabs, ResetRejection(t) PROVE Runs'
<1> DEFINE r == Set(map[t], "status", t, "idle")
<1>1. /\ Here(t) /\ timers[t] > 0 /\ open' = open
      /\ timers' = [timers EXCEPT ![t] = timers[t] - 1]
      /\ UNCHANGED <<modal, awaits, grant, ranBy>>
  BY DEF ResetRejection, OnlyRun
<1>2. Queues /\ PageOK(t) /\ ShapeInv
  BY QueuesHold DEF Runs
<1>3. Syncs(inbox[t]) = {}
  BY <1>1, <1>2 DEF PageOK, Early
<1>4. map[t] \in Regs /\ IsReg(map[t]) /\ Good(Regs) /\ Sound(map[t])
  BY <1>3, LatePage DEF Good
<1>5. /\ modal' = [modal EXCEPT ![t] = modal'[t]] /\ awaits' = [awaits EXCEPT ![t] = awaits'[t]]
      /\ timers' = [timers EXCEPT ![t] = timers'[t]]
      /\ modal'[t] = modal[t] /\ awaits'[t] = awaits[t]
  BY <1>1, <1>2 DEF ShapeInv
<1>6. ASSUME Status(map[t]) = "rejected" PROVE Runs'
  <2>1. /\ map' = [map EXCEPT ![t] = r] /\ doc' = Merge(doc, r)
        /\ Forward(t, DocMsgs(<<r>>), inbox[t])
    BY <1>6 DEF ResetRejection
  <2>2. StatusItem(map[t]) # <<>>
    BY <1>4, <1>6 DEF Sound
  <2>3. /\ Good(Regs \union {r}) /\ Within(map[t], r)
        /\ StatusItem(r) = Append(StatusItem(map[t]), t)
        /\ RequestItem(r) = RequestItem(map[t]) /\ RequestedBy(r) = RequestedBy(map[t])
    BY <1>4, <2>2, OtherStatusIsGood
  <2> HIDE DEF r
  <2>4. Mine(r, t) /\ Within(r, r) /\ Regs \union {r, r} = Regs \union {r}
    BY <1>4, <2>3, MineWritten, GoodAreRegs, WithinOrder DEF IsReg
  <2>5. <<r>> \in Seq({r, r})
    OBVIOUS
  <2>6. Updates(t, r, r, inbox[t])
    BY <1>1, <1>2, <2>1, <2>3, <2>4, <2>5, WriteUpdates
  <2>. QED BY <1>1, <1>2, <1>3, <1>5, <2>3, <2>6, SilentKeeps
<1>7. ASSUME Status(map[t]) # "rejected" PROVE Runs'
  <2>1. UNCHANGED <<open, map, doc, inbox, modal, awaits, grant, ranBy>>
    BY <1>1, <1>7 DEF ResetRejection
  <2>2. DocsInv' /\ UsedOnce'
    <3>1. DocsInv /\ UsedOnce
      BY DEF Runs
    <3>2. DocsInv'
      BY <2>1, <3>1 DEF DocsInv, Alone, Here, Regs, DocInv, KnowInv
    <3>3. UsedOnce'
      BY <2>1, <3>1 DEF UsedOnce, Used, Here
    <3>. QED BY <3>2, <3>3
  <2>3. ShapeInv'
    BY <1>1, <1>2, <2>1 DEF ShapeInv
  <2>4. ASSUME NEW u \in Tabs PROVE PageOK(u)'
    <3>1. PageOK(u)
      BY DEF Runs
    <3>2. u # t => timers'[u] = timers[u]
      BY <1>1, <1>2 DEF ShapeInv
    <3>3. Away(u)' /\ Early(u)'
      BY <1>1, <1>3, <2>1, <3>1, <3>2 DEF PageOK, Away, Early, Here
    <3>. QED BY <2>1, <3>1, <3>3 DEF PageOK, Asked, Waits
  <2>. QED BY <2>2, <2>3, <2>4 DEF Runs
<1>. QED BY <1>6, <1>7

LEMMA ResultsKeep ==
  ASSUME ConsentInv, Runs, NEW t \in Tabs, NEW j \in Jobs, ShowResults(t, j) PROVE Runs'
<1> DEFINE r == Set(map[t], "status", t, "completed")
           s == Set(r, "results", t, j)
<1>1. /\ Here(t) /\ j \in awaits[t] /\ open' = open
      /\ map' = [map EXCEPT ![t] = s] /\ doc' = Merge(doc, s)
      /\ Forward(t, DocMsgs(<<r, s>>), inbox[t])
      /\ modal' = [modal EXCEPT ![t] = FALSE]
      /\ awaits' = [awaits EXCEPT ![t] = awaits[t] \ {j}]
      /\ UNCHANGED <<timers, grant, ranBy>>
  BY DEF ShowResults, OnlyRun, Runs, ShapeInv
<1>2. Queues /\ PageOK(t) /\ ShapeInv
  BY QueuesHold DEF Runs
<1>3. Syncs(inbox[t]) = {} /\ StatusItem(map[t]) # <<>>
  BY <1>1, <1>2 DEF PageOK, Early, Waits
<1>4. map[t] \in Regs /\ IsReg(map[t]) /\ Good(Regs)
  BY <1>3, LatePage
<1>5. /\ modal' = [modal EXCEPT ![t] = modal'[t]] /\ awaits' = [awaits EXCEPT ![t] = awaits'[t]]
      /\ timers' = [timers EXCEPT ![t] = timers'[t]]
      /\ ~modal'[t]
      /\ awaits'[t] \subseteq awaits[t]
  BY <1>1, <1>2 DEF ShapeInv
<1>6. /\ Good(Regs \union {r}) /\ Within(map[t], r)
      /\ StatusItem(r) = Append(StatusItem(map[t]), t)
      /\ RequestItem(r) = RequestItem(map[t]) /\ RequestedBy(r) = RequestedBy(map[t])
  BY <1>3, <1>4, OtherStatusIsGood
<1>7. <<r, s>> \in Seq({r, s})
  OBVIOUS
<1> HIDE DEF r
<1>8. /\ Good((Regs \union {r}) \union {s}) /\ Within(r, s)
      /\ StatusItem(s) = StatusItem(r)
      /\ RequestItem(s) = RequestItem(r) /\ RequestedBy(s) = RequestedBy(r)
  <2>1. Good((Regs \union {r}) \union {s})
    BY <1>6, ResultsAreGood
  <2>2. Within(r, s)
    BY <1>6, <2>1, ResultsAreGood
  <2>3. StatusItem(s) = StatusItem(r)
    BY <1>6, <2>1, ResultsAreGood
  <2>4. RequestItem(s) = RequestItem(r)
    BY <1>6, <2>1, ResultsAreGood
  <2>5. RequestedBy(s) = RequestedBy(r)
    BY <1>6, <2>1, ResultsAreGood
  <2>. QED BY <2>1, <2>2, <2>3, <2>4, <2>5
<1> HIDE DEF s
<1>9. Good(Regs \union {r, s})
  <2>1. (Regs \union {r}) \union {s} = Regs \union {r, s}
    OBVIOUS
  <2>. QED BY <1>8, <2>1
<1>10. Mine(r, t) /\ Mine(s, t)
  BY <1>4, <1>6, <1>8, MineWritten DEF IsReg
<1>11. Within(map[t], s)
  <2>1. IsReg(r) /\ IsReg(s)
    BY <1>9, GoodAreRegs
  <2>. QED BY <1>4, <1>6, <1>8, <2>1, WithinOrder
<1>12. Updates(t, r, s, inbox[t])
  BY <1>1, <1>2, <1>6, <1>7, <1>8, <1>9, <1>10, WriteUpdates
<1>13. RequestedBy(s) = RequestedBy(map[t])
  BY <1>6, <1>8
<1>. QED BY <1>1, <1>2, <1>3, <1>5, <1>11, <1>12, <1>13, SilentKeeps

-----------------------------------------------------------------------------
(* Receiving documents.                                                    *)

(* The question stays about the peer's request. *)
LEMMA StillAsked ==
  ASSUME NEW R, Good(R), NEW m \in R, NEW g \in R, NEW t \in Tabs,
         RequestItem(m) # <<>>, RequestedBy(m) # Owner[t], \A x \in R : Known(x, t, m)
  PROVE  RequestedBy(Merge(m, g)) # Owner[t]
<1> DEFINE r == Merge(m, g)
<1>1. SUFFICES ASSUME RequestedBy(r) = Owner[t] PROVE FALSE
  OBVIOUS
<1>2. IsReg(m) /\ IsReg(g) /\ Sound(m)
  BY GoodAreRegs DEF Good
<1>3. Sound(r) /\ IsReg(r)
  <2>1. Good(R \union {r})
    BY MergeIsGood
  <2>. QED BY <2>1 DEF Good, Sound
<1>4. Within(m, r) /\ RequestItem(r) \in {RequestItem(m), RequestItem(g)}
  BY <1>2, MergeIsLater
<1>5. RequestItem(r) # <<>>
  BY <1>2, <1>3, <1>4, WithinNotEmptied
<1>6. Writer(RequestItem(r)) = Owner[t]
  BY <1>1, <1>3, <1>5 DEF Sound
<1>7. Upto(RequestItem(r), RequestItem(m))
  BY <1>4, <1>5, <1>6 DEF Known, KnownItem
<1>8. RequestItem(r) = RequestItem(m)
  BY <1>2, <1>3, <1>4, <1>7, Order DEF Upto, Within, IsReg
<1>. QED BY <1>2, <1>6, <1>8 DEF Sound

LEMMA MergeIsMine ==
  ASSUME Good(Regs), NEW m \in Regs, NEW g \in Regs, NEW t PROVE Mine(Merge(m, g), t)
<1>1. IsReg(m) /\ IsReg(g)
  BY GoodAreRegs
<1>2. /\ StatusItem(Merge(m, g)) \in {StatusItem(m), StatusItem(g)}
      /\ RequestItem(Merge(m, g)) \in {RequestItem(m), RequestItem(g)}
  BY <1>1, MergeIsLater
<1>. QED BY <1>2 DEF Mine, MineItem

LEMMA DocumentKeeps ==
  ASSUME ConsentInv, Runs, NEW t \in Tabs, ReceiveUpdate(t) \/ ReceiveSync(t) PROVE Runs'
<1> DEFINE q == inbox[t]
           g == Head(inbox[t]).regs
           r == Merge(map[t], g)
           s == Executing(t, r)
           ran == IF MustExecute(t, r) THEN <<s>> ELSE <<>>
<1>1. /\ Here(t) /\ q # <<>> /\ Head(q).kind \in {"doc", "sync"} /\ open' = open
      /\ Observe(t, r) /\ Forward(t, DocMsgs(ran), Tail(q))
  BY DEF ReceiveUpdate, ReceiveSync, Receive, OnlyRun
<1>2. Queues /\ Good(Regs) /\ PageOK(t) /\ IsQueue(q) /\ InOrder(q)
  BY QueuesHold DEF Runs, DocsInv, Queues
<1>3. /\ Underway(Tail(q)) \subseteq Underway(q) /\ g \in Underway(q)
      /\ InOrder(Tail(q)) /\ Syncs(Tail(q)) = {}
      /\ Head(q).kind = "sync" => g \in Syncs(q)
      /\ Head(q).kind = "doc" => Syncs(q) = {}
  BY <1>1, <1>2, TakenUnderway
<1>4. map[t] \in Regs /\ g \in Regs
  BY <1>3, RegsAre
<1>5. IsQueue(Tail(q))
  <2>1. PICK S : q \in Seq(S)
    BY <1>2 DEF IsQueue
  <2>2. Tail(q) \in Seq(S)
    BY <1>1, <2>1
  <2>. QED BY <2>2 DEF IsQueue
<1>6. IsReg(map[t]) /\ IsReg(g) /\ Good(Regs \union {r}) /\ Mine(r, t)
  BY <1>2, <1>4, GoodAreRegs, MergeIsGood, MergeIsMine
<1>7. Within(map[t], r) /\ IsReg(r)
  BY <1>6, MergeIsLater, Merged
<1>8. modal[t] => RequestedBy(r) # Owner[t]
  <2>1. SUFFICES ASSUME modal[t] PROVE RequestedBy(r) # Owner[t]
    OBVIOUS
  <2>2. RequestedBy(map[t]) # Owner[t] /\ \A x \in Regs : Known(x, t, map[t])
    BY <1>1, <2>1, AskedPage
  <2>3. RequestItem(map[t]) # <<>>
    BY <1>2, <2>1 DEF PageOK, Asked
  <2>. QED BY <1>2, <1>4, <2>2, <2>3, StillAsked
<1>9. PICK k \in Views(map[t], q) : Within(k, r) /\ IsReg(k)
  <2>1. CASE Head(q).kind = "doc"
    <3>1. map[t] \in Views(map[t], q)
      BY <1>3, <2>1 DEF Views
    <3>. QED BY <1>6, <1>7, <3>1
  <2>2. CASE Head(q).kind = "sync"
    <3>1. r \in Views(map[t], q)
      BY <1>3, <2>2 DEF Views
    <3>. QED BY <1>7, <3>1, WithinOrder
  <2>. QED BY <1>1, <2>1, <2>2
<1> HIDE DEF r
<1>10. Good((Regs \union {r}) \union {s}) /\ Within(r, s)
  BY <1>6, ExecutingIs
<1>11. Mine(s, t)
  BY <1>6, ExecutingIsMine
<1>12. map' = [map EXCEPT ![t] = s] /\ doc' = Merge(doc, s)
  BY <1>1 DEF Observe
<1> HIDE DEF s
<1>13. ran \in Seq({r, s})
  <2>1. <<s>> \in Seq({r, s}) /\ <<>> \in Seq({r, s})
    OBVIOUS
  <2>2. ran = <<s>> \/ ran = <<>>
    OBVIOUS
  <2>. QED BY <2>1, <2>2
<1> HIDE DEF ran
<1>14. IsQueue(DocMsgs(ran)) /\ Syncs(DocMsgs(ran)) = {} /\ Underway(DocMsgs(ran)) \subseteq {r, s}
  BY <1>13, DocsUnderway
<1>15. Good(Regs \union {r, s}) /\ IsReg(s)
  <2>1. (Regs \union {r}) \union {s} = Regs \union {r, s}
    OBVIOUS
  <2>. QED BY <1>10, <2>1, GoodAreRegs
<1>16. \A l \in Views(s, Tail(q)) : l = s
  BY <1>3 DEF Views
<1>17. Within(s, s) /\ Within(k, s)
  BY <1>7, <1>9, <1>10, <1>15, WithinOrder
<1>18. Updates(t, r, s, Tail(q))
  BY <1>1, <1>3, <1>5, <1>6, <1>9, <1>10, <1>11, <1>12, <1>14, <1>15, <1>16, <1>17
  DEF Updates
<1>. QED BY <1>1, <1>2, <1>3, <1>7, <1>8, <1>9, <1>18, ObserverKeeps DEF s

-----------------------------------------------------------------------------
(* Pages come and go, and messages about other things are sent and taken.  *)

LEMMA BlankIsWithin ==
  ASSUME NEW r, IsReg(r) PROVE Within(Blank, r) /\ \A t, k : Known(Blank, t, k)
<1>1. StatusItem(Blank) = <<>> /\ RequestItem(Blank) = <<>>
  BY DEF Blank, StatusItem, RequestItem
<1>2. \A p \in Seq(Tabs) : ~Behind(<<>>, p)
  BY DEF Behind
<1>. QED BY <1>1, <1>2 DEF Within, Upto, IsReg, Known, KnownItem

LEMMA MovesKeepDocs ==
  ASSUME Runs, Regs' \subseteq Regs \union {Blank}, doc' = doc, Alone',
         UNCHANGED <<grant, ranBy>>,
         \A u \in Tabs : Here(u)' =>
            \/ Here(u) /\ Views(map'[u], inbox'[u]) = Views(map[u], inbox[u])
            \/ \A k \in Views(map'[u], inbox'[u]) : IsReg(k) /\ Within(doc, k)
  PROVE  DocsInv' /\ UsedOnce'
<1>1. Good(Regs) /\ DocInv /\ KnowInv /\ UsedOnce
  BY DEF Runs, DocsInv
<1>2. Good(Regs')
  BY <1>1, BlankIsGood, LessIsGood
<1>3. IsReg(doc) /\ \A x \in Regs : IsReg(x)
  BY <1>1, RegsAre, GoodAreRegs
<1>4. DocInv'
  <2>1. \A x \in Regs' : Within(x, doc)
    BY <1>1, <1>3, BlankIsWithin DEF DocInv
  <2>. QED BY <2>1 DEF DocInv
<1>5. ASSUME NEW u \in Tabs, Here(u)', NEW k \in Views(map'[u], inbox'[u]), NEW x \in Regs'
      PROVE  Known(x, u, k)
  <2>1. CASE x = Blank
    BY <1>3, <2>1, BlankIsWithin
  <2>2. CASE x \in Regs
    <3>1. CASE Here(u) /\ Views(map'[u], inbox'[u]) = Views(map[u], inbox[u])
      BY <1>1, <1>5, <2>2, <3>1 DEF KnowInv
    <3>2. CASE IsReg(k) /\ Within(doc, k)
      <4>1. Within(x, k)
        BY <1>1, <1>3, <2>2, <3>2, WithinOrder DEF DocInv
      <4>. QED BY <4>1, WithinIsKnown
    <3>. QED BY <1>5, <3>1, <3>2
  <2>. QED BY <1>5, <2>1, <2>2
<1>6. KnowInv'
  BY <1>5 DEF KnowInv
<1>7. ASSUME NEW j \in Jobs PROVE Used(j)'
  <2>1. SUFFICES ASSUME ranBy[j] # 0 PROVE Used(j)'
    BY DEF Used
  <2>2. /\ ranBy[j] \in Tabs /\ grant[j] \in Seq(Tabs) /\ grant[j] # <<>>
        /\ Writer(grant[j]) # Owner[ranBy[j]] /\ Behind(StatusItem(doc), grant[j])
    BY <1>1, <2>1 DEF UsedOnce, Used
  <2>3. ASSUME NEW u \in Tabs, Here(u)', Owner[u] = Owner[ranBy[j]],
               NEW k \in Views(map'[u], inbox'[u])
        PROVE  Behind(StatusItem(k), grant[j])
    <3>1. CASE Here(u) /\ Views(map'[u], inbox'[u]) = Views(map[u], inbox[u])
      BY <1>1, <2>1, <2>3, <3>1 DEF UsedOnce, Used
    <3>2. CASE IsReg(k) /\ Within(doc, k)
      BY <1>3, <2>2, <3>2, StaysBehind
    <3>. QED BY <2>3, <3>1, <3>2
  <2>. QED BY <2>2, <2>3 DEF Used
<1>8. UsedOnce'
  BY <1>1, <1>7 DEF UsedOnce
<1>. QED BY <1>2, <1>4, <1>6, <1>8 DEF DocsInv

(* Only messages are sent or taken, and no document is among them. *)
LEMMA MessagesKeep ==
  ASSUME ConsentInv', Runs,
         UNCHANGED <<open, map, doc, modal, timers, awaits, grant, ranBy>>,
         \A u \in Tabs : /\ Underway(inbox'[u]) \subseteq Underway(inbox[u])
                         /\ Syncs(inbox'[u]) = Syncs(inbox[u]) /\ InOrder(inbox'[u])
                         /\ ~Here(u) => inbox'[u] = inbox[u]
  PROVE  Runs'
<1>1. inbox' = [u \in Tabs |-> inbox'[u]]
  BY DEF ConsentInv, InboxesAgree
<1>2. ShapeInv'
  BY <1>1 DEF Runs, ShapeInv
<1>3. Regs' \subseteq Regs
  <2>1. ASSUME NEW x \in Regs' PROVE x \in Regs
    <3>1. x = doc \/ \E u \in Tabs : x = map[u] \/ x \in Underway(inbox'[u])
      BY DEF Regs
    <3>. QED BY <3>1, RegsAre
  <2>. QED BY <2>1
<1>4. Alone' /\ \A u \in Tabs : Here(u)' = Here(u)
  BY DEF Runs, DocsInv, Alone, Here
<1>5. \A u \in Tabs : Views(map'[u], inbox'[u]) = Views(map[u], inbox[u])
  BY DEF Views
<1>6. DocsInv' /\ UsedOnce'
  BY <1>3, <1>4, <1>5, MovesKeepDocs
<1>7. ASSUME NEW u \in Tabs PROVE PageOK(u)'
  <2>1. PageOK(u)
    BY DEF Runs
  <2>. QED BY <1>4, <2>1 DEF PageOK, Away, Early, Asked, Waits
<1>. QED BY <1>2, <1>6, <1>7 DEF Runs

LEMMA ForwardsOne ==
  ASSUME Queues, NEW t \in Tabs, NEW m, m.kind \notin {"doc", "sync"},
         NEW rest, Forward(t, <<m>>, rest), NEW u \in Tabs \ {t}
  PROVE  /\ Underway(inbox'[u]) = Underway(inbox[u]) /\ Syncs(inbox'[u]) = Syncs(inbox[u])
         /\ InOrder(inbox'[u])
         /\ ~Here(u) => inbox'[u] = inbox[u]
<1>1. inbox'[u] = IF Here(u) THEN inbox[u] \o <<m>> ELSE inbox[u]
  BY ForwardIs
<1>2. IsQueue(inbox[u]) /\ InOrder(inbox[u]) /\ IsQueue(<<m>>)
  BY Single DEF Queues
<1>3. Underway(<<m>>) = {} /\ Syncs(<<m>>) = {}
  BY OtherMessage
<1>4. /\ Underway(inbox[u] \o <<m>>) = Underway(inbox[u])
      /\ Syncs(inbox[u] \o <<m>>) = Syncs(inbox[u]) /\ InOrder(inbox[u] \o <<m>>)
  BY <1>2, <1>3, JoinedUnderway
<1>. QED BY <1>1, <1>2, <1>4

LEMMA TellKeeps ==
  ASSUME ConsentInv, ConsentInv', Runs, NEW t \in Tabs, NEW m, m.kind \notin {"doc", "sync"},
         Tell(t, m)
  PROVE  Runs'
<1>1. /\ Forward(t, <<m>>, inbox[t])
      /\ UNCHANGED <<open, map, doc, modal, timers, awaits, grant, ranBy>>
  BY DEF Tell
<1>2. Queues
  BY QueuesHold
<1>3. inbox'[t] = inbox[t] /\ InOrder(inbox[t])
  BY <1>1, <1>2, ForwardIs DEF Queues
<1>4. ASSUME NEW u \in Tabs
      PROVE  /\ Underway(inbox'[u]) \subseteq Underway(inbox[u])
             /\ Syncs(inbox'[u]) = Syncs(inbox[u]) /\ InOrder(inbox'[u])
             /\ ~Here(u) => inbox'[u] = inbox[u]
  BY <1>1, <1>2, <1>3, ForwardsOne
<1>. QED BY <1>1, <1>4, MessagesKeep

LEMMA TakeKeeps ==
  ASSUME ConsentInv, ConsentInv', Runs, NEW t \in Tabs, Here(t), inbox[t] # <<>>,
         Head(inbox[t]).kind \notin {"doc", "sync"},
         inbox' = [inbox EXCEPT ![t] = Tail(@)],
         UNCHANGED <<open, map, doc, modal, timers, awaits, grant, ranBy>>
  PROVE  Runs'
<1>1. Queues /\ ShapeInv
  BY QueuesHold DEF Runs
<1>2. /\ inbox'[t] = Tail(inbox[t])
      /\ \A u \in Tabs \ {t} : inbox'[u] = inbox[u]
  BY <1>1 DEF ShapeInv
<1>3. /\ Underway(Tail(inbox[t])) \subseteq Underway(inbox[t])
      /\ Syncs(Tail(inbox[t])) = Syncs(inbox[t]) /\ InOrder(Tail(inbox[t]))
  BY <1>1, TakenUnderway DEF Queues
<1>4. ASSUME NEW u \in Tabs
      PROVE  /\ Underway(inbox'[u]) \subseteq Underway(inbox[u])
             /\ Syncs(inbox'[u]) = Syncs(inbox[u]) /\ InOrder(inbox'[u])
             /\ ~Here(u) => inbox'[u] = inbox[u]
  BY <1>1, <1>2, <1>3 DEF Queues
<1>. QED BY <1>4, MessagesKeep

LEMMA LeaveKeeps ==
  ASSUME ConsentInv, ConsentInv', Runs, NEW t \in Tabs, Leave(t) PROVE Runs'
<1>1. /\ Here(t) /\ open' = [open EXCEPT ![t] = "left"]
      /\ map' = [map EXCEPT ![t] = Blank] /\ Forward(t, <<Gone(t)>>, <<>>)
      /\ modal' = [modal EXCEPT ![t] = FALSE] /\ timers' = [timers EXCEPT ![t] = 0]
      /\ awaits' = [awaits EXCEPT ![t] = {}]
      /\ UNCHANGED <<doc, grant, ranBy>>
  BY DEF Leave
<1>2. Queues /\ ShapeInv /\ Alone
  BY QueuesHold DEF Runs, DocsInv
<1>3. /\ map'[t] = Blank /\ inbox'[t] = <<>> /\ ~modal'[t] /\ timers'[t] = 0 /\ awaits'[t] = {}
      /\ ~Here(t)'
  BY <1>1, <1>2, ForwardIs DEF ShapeInv, Here
<1>4. ASSUME NEW u \in Tabs \ {t}
      PROVE  /\ map'[u] = map[u] /\ modal'[u] = modal[u] /\ timers'[u] = timers[u]
             /\ awaits'[u] = awaits[u] /\ Here(u)' = Here(u)
  BY <1>1, <1>2 DEF ShapeInv, Here
<1>5. Gone(t).kind \notin {"doc", "sync"}
  BY DEF Gone
<1>6. ASSUME NEW u \in Tabs \ {t}
      PROVE  /\ Underway(inbox'[u]) = Underway(inbox[u]) /\ Syncs(inbox'[u]) = Syncs(inbox[u])
             /\ InOrder(inbox'[u])
             /\ ~Here(u) => inbox'[u] = inbox[u]
  BY <1>1, <1>2, <1>5, ForwardsOne
<1>7. ShapeInv'
  <2>1. inbox' = [u \in Tabs |-> inbox'[u]]
    BY <1>1, ForwardIs
  <2>. QED BY <1>1, <1>2, <2>1 DEF ShapeInv
<1>8. Regs' \subseteq Regs \union {Blank}
  <2>1. ASSUME NEW x \in Regs' PROVE x \in Regs \union {Blank}
    <3>1. x = doc \/ \E u \in Tabs : x = map'[u] \/ x \in Underway(inbox'[u])
      BY <1>1 DEF Regs
    <3>2. ASSUME NEW u \in Tabs, x = map'[u] \/ x \in Underway(inbox'[u])
          PROVE  x \in Regs \union {Blank}
      <4>1. CASE u = t
        BY <1>3, <3>2, <4>1, NothingUnderway
      <4>2. CASE u # t
        BY <1>4, <1>6, <3>2, <4>2, RegsAre
      <4>. QED BY <4>1, <4>2
    <3>. QED BY <3>1, <3>2, RegsAre
  <2>. QED BY <2>1
<1>9. Alone'
  BY <1>2, <1>3, <1>4 DEF Alone
<1>10. ASSUME NEW u \in Tabs, Here(u)'
       PROVE  Here(u) /\ Views(map'[u], inbox'[u]) = Views(map[u], inbox[u])
  <2>1. u # t
    BY <1>3, <1>10
  <2>2. Views(map'[u], inbox'[u]) = Views(map[u], inbox[u])
    BY <1>4, <1>6, <2>1 DEF Views
  <2>. QED BY <1>4, <1>10, <2>1, <2>2
<1>11. DocsInv' /\ UsedOnce'
  BY <1>1, <1>8, <1>9, <1>10, MovesKeepDocs
<1>12. PageOK(t)'
  BY <1>3, NothingUnderway DEF PageOK, Away, Early, Asked, Waits
<1>13. ASSUME NEW u \in Tabs \ {t} PROVE PageOK(u)'
  <2>1. PageOK(u)
    BY DEF Runs
  <2>. QED BY <1>4, <1>6, <2>1 DEF PageOK, Away, Early, Asked, Waits
<1>. QED BY <1>7, <1>11, <1>12, <1>13 DEF Runs

LEMMA OpenKeeps ==
  ASSUME ConsentInv, ConsentInv', Runs, NEW t \in Tabs, Open(t) PROVE Runs'
<1> DEFINE others == {s \in Tabs : Here(s)}
           here == IF others = {} THEN <<>> ELSE <<Joins(CHOOSE s \in others : TRUE)>>
           rest == here \o <<[kind |-> "sync", regs |-> doc]>>
<1>1. /\ open[t] = "not yet" /\ open' = [open EXCEPT ![t] = "open"]
      /\ \A s \in others : Owner[s] # Owner[t]
      /\ Forward(t, <<Joins(t)>>, rest)
      /\ UNCHANGED <<map, doc, modal, timers, awaits, grant, ranBy>>
  BY DEF Open
<1>2. Queues /\ ShapeInv /\ Alone /\ PageOK(t) /\ ~Here(t)
  BY <1>1, QueuesHold DEF Runs, DocsInv, Here
<1>3. InOrder(rest) /\ Underway(rest) = {doc} /\ Syncs(rest) = {doc}
  <2>1. CASE others = {}
    <3>1. rest = <<[kind |-> "sync", regs |-> doc]>>
      BY <2>1
    <3>. QED BY <3>1, OpeningOrder
  <2>2. CASE others # {}
    BY <2>2, OpeningOrder
  <2>. QED BY <2>1, <2>2
<1> HIDE DEF rest
<1>4. /\ map[t] = Blank /\ ~modal[t] /\ timers[t] = 0 /\ awaits[t] = {}
      /\ inbox'[t] = rest
  BY <1>1, <1>2, ForwardIs DEF PageOK, Away
<1>5. Joins(t).kind \notin {"doc", "sync"}
  BY DEF Joins
<1>6. ASSUME NEW u \in Tabs \ {t}
      PROVE  /\ Underway(inbox'[u]) = Underway(inbox[u]) /\ Syncs(inbox'[u]) = Syncs(inbox[u])
             /\ InOrder(inbox'[u])
             /\ ~Here(u) => inbox'[u] = inbox[u]
  BY <1>1, <1>2, <1>5, ForwardsOne
<1>7. Here(t)' /\ \A u \in Tabs \ {t} : Here(u)' = Here(u)
  BY <1>1, <1>2 DEF ShapeInv, Here
<1>8. ShapeInv'
  <2>1. inbox' = [u \in Tabs |-> inbox'[u]]
    BY <1>1, ForwardIs
  <2>. QED BY <1>1, <1>2, <2>1 DEF ShapeInv
<1>9. Regs' \subseteq Regs
  <2>1. ASSUME NEW x \in Regs' PROVE x \in Regs
    <3>1. x = doc \/ \E u \in Tabs : x = map[u] \/ x \in Underway(inbox'[u])
      BY <1>1 DEF Regs
    <3>2. ASSUME NEW u \in Tabs, x \in Underway(inbox'[u]) PROVE x \in Regs
      <4>1. CASE u = t
        BY <1>3, <1>4, <3>2, <4>1, RegsAre
      <4>2. CASE u # t
        BY <1>6, <3>2, <4>2, RegsAre
      <4>. QED BY <4>1, <4>2
    <3>. QED BY <3>1, <3>2, RegsAre
  <2>. QED BY <2>1
<1>10. Alone'
  BY <1>1, <1>2, <1>7 DEF Alone
<1>11. ASSUME NEW k \in Views(map'[t], inbox'[t]) PROVE IsReg(k) /\ Within(doc, k)
  <2>1. k = Merge(Blank, doc)
    BY <1>1, <1>3, <1>4, <1>11 DEF Views
  <2>2. IsReg(Blank) /\ IsReg(doc)
    BY BlankIsGood, RegsAre, GoodAreRegs DEF Runs, DocsInv
  <2>. QED BY <2>1, <2>2, Merged, MergeIsLater
<1>12. ASSUME NEW u \in Tabs \ {t}
       PROVE  Views(map'[u], inbox'[u]) = Views(map[u], inbox[u])
  BY <1>1, <1>6 DEF Views
<1>13. DocsInv' /\ UsedOnce'
  BY <1>1, <1>7, <1>9, <1>10, <1>11, <1>12, MovesKeepDocs
<1>14. PageOK(t)'
  <2>1. StatusItem(Blank) = <<>>
    BY DEF Blank, StatusItem
  <2>. QED BY <1>1, <1>3, <1>4, <1>7, <2>1 DEF PageOK, Away, Early, Asked, Waits
<1>15. ASSUME NEW u \in Tabs \ {t} PROVE PageOK(u)'
  <2>1. PageOK(u)
    BY DEF Runs
  <2>. QED BY <1>1, <1>6, <1>7, <2>1 DEF PageOK, Away, Early, Asked, Waits
<1>. QED BY <1>8, <1>13, <1>14, <1>15 DEF Runs

-----------------------------------------------------------------------------
(* Every step.                                                             *)

LEMMA QuietKeeps ==
  ASSUME Runs, UNCHANGED <<open, map, doc, inbox, modal, timers, awaits, grant, ranBy>>
  PROVE  Runs'
<1>1. ShapeInv /\ DocsInv /\ UsedOnce
  BY DEF Runs
<1>2. ShapeInv'
  BY <1>1 DEF ShapeInv
<1>3. Regs' = Regs /\ Alone' /\ \A u \in Tabs : Here(u)' = Here(u)
  BY <1>1 DEF DocsInv, Alone, Here, Regs
<1>5. \A u \in Tabs : Views(map'[u], inbox'[u]) = Views(map[u], inbox[u])
  OBVIOUS
<1>6. DocsInv' /\ UsedOnce'
  BY <1>3, <1>5, MovesKeepDocs
<1>4. ASSUME NEW t \in Tabs PROVE PageOK(t)'
  <2>1. PageOK(t)
    BY DEF Runs
  <2>. QED BY <2>1 DEF PageOK, Away, Early, Asked, Waits, Here
<1>. QED BY <1>2, <1>4, <1>6 DEF Runs

LEMMA UsersKeepRuns ==
  ASSUME ConsentInv, ConsentInv', Runs, ~hasty', NEW t \in Tabs, UserStep(t) PROVE Runs'
<1>1. CASE RunCode(t)
  BY <1>1, RunCodeKeeps
<1>2. CASE ApproveRun(t) \/ DeclineRun(t)
  BY <1>2, AnswerKeeps
<1>3. ASSUME NEW l \in Langs, SelectLanguage(t, l) PROVE Runs'
  <2>1. Tell(t, Msg("langRequest", l, TRUE))
    BY <1>3 DEF SelectLanguage
  <2>. QED BY <2>1, TellKeeps DEF Msg
<1>4. CASE ApproveLanguage(t)
  <2>1. Tell(t, Msg("langApproved", langModal[t], TRUE))
    BY <1>4 DEF ApproveLanguage
  <2>. QED BY <2>1, TellKeeps DEF Msg
<1>5. CASE RejectLanguage(t)
  <2>1. Tell(t, Msg("langResponse", None, FALSE))
    BY <1>5 DEF RejectLanguage
  <2>. QED BY <2>1, TellKeeps DEF Msg
<1>6. CASE Translate(t) \/ DiscardTranslation(t)
  BY <1>6, QuietKeeps DEF Translate, DiscardTranslation, OnlyText, runVars
<1>7. CASE OfferTranslation(t)
  <2>1. Tell(t, Msg("offer", stamp', TRUE))
    BY <1>7 DEF OfferTranslation
  <2>. QED BY <2>1, TellKeeps DEF Msg
<1>8. ASSUME NEW ok \in BOOLEAN, AnswerOffer(t, ok) PROVE Runs'
  <2>1. Tell(t, Msg("answer", offerModal[t], ok))
    BY <1>8 DEF AnswerOffer
  <2>. QED BY <2>1, TellKeeps DEF Msg
<1>9. CASE Leave(t)
  BY <1>9, LeaveKeeps
<1>10. CASE Open(t)
  BY <1>10, OpenKeeps
<1>. QED BY <1>1, <1>2, <1>3, <1>4, <1>5, <1>6, <1>7, <1>8, <1>9, <1>10 DEF UserStep

LEMMA DeliveriesKeepRuns ==
  ASSUME ConsentInv, ConsentInv', Runs, NEW t \in Tabs, Deliver(t) PROVE Runs'
<1>1. CASE ReceiveUpdate(t) \/ ReceiveSync(t)
  BY <1>1, DocumentKeeps
<1>2. CASE \/ ReceiveLangRequest(t) \/ ReceiveLangApproved(t) \/ ReceiveLangResponse(t)
           \/ ReceiveOffer(t) \/ ReceivePresence(t) \/ ReceiveAnswer(t)
  <2>1. /\ Here(t) /\ inbox[t] # <<>> /\ inbox' = [inbox EXCEPT ![t] = Tail(@)]
        /\ UNCHANGED <<open, map, doc, modal, timers, awaits, grant, ranBy>>
    BY <1>2 DEF ReceiveLangRequest, ReceiveLangApproved, ReceiveLangResponse, ReceiveOffer,
                ReceivePresence, ReceiveAnswer, Receive, Consume
  <2>2. Head(inbox[t]).kind \notin {"doc", "sync"}
    BY <1>2 DEF ReceiveLangRequest, ReceiveLangApproved, ReceiveLangResponse, ReceiveOffer,
                ReceivePresence, ReceiveAnswer, Receive
  <2>. QED BY <2>1, <2>2, TakeKeeps
<1>. QED BY <1>1, <1>2 DEF Deliver

(* Once a user asked behind an open question, he remains excepted. *)
LEMMA HastyStays == [Next]_vars /\ hasty => hasty'
<1>1. SUFFICES ASSUME [Next]_vars, hasty PROVE hasty'
  OBVIOUS
<1>2. ASSUME NEW t \in Tabs, UserStep(t) PROVE hasty'
  BY <1>1, <1>2
  DEF UserStep, RunCode, ApproveRun, DeclineRun, SelectLanguage, ApproveLanguage, RejectLanguage,
      Translate, DiscardTranslation, OfferTranslation, AnswerOffer, Leave, Open, Tell, OnlyText,
      runVars
<1>3. ASSUME NEW t \in Tabs, Deliver(t) PROVE hasty'
  BY <1>1, <1>3
  DEF Deliver, ReceiveUpdate, ReceiveSync, ReceiveLangRequest, ReceiveLangApproved,
      ReceiveLangResponse, ReceiveOffer, ReceivePresence, ReceiveAnswer, Consume
<1>4. ASSUME NEW t \in Tabs,
             \/ ResetRejection(t) \/ Translated(t) \/ DebounceOver(t) \/ ReportOffline(t)
             \/ \E j \in Jobs : ShowResults(t, j)
      PROVE  hasty'
  BY <1>1, <1>4
  DEF ResetRejection, Translated, DebounceOver, ReportOffline, ShowResults, OnlyText, OnlyPeer,
      runVars
<1>5. ASSUME NEW l \in Langs, SaveLanguage(l) PROVE hasty'
  BY <1>1, <1>5 DEF SaveLanguage, runVars
<1>6. CASE OnlyExec \/ UNCHANGED vars
  BY <1>1, <1>6 DEF OnlyExec, vars, runVars
<1>. QED BY <1>1, <1>2, <1>3, <1>4, <1>5, <1>6 DEF Next

LEMMA StepsKeepRuns == ConsentInv /\ ConsentInv' /\ Runs /\ [Next]_vars /\ ~hasty' => Runs'
<1>1. SUFFICES ASSUME ConsentInv, ConsentInv', Runs, [Next]_vars, ~hasty' PROVE Runs'
  OBVIOUS
<1>2. ASSUME NEW t \in Tabs, UserStep(t) \/ Deliver(t) PROVE Runs'
  BY <1>1, <1>2, UsersKeepRuns, DeliveriesKeepRuns
<1>3. ASSUME NEW t \in Tabs, ResetRejection(t) PROVE Runs'
  BY <1>1, <1>3, ResetKeeps
<1>4. ASSUME NEW t \in Tabs, NEW j \in Jobs, ShowResults(t, j) PROVE Runs'
  BY <1>1, <1>4, ResultsKeep
<1>5. ASSUME NEW t \in Tabs, Translated(t) \/ DebounceOver(t) \/ ReportOffline(t) PROVE Runs'
  BY <1>1, <1>5, QuietKeeps
  DEF Translated, DebounceOver, ReportOffline, OnlyText, OnlyPeer, runVars
<1>6. ASSUME NEW l \in Langs, SaveLanguage(l) PROVE Runs'
  BY <1>1, <1>6, QuietKeeps DEF SaveLanguage, runVars
<1>7. CASE OnlyExec \/ UNCHANGED vars
  BY <1>1, <1>7, QuietKeeps DEF OnlyExec, vars, runVars
<1>. QED BY <1>1, <1>2, <1>3, <1>4, <1>5, <1>6, <1>7 DEF Next

(* Each user has one page open at first, and nobody has written anything. *)
LEMMA NothingRanYet == Init => Runs
<1>1. SUFFICES ASSUME Init PROVE Runs
  OBVIOUS
<1>2. /\ open = [t \in Tabs |-> IF \E s \in Tabs : s < t /\ Owner[s] = Owner[t]
                                THEN "not yet" ELSE "open"]
      /\ map = [t \in Tabs |-> Blank] /\ doc = Blank /\ inbox = [t \in Tabs |-> <<>>]
      /\ modal = [t \in Tabs |-> FALSE] /\ timers = [t \in Tabs |-> 0]
      /\ awaits = [t \in Tabs |-> {}]
      /\ grant = [j \in Jobs |-> <<>>] /\ ranBy = [j \in Jobs |-> 0]
  BY <1>1 DEF Init
<1>3. ShapeInv
  BY <1>2 DEF ShapeInv
<1>4. \A x \in Regs : x = Blank
  BY <1>2, NothingUnderway DEF Regs
<1>5. Good(Regs) /\ IsReg(Blank)
  <2>1. Good({}) /\ Regs \subseteq {} \union {Blank}
    BY <1>4 DEF Good
  <2>. QED BY <2>1, BlankIsGood, LessIsGood
<1>6. Alone
  <2>1. SUFFICES ASSUME NEW s \in Tabs, NEW t \in Tabs, Here(s), Here(t), Owner[s] = Owner[t]
                 PROVE  s = t
    BY DEF Alone
  <2>2. ~(s < t) /\ ~(t < s) /\ s \in Nat /\ t \in Nat
    BY <1>2, <2>1 DEF Here
  <2>. QED BY <2>2
<1>7. DocInv /\ KnowInv
  BY <1>2, <1>4, <1>5, BlankIsWithin DEF DocInv, KnowInv
<1>8. UsedOnce
  BY <1>2 DEF UsedOnce, Used
<1>9. ASSUME NEW t \in Tabs PROVE PageOK(t)
  BY <1>2, NothingUnderway DEF PageOK, Away, Early, Asked, Waits
<1>. QED BY <1>3, <1>5, <1>6, <1>7, <1>8, <1>9 DEF Runs, DocsInv

(* The inductive invariant. *)
RunsInv == ConsentInv /\ (hasty \/ Runs)

LEMMA RunsAreAgreed == RunsInv => EveryRunWasApproved
<1>1. SUFFICES ASSUME RunsInv, ~hasty, NEW j \in Jobs, ranBy[j] # 0
               PROVE  /\ grant[j] # <<>> /\ Owner[LastWriter(grant[j])] # Owner[ranBy[j]]
                      /\ \A i \in Jobs \ {j} : grant[i] # grant[j]
  BY DEF EveryRunWasApproved
<1>2. UsedOnce
  BY <1>1 DEF RunsInv, Runs
<1>3. grant[j] # <<>> /\ Writer(grant[j]) # Owner[ranBy[j]]
  BY <1>1, <1>2 DEF UsedOnce, Used
<1>4. ASSUME NEW i \in Jobs \ {j} PROVE grant[i] # grant[j]
  BY <1>1, <1>2, <1>3 DEF UsedOnce
<1>. QED BY <1>3, <1>4 DEF Writer

(* No user's page runs code that he approved himself or that was approved for *)
(* another run, whatever else is said while the pages write concurrently.     *)
THEOREM RunsAreApproved == Spec => []EveryRunWasApproved
<1>1. Init => RunsInv
  BY NothingAgreedYet, NothingRanYet DEF RunsInv
<1>2. RunsInv /\ [Next]_vars => RunsInv'
  BY PagesConsent, HastyStays, StepsKeepRuns DEF RunsInv
<1>. QED BY <1>1, <1>2, RunsAreAgreed, PTL DEF Spec

-----------------------------------------------------------------------------
(* What a page knows of the others' presence, for any number of tabs. What it  *)
(* has in its awareness, with what is still in its queue, says of every tab    *)
(* what has become of it; a page with somebody in its awareness shows its peer *)
(* as online; and one with nobody there and nothing left to find out does not. *)

(* A message of q says that s is here, or gone. *)
IsOf(m, k, s) == m.kind = k /\ m.val = s
Says(q, k, s) == \E i \in 1..Len(q) : IsOf(q[i], k, s)

(* The last that q says of s is that it is gone. *)
SaysGone(q, s) == \E i \in 1..Len(q) :
                     /\ IsOf(q[i], "gone", s)
                     /\ \A k \in 1..Len(q) : IsOf(q[k], "here", s) => k < i

(* A page that has P in its awareness and is told q knows what has become of s. *)
Heard(o, P, q, s) ==
    /\ o = "open" => (s \in P \/ Says(q, "here", s)) /\ ~Says(q, "gone", s)
    /\ o # "open" => (s \notin P /\ ~Says(q, "here", s)) \/ SaysGone(q, s)
    /\ o = "not yet" => s \notin P /\ ~Says(q, "here", s) /\ ~Says(q, "gone", s)

Told(q) == \A s : Says(q, "here", s) => s \in Tabs
Synced(q) == \A i \in 1..Len(q) : q[i].kind # "sync"

(* Nothing is left to find out. *)
Settled(t) == Synced(inbox[t]) /\ ~armed[t] /\ asking[t] = 0

PeerTypes == /\ open = [t \in Tabs |-> open[t]] /\ present \in [Tabs -> SUBSET Tabs]
             /\ joined \in [Tabs -> BOOLEAN] /\ online \in [Tabs -> BOOLEAN]
             /\ armed \in [Tabs -> BOOLEAN] /\ asking \in [Tabs -> Nat]

PeerOK(t) ==
    /\ present[t] # {} => online[t] /\ joined[t]
    /\ open[t] = "not yet" => present[t] = {} /\ ~joined[t] /\ ~armed[t] /\ asking[t] = 0
    /\ Here(t) => /\ t \notin present[t] /\ ~Says(inbox[t], "here", t) /\ Told(inbox[t])
                  /\ \A s \in Tabs \ {t} : Heard(open[s], present[t], inbox[t], s)
                  /\ Settled(t) /\ present[t] = {} => ~online[t]

PeerInv == PeerTypes /\ Alone /\ \A t \in Tabs : PeerOK(t)

-----------------------------------------------------------------------------
(* What a queue says of the tabs: of one followed by another, of one without   *)
(* news of presence, and of one whose head has been taken.                     *)

LEMMA JoinedSays ==
  ASSUME NEW p, NEW q, IsQueue(p), IsQueue(q), NEW s
  PROVE  /\ \A k : Says(p \o q, k, s) <=> Says(p, k, s) \/ Says(q, k, s)
         /\ ~Says(q, "here", s) /\ SaysGone(p, s) => SaysGone(p \o q, s)
         /\ SaysGone(q, s) => SaysGone(p \o q, s)
         /\ Synced(p \o q) => Synced(p)
<1>1. PICK S : p \in Seq(S)
  BY DEF IsQueue
<1>2. PICK R : q \in Seq(R)
  BY DEF IsQueue
<1>3. p \in Seq(S \union R) /\ q \in Seq(S \union R)
  BY <1>1, <1>2
<1> DEFINE c == p \o q
<1>4. c \in Seq(S \union R) /\ Len(c) = Len(p) + Len(q) /\ Len(p) \in Nat /\ Len(q) \in Nat
  BY <1>3
<1>5. ASSUME NEW i \in 1..Len(p) PROVE i \in 1..Len(c) /\ c[i] = p[i]
  BY <1>3, <1>4
<1>6. ASSUME NEW i \in 1..Len(q) PROVE Len(p) + i \in 1..Len(c) /\ c[Len(p) + i] = q[i]
  BY <1>3, <1>4
<1>7. ASSUME NEW i \in 1..Len(c)
      PROVE  \/ i \in 1..Len(p) /\ c[i] = p[i]
             \/ i - Len(p) \in 1..Len(q) /\ c[i] = q[i - Len(p)] /\ i > Len(p)
  BY <1>3, <1>4
<1> HIDE DEF c
<1>8. ASSUME NEW k PROVE Says(c, k, s) <=> Says(p, k, s) \/ Says(q, k, s)
  <2>1. Says(c, k, s) => Says(p, k, s) \/ Says(q, k, s)
    BY <1>7 DEF Says
  <2>2. Says(p, k, s) => Says(c, k, s)
    BY <1>5 DEF Says
  <2>3. ASSUME NEW i \in 1..Len(q), IsOf(q[i], k, s) PROVE Says(c, k, s)
    <3>1. Len(p) + i \in 1..Len(c) /\ IsOf(c[Len(p) + i], k, s)
      BY <1>6, <2>3
    <3>. QED BY <3>1 DEF Says
  <2>. QED BY <2>1, <2>2, <2>3 DEF Says
<1>9. ASSUME ~Says(q, "here", s), SaysGone(p, s) PROVE SaysGone(c, s)
  <2>1. PICK i \in 1..Len(p) : /\ IsOf(p[i], "gone", s)
                               /\ \A k \in 1..Len(p) : IsOf(p[k], "here", s) => k < i
    BY <1>9 DEF SaysGone
  <2>2. ASSUME NEW k \in 1..Len(c), IsOf(c[k], "here", s) PROVE k < i
    <3>1. k \in 1..Len(p) /\ c[k] = p[k]
      BY <1>7, <1>9, <2>2 DEF Says
    <3>. QED BY <2>1, <2>2, <3>1
  <2>3. i \in 1..Len(c) /\ IsOf(c[i], "gone", s)
    BY <1>5, <2>1
  <2>. QED BY <2>2, <2>3 DEF SaysGone
<1>10. ASSUME SaysGone(q, s) PROVE SaysGone(c, s)
  <2>1. PICK i \in 1..Len(q) : /\ IsOf(q[i], "gone", s)
                               /\ \A k \in 1..Len(q) : IsOf(q[k], "here", s) => k < i
    BY <1>10 DEF SaysGone
  <2>2. ASSUME NEW k \in 1..Len(c), IsOf(c[k], "here", s) PROVE k < Len(p) + i
    <3>1. CASE k \in 1..Len(p)
      BY <1>4, <3>1
    <3>2. CASE k - Len(p) \in 1..Len(q) /\ c[k] = q[k - Len(p)]
      <4>1. k - Len(p) < i
        BY <2>1, <2>2, <3>2
      <4>. QED BY <1>4, <4>1
    <3>. QED BY <1>7, <3>1, <3>2
  <2>3. Len(p) + i \in 1..Len(c) /\ IsOf(c[Len(p) + i], "gone", s)
    BY <1>6, <2>1
  <2>. QED BY <2>2, <2>3 DEF SaysGone
<1>11. Synced(c) => Synced(p)
  BY <1>5 DEF Synced
<1>. QED BY <1>8, <1>9, <1>10, <1>11 DEF c

LEMMA RestSays ==
  ASSUME NEW q, IsQueue(q), q # <<>>, NEW s
  PROVE  /\ \A k : Says(q, k, s) <=> IsOf(Head(q), k, s) \/ Says(Tail(q), k, s)
         /\ SaysGone(q, s) => \/ SaysGone(Tail(q), s)
                              \/ IsOf(Head(q), "gone", s) /\ ~Says(Tail(q), "here", s)
         /\ Synced(Tail(q)) /\ Head(q).kind # "sync" => Synced(q)
<1>1. PICK S : q \in Seq(S)
  BY DEF IsQueue
<1> DEFINE r == Tail(q)
<1>2. /\ r \in Seq(S) /\ Len(r) = Len(q) - 1 /\ Len(q) \in Nat \ {0} /\ Head(q) = q[1]
      /\ 1 \in 1..Len(q)
  BY <1>1
<1>3. ASSUME NEW i \in 1..Len(r) PROVE i + 1 \in 1..Len(q) /\ r[i] = q[i + 1]
  BY <1>1, <1>2
<1>4. ASSUME NEW i \in 1..Len(q), i # 1 PROVE i - 1 \in 1..Len(r) /\ r[i - 1] = q[i]
  <2>1. i - 1 \in 1..Len(r) /\ (i - 1) + 1 = i
    BY <1>2, <1>4
  <2>. QED BY <1>3, <2>1
<1> HIDE DEF r
<1>5. ASSUME NEW k PROVE Says(q, k, s) <=> IsOf(Head(q), k, s) \/ Says(r, k, s)
  <2>1. ASSUME NEW i \in 1..Len(q), IsOf(q[i], k, s), i # 1 PROVE Says(r, k, s)
    <3>1. i - 1 \in 1..Len(r) /\ IsOf(r[i - 1], k, s)
      BY <1>4, <2>1
    <3>. QED BY <3>1 DEF Says
  <2>2. ASSUME NEW i \in 1..Len(r), IsOf(r[i], k, s) PROVE Says(q, k, s)
    <3>1. i + 1 \in 1..Len(q) /\ IsOf(q[i + 1], k, s)
      BY <1>3, <2>2
    <3>. QED BY <3>1 DEF Says
  <2>. QED BY <1>2, <2>1, <2>2 DEF Says
<1>6. ASSUME SaysGone(q, s)
      PROVE  SaysGone(r, s) \/ (IsOf(Head(q), "gone", s) /\ ~Says(r, "here", s))
  <2>1. PICK i \in 1..Len(q) : /\ IsOf(q[i], "gone", s)
                               /\ \A k \in 1..Len(q) : IsOf(q[k], "here", s) => k < i
    BY <1>6 DEF SaysGone
  <2>2. ASSUME NEW k \in 1..Len(r), IsOf(r[k], "here", s) PROVE k + 1 < i
    <3>1. k + 1 \in 1..Len(q) /\ IsOf(q[k + 1], "here", s)
      BY <1>3, <2>2
    <3>. QED BY <2>1, <3>1
  <2>3. CASE i = 1
    <3>1. ~Says(r, "here", s)
      BY <1>2, <2>2, <2>3 DEF Says
    <3>. QED BY <1>2, <2>1, <2>3, <3>1
  <2>4. CASE i # 1
    <3>1. i - 1 \in 1..Len(r) /\ IsOf(r[i - 1], "gone", s)
      BY <1>4, <2>1, <2>4
    <3>2. \A k \in 1..Len(r) : IsOf(r[k], "here", s) => k < i - 1
      BY <1>2, <2>2
    <3>. QED BY <3>1, <3>2 DEF SaysGone
  <2>. QED BY <2>3, <2>4
<1>7. ASSUME Synced(r), Head(q).kind # "sync" PROVE Synced(q)
  BY <1>2, <1>4, <1>7 DEF Synced
<1>. QED BY <1>5, <1>6, <1>7 DEF r

LEMMA OneSays ==
  ASSUME NEW m, NEW s
  PROVE  /\ \A k : Says(<<m>>, k, s) <=> IsOf(m, k, s)
         /\ IsOf(m, "gone", s) => SaysGone(<<m>>, s)
  BY DEF Says, SaysGone, IsOf

(* Other messages do not matter. *)
Plain(ms) == \A i \in 1..Len(ms) : ms[i].kind \notin {"here", "gone"}
Same(p, q) == /\ \A s : /\ Says(q, "here", s) <=> Says(p, "here", s)
                        /\ Says(q, "gone", s) <=> Says(p, "gone", s)
                        /\ SaysGone(p, s) => SaysGone(q, s)
              /\ Synced(q) => Synced(p)

LEMMA PlainSays == ASSUME NEW m, Plain(m), NEW s PROVE ~Says(m, "here", s) /\ ~Says(m, "gone", s)
  BY DEF Plain, Says, IsOf

LEMMA PlainIsSame ==
  ASSUME NEW q, NEW m, IsQueue(q), IsQueue(m), Plain(m) PROVE Same(q, q \o m)
  BY JoinedSays, PlainSays DEF Same

LEMMA TakenIsSame ==
  ASSUME NEW q, IsQueue(q), q # <<>>, Head(q).kind \notin {"here", "gone", "sync"}
  PROVE  Same(q, Tail(q))
<1>1. ASSUME NEW s PROVE ~IsOf(Head(q), "here", s) /\ ~IsOf(Head(q), "gone", s)
  BY DEF IsOf
<1>. QED BY <1>1, RestSays DEF Same

LEMMA DocumentsArePlain == ASSUME NEW rs, IsQueue(rs) PROVE IsQueue(DocMsgs(rs)) /\ Plain(DocMsgs(rs))
<1>1. PICK S : rs \in Seq(S)
  BY DEF IsQueue
<1>2. /\ DocMsgs(rs) \in Seq({[kind |-> "doc", regs |-> x] : x \in S})
      /\ \A i \in 1..Len(DocMsgs(rs)) : DocMsgs(rs)[i] = [kind |-> "doc", regs |-> rs[i]]
  BY <1>1 DEF DocMsgs
<1>. QED BY <1>2 DEF IsQueue, Plain

LEMMA HeardStill ==
  ASSUME NEW o, NEW P, NEW p, NEW q, NEW s, Heard(o, P, p, s), Same(p, q)
  PROVE  Heard(o, P, q, s)
  BY DEF Heard, Same

(* A tab that joins, and one that goes. *)
LEMMA HeardJoining ==
  ASSUME NEW P, NEW q, IsQueue(q), NEW s, Heard("not yet", P, q, s)
  PROVE  Heard("open", P, q \o <<Joins(s)>>, s)
<1>1. IsOf(Joins(s), "here", s) /\ ~IsOf(Joins(s), "gone", s)
  BY DEF IsOf, Joins
<1>. QED BY <1>1, Single, OneSays, JoinedSays DEF Heard

LEMMA HeardLeaving ==
  ASSUME NEW P, NEW q, IsQueue(q), NEW s
  PROVE  Heard("left", P, q \o <<Gone(s)>>, s)
<1>1. IsOf(Gone(s), "gone", s)
  BY DEF IsOf, Gone
<1>. QED BY <1>1, Single, OneSays, JoinedSays DEF Heard

LEMMA HeardOfOthers ==
  ASSUME NEW o, NEW P, NEW q, IsQueue(q), NEW s, Heard(o, P, q, s),
         NEW m, ~IsOf(m, "here", s), ~IsOf(m, "gone", s)
  PROVE  Heard(o, P, q \o <<m>>, s)
  BY Single, OneSays, JoinedSays DEF Heard

(* A page takes what it is told. *)
After(P, m) == IF m.kind = "here" THEN P \union {m.val} ELSE P \ {m.val}

LEMMA HeardTaken ==
  ASSUME NEW o, NEW P, NEW q, IsQueue(q), q # <<>>, NEW s, Heard(o, P, q, s),
         Head(q).kind \in {"here", "gone"}
  PROVE  Heard(o, After(P, Head(q)), Tail(q), s)
<1> DEFINE m == Head(q)
           r == Tail(q)
<1>1. /\ Says(q, "here", s) <=> IsOf(m, "here", s) \/ Says(r, "here", s)
      /\ Says(q, "gone", s) <=> IsOf(m, "gone", s) \/ Says(r, "gone", s)
      /\ SaysGone(q, s) => \/ SaysGone(r, s)
                           \/ IsOf(m, "gone", s) /\ ~Says(r, "here", s)
  BY RestSays
<1> HIDE DEF r
<1>2. CASE IsOf(m, "here", s)
  <2>1. s \in After(P, m) /\ ~IsOf(m, "gone", s)
    BY <1>2 DEF After, IsOf
  <2>. QED BY <1>1, <1>2, <2>1 DEF Heard, r
<1>3. CASE IsOf(m, "gone", s)
  <2>1. s \notin After(P, m) /\ ~IsOf(m, "here", s)
    BY <1>3 DEF After, IsOf
  <2>. QED BY <1>1, <1>3, <2>1 DEF Heard, r
<1>4. CASE ~IsOf(m, "here", s) /\ ~IsOf(m, "gone", s)
  <2>1. s \in After(P, m) <=> s \in P
    BY <1>4 DEF After, IsOf
  <2>. QED BY <1>1, <1>4, <2>1 DEF Heard, r
<1>. QED BY <1>2, <1>3, <1>4

-----------------------------------------------------------------------------
(* The steps that say nothing of presence, and those that take in what is said *)
(* of it: the sync, the awareness, the debounce and the report.                *)

IsQueues == inbox = [u \in Tabs |-> inbox[u]] /\ \A u \in Tabs : IsQueue(inbox[u])

LEMMA ForwardsPlain ==
  ASSUME IsQueues, NEW t \in Tabs, NEW ms, IsQueue(ms), Plain(ms),
         NEW rest, Same(inbox[t], rest), Forward(t, ms, rest), NEW u \in Tabs
  PROVE  Same(inbox[u], inbox'[u])
<1>1. Same(inbox[u], inbox[u])
  BY DEF Same
<1>2. Same(inbox[u], inbox[u] \o ms)
  BY PlainIsSame DEF IsQueues
<1>3. u # t => inbox'[u] = IF Here(u) THEN inbox[u] \o ms ELSE inbox[u]
  BY ForwardIs
<1>4. inbox'[t] = rest
  BY ForwardIs
<1>. QED BY <1>1, <1>2, <1>3, <1>4

(* Steps that tell nothing about who is there. *)
LEMMA SamePeers ==
  ASSUME PeerInv, UNCHANGED <<open, peerVars>>, \A u \in Tabs : Same(inbox[u], inbox'[u])
  PROVE  PeerInv'
<1>1. UNCHANGED <<open, present, joined, online, armed, asking>>
  BY DEF peerVars
<1>2. PeerTypes' /\ Alone' /\ \A u \in Tabs : Here(u)' = Here(u)
  BY <1>1 DEF PeerInv, PeerTypes, Alone, Here
<1>3. ASSUME NEW t \in Tabs PROVE PeerOK(t)'
  <2>1. PeerOK(t) /\ Same(inbox[t], inbox'[t])
    BY DEF PeerInv
  <2>2. ASSUME Here(t), NEW s \in Tabs \ {t} PROVE Heard(open'[s], present'[t], inbox'[t], s)
    <3>1. Heard(open[s], present[t], inbox[t], s)
      BY <2>1, <2>2 DEF PeerOK
    <3>. QED BY <1>1, <2>1, <3>1, HeardStill
  <2>3. Here(t) => ~Says(inbox'[t], "here", t) /\ Told(inbox'[t])
    BY <2>1 DEF PeerOK, Same, Told
  <2>4. Settled(t)' => Settled(t)
    BY <1>1, <2>1 DEF Same, Settled
  <2>. QED BY <1>1, <1>2, <2>1, <2>2, <2>3, <2>4 DEF PeerOK
<1>. QED BY <1>2, <1>3 DEF PeerInv

(* Only the judgement of tab t changes. *)
LEMMA JudgedPeers ==
  ASSUME PeerInv, NEW t \in Tabs, UNCHANGED <<open, inbox, present, joined>>,
         online' = [online EXCEPT ![t] = online'[t]], armed' = [armed EXCEPT ![t] = armed'[t]],
         asking' = [asking EXCEPT ![t] = asking'[t]],
         Here(t), online'[t] \in BOOLEAN, armed'[t] \in BOOLEAN, asking'[t] \in Nat,
         present[t] # {} => online'[t],
         Settled(t)' /\ present[t] = {} => ~online'[t]
  PROVE  PeerInv'
<1>1. PeerTypes' /\ Alone' /\ \A u \in Tabs : Here(u)' = Here(u)
  BY DEF PeerInv, PeerTypes, Alone, Here
<1>2. ASSUME NEW u \in Tabs \ {t}
      PROVE  online'[u] = online[u] /\ armed'[u] = armed[u] /\ asking'[u] = asking[u]
  BY DEF PeerInv, PeerTypes
<1>3. PeerOK(t)'
  <2>1. PeerOK(t) /\ open[t] # "not yet"
    BY DEF PeerInv, Here
  <2>. QED BY <1>1, <2>1 DEF PeerOK
<1>4. ASSUME NEW u \in Tabs \ {t} PROVE PeerOK(u)'
  <2>1. PeerOK(u)
    BY DEF PeerInv
  <2>2. Settled(u)' => Settled(u)
    BY <1>2 DEF Settled
  <2>. QED BY <1>1, <1>2, <2>1, <2>2 DEF PeerOK
<1>. QED BY <1>1, <1>3, <1>4 DEF PeerInv

LEMMA DebounceKeeps == ASSUME PeerInv, NEW t \in Tabs, DebounceOver(t) PROVE PeerInv'
<1>1. /\ Here(t) /\ armed[t] /\ armed' = [armed EXCEPT ![t] = FALSE]
      /\ UNCHANGED <<open, inbox, present, joined>>
  BY DEF DebounceOver, OnlyPeer, runVars
<1>2. PeerTypes
  BY DEF PeerInv
<1>3. CASE present[t] # {}
  <2>1. online' = [online EXCEPT ![t] = TRUE] /\ asking' = asking
    BY <1>3 DEF DebounceOver
  <2>. QED BY <1>1, <1>2, <1>3, <2>1, JudgedPeers DEF PeerTypes
<1>4. CASE present[t] = {}
  <2>1. asking' = [asking EXCEPT ![t] = asking[t] + 1] /\ online' = online
    BY <1>4 DEF DebounceOver
  <2>2. asking'[t] # 0
    BY <1>2, <2>1 DEF PeerTypes
  <2>3. ~Settled(t)'
    BY <2>2 DEF Settled
  <2>4. /\ online' = [online EXCEPT ![t] = online'[t]] /\ online'[t] \in BOOLEAN
        /\ armed' = [armed EXCEPT ![t] = armed'[t]] /\ armed'[t] \in BOOLEAN
        /\ asking' = [asking EXCEPT ![t] = asking'[t]] /\ asking'[t] \in Nat
    BY <1>1, <1>2, <2>1 DEF PeerTypes
  <2>. QED BY <1>1, <1>4, <2>3, <2>4, JudgedPeers
<1>. QED BY <1>3, <1>4

LEMMA ReportKeeps == ASSUME PeerInv, NEW t \in Tabs, ReportOffline(t) PROVE PeerInv'
<1>1. /\ Here(t) /\ asking[t] > 0 /\ armed' = armed
      /\ asking' = [asking EXCEPT ![t] = asking[t] - 1]
      /\ online' = [online EXCEPT ![t] = (present[t] # {})]
      /\ UNCHANGED <<open, inbox, present, joined>>
  BY DEF ReportOffline, OnlyPeer, runVars
<1>2. PeerTypes
  BY DEF PeerInv
<1>3. asking'[t] \in Nat /\ online'[t] = (present[t] # {})
  BY <1>1, <1>2 DEF PeerTypes
<1>. QED BY <1>1, <1>2, <1>3, JudgedPeers DEF PeerTypes

(* The answer of the server to the first sync. *)
LEMMA SyncKeepsPeers ==
  ASSUME PeerInv, IsQueues, NEW t \in Tabs, ReceiveSync(t) PROVE PeerInv'
<1> DEFINE r == Merge(map[t], Head(inbox[t]).regs)
           ran == IF MustExecute(t, r) THEN <<Executing(t, r)>> ELSE <<>>
<1>1. /\ Here(t) /\ inbox[t] # <<>> /\ Head(inbox[t]).kind = "sync"
      /\ Forward(t, DocMsgs(ran), Tail(inbox[t]))
      /\ online' = [online EXCEPT ![t] = online[t] /\ present[t] # {}]
      /\ UNCHANGED <<open, present, joined, armed, asking>>
  BY DEF ReceiveSync, Receive
<1>2. IsQueue(DocMsgs(ran)) /\ Plain(DocMsgs(ran))
  <2>1. IsQueue(ran)
    BY EmptyQueue, Single
  <2>. QED BY <2>1, DocumentsArePlain
<1> HIDE DEF ran
<1>3. ASSUME NEW u \in Tabs \ {t} PROVE Same(inbox[u], inbox'[u])
  <2>1. inbox'[u] = IF Here(u) THEN inbox[u] \o DocMsgs(ran) ELSE inbox[u]
    BY <1>1, ForwardIs
  <2>2. Same(inbox[u], inbox[u]) /\ Same(inbox[u], inbox[u] \o DocMsgs(ran))
    BY <1>2, PlainIsSame DEF IsQueues, Same
  <2>. QED BY <2>1, <2>2
<1>4. inbox'[t] = Tail(inbox[t])
  BY <1>1, ForwardIs
<1>5. ASSUME NEW s
      PROVE  /\ Says(inbox'[t], "here", s) <=> Says(inbox[t], "here", s)
             /\ Says(inbox'[t], "gone", s) <=> Says(inbox[t], "gone", s)
             /\ SaysGone(inbox[t], s) => SaysGone(inbox'[t], s)
  <2>1. ~IsOf(Head(inbox[t]), "here", s) /\ ~IsOf(Head(inbox[t]), "gone", s)
    BY <1>1 DEF IsOf
  <2>2. IsQueue(inbox[t]) /\ inbox[t] # <<>>
    BY <1>1 DEF IsQueues
  <2>3. /\ Says(Tail(inbox[t]), "here", s) <=> Says(inbox[t], "here", s)
        /\ Says(Tail(inbox[t]), "gone", s) <=> Says(inbox[t], "gone", s)
    BY <2>1, <2>2, RestSays
  <2>4. SaysGone(inbox[t], s) => SaysGone(Tail(inbox[t]), s)
    BY <2>1, <2>2, RestSays
  <2>. QED BY <1>4, <2>3, <2>4
<1>6. PeerTypes' /\ Alone' /\ \A u \in Tabs : Here(u)' = Here(u)
  BY <1>1 DEF PeerInv, PeerTypes, Alone, Here
<1>7. PeerTypes
  BY DEF PeerInv
<1>8. PeerOK(t)'
  <2>1. PeerOK(t) /\ open[t] # "not yet"
    BY <1>1 DEF PeerInv, Here
  <2>2. \A s \in Tabs \ {t} : Heard(open'[s], present'[t], inbox'[t], s)
    BY <1>1, <1>5, <2>1 DEF PeerOK, Heard
  <2>3. ~Says(inbox'[t], "here", t) /\ Told(inbox'[t])
    BY <1>1, <1>5, <2>1 DEF PeerOK, Told
  <2>4. online'[t] <=> (online[t] /\ present[t] # {})
    BY <1>1, <1>7 DEF PeerTypes
  <2>. QED BY <1>1, <2>1, <2>2, <2>3, <2>4 DEF PeerOK
<1>9. ASSUME NEW u \in Tabs \ {t} PROVE PeerOK(u)'
  <2>1. PeerOK(u) /\ Same(inbox[u], inbox'[u]) /\ online'[u] = online[u]
    BY <1>1, <1>3, <1>7 DEF PeerInv, PeerTypes
  <2>2. ASSUME Here(u), NEW s \in Tabs \ {u} PROVE Heard(open'[s], present'[u], inbox'[u], s)
    <3>1. Heard(open[s], present[u], inbox[u], s)
      BY <2>1, <2>2 DEF PeerOK
    <3>. QED BY <1>1, <2>1, <3>1, HeardStill
  <2>3. Here(u) => ~Says(inbox'[u], "here", u) /\ Told(inbox'[u])
    BY <2>1 DEF PeerOK, Same, Told
  <2>4. Settled(u)' => Settled(u)
    BY <1>1, <2>1 DEF Same, Settled
  <2>. QED BY <1>1, <1>6, <2>1, <2>2, <2>3, <2>4 DEF PeerOK
<1>. QED BY <1>6, <1>8, <1>9 DEF PeerInv

LEMMA PresenceKeepsPeers ==
  ASSUME PeerInv, IsQueues, NEW t \in Tabs, ReceivePresence(t) PROVE PeerInv'
<1> DEFINE m == Head(inbox[t])
           now == After(present[t], m)
<1>1. /\ Here(t) /\ inbox[t] # <<>> /\ m.kind \in {"here", "gone"}
      /\ present' = [present EXCEPT ![t] = now]
      /\ joined' = [joined EXCEPT ![t] = joined[t] \/ now # {}]
      /\ online' = [online EXCEPT ![t] = online[t] \/ now # {}]
      /\ armed' = [armed EXCEPT ![t] = IF now # {} THEN FALSE ELSE joined[t] \/ armed[t]]
      /\ inbox' = [inbox EXCEPT ![t] = Tail(inbox[t])]
      /\ UNCHANGED <<open, asking>>
  BY DEF ReceivePresence, Receive, After
<1>2. PeerTypes /\ PeerOK(t) /\ IsQueue(inbox[t]) /\ open[t] # "not yet"
  BY <1>1 DEF PeerInv, IsQueues, Here
<1>3. \A s : /\ Says(inbox[t], "here", s) <=> IsOf(m, "here", s) \/ Says(Tail(inbox[t]), "here", s)
  BY <1>1, <1>2, RestSays
<1>4. now \subseteq Tabs /\ t \notin now
  <2>1. CASE m.kind = "here"
    <3>1. Says(inbox[t], "here", m.val)
      BY <1>3, <2>1 DEF IsOf
    <3>2. m.val \in Tabs /\ m.val # t
      BY <1>1, <1>2, <3>1 DEF PeerOK, Told
    <3>. QED BY <1>1, <1>2, <2>1, <3>2 DEF After, PeerOK, PeerTypes
  <2>2. CASE m.kind = "gone"
    BY <1>1, <1>2, <2>2 DEF After, PeerOK, PeerTypes
  <2>. QED BY <1>1, <2>1, <2>2
<1>5. ASSUME NEW s \in Tabs \ {t} PROVE Heard(open[s], now, Tail(inbox[t]), s)
  <2>1. Heard(open[s], present[t], inbox[t], s)
    BY <1>1, <1>2 DEF PeerOK
  <2>. QED BY <1>1, <1>2, <2>1, HeardTaken
<1>6. Synced(Tail(inbox[t])) => Synced(inbox[t])
  BY <1>1, <1>2, RestSays
<1> HIDE DEF now
<1>7. /\ PeerTypes' /\ Alone' /\ \A u \in Tabs : Here(u)' = Here(u)
  BY <1>1, <1>2, <1>4 DEF PeerInv, PeerTypes, Alone, Here
<1>8. /\ present'[t] = now /\ joined'[t] = (joined[t] \/ now # {})
      /\ online'[t] = (online[t] \/ now # {})
      /\ armed'[t] = IF now # {} THEN FALSE ELSE joined[t] \/ armed[t]
  BY <1>1, <1>2 DEF PeerTypes
<1>9. inbox'[t] = Tail(inbox[t]) /\ \A u \in Tabs \ {t} : inbox'[u] = inbox[u]
  BY <1>1 DEF IsQueues
<1>10. PeerOK(t)'
  <2>1. Here(t) => /\ t \notin now /\ ~Says(Tail(inbox[t]), "here", t) /\ Told(Tail(inbox[t]))
                   /\ \A s \in Tabs \ {t} : Heard(open[s], now, Tail(inbox[t]), s)
    BY <1>2, <1>3, <1>4, <1>5 DEF PeerOK, Told
  <2>2. ASSUME Settled(t)', now = {} PROVE ~online'[t]
    <3>1. ~armed'[t] /\ asking[t] = 0 /\ Synced(Tail(inbox[t]))
      BY <1>1, <1>9, <2>2 DEF Settled
    <3>2. ~joined[t] /\ ~armed[t]
      BY <1>8, <2>2, <3>1
    <3>3. present[t] = {} /\ Settled(t)
      BY <1>2, <1>6, <3>1, <3>2 DEF PeerOK, Settled
    <3>. QED BY <1>1, <1>2, <1>8, <2>2, <3>3 DEF PeerOK
  <2>. QED BY <1>1, <1>2, <1>7, <1>8, <1>9, <2>1, <2>2 DEF PeerOK
<1>11. ASSUME NEW u \in Tabs \ {t} PROVE PeerOK(u)'
  <2>1. /\ present'[u] = present[u] /\ joined'[u] = joined[u] /\ online'[u] = online[u]
        /\ armed'[u] = armed[u] /\ asking'[u] = asking[u] /\ inbox'[u] = inbox[u]
    BY <1>1, <1>2, <1>9 DEF PeerTypes
  <2>2. PeerOK(u)
    BY DEF PeerInv
  <2>3. Settled(u)' => Settled(u)
    BY <2>1 DEF Settled
  <2>. QED BY <1>1, <1>7, <2>1, <2>2, <2>3 DEF PeerOK
<1>. QED BY <1>7, <1>10, <1>11 DEF PeerInv

-----------------------------------------------------------------------------
(* Leaving and coming back, and every other step of the pages.                 *)

(* The other pages are told of tab t. *)
LEMMA OneTold ==
  ASSUME PeerInv, IsQueues, NEW t \in Tabs, NEW m, m.kind \in {"here", "gone"}, m.val = t,
         NEW rest, Forward(t, <<m>>, rest), NEW u \in Tabs \ {t}, Here(u), PeerOK(u)
  PROVE  /\ inbox'[u] = inbox[u] \o <<m>> /\ IsQueue(inbox[u])
         /\ ~Says(inbox'[u], "here", u) /\ Told(inbox'[u])
         /\ Synced(inbox'[u]) => Synced(inbox[u])
         /\ \A s \in Tabs \ {u, t} : Heard(open[s], present[u], inbox'[u], s)
<1>1. inbox'[u] = inbox[u] \o <<m>> /\ IsQueue(inbox[u]) /\ IsQueue(<<m>>)
  BY ForwardIs, Single DEF IsQueues
<1>2. \A s : Says(inbox'[u], "here", s) <=> Says(inbox[u], "here", s) \/ IsOf(m, "here", s)
  <2>1. ASSUME NEW s
        PROVE  Says(inbox'[u], "here", s) <=> Says(inbox[u], "here", s) \/ Says(<<m>>, "here", s)
    BY <1>1, JoinedSays
  <2>2. ASSUME NEW s PROVE Says(<<m>>, "here", s) <=> IsOf(m, "here", s)
    BY OneSays
  <2>. QED BY <2>1, <2>2
<1>3. ASSUME NEW s, s # t PROVE ~IsOf(m, "here", s) /\ ~IsOf(m, "gone", s)
  BY <1>3 DEF IsOf
<1>4. ~Says(inbox'[u], "here", u)
  BY <1>2, <1>3 DEF PeerOK
<1>5. Told(inbox'[u])
  BY <1>2, <1>3 DEF PeerOK, Told
<1>6. Synced(inbox'[u]) => Synced(inbox[u])
  BY <1>1, JoinedSays
<1>7. ASSUME NEW s \in Tabs \ {u, t} PROVE Heard(open[s], present[u], inbox'[u], s)
  <2>1. Heard(open[s], present[u], inbox[u], s)
    BY DEF PeerOK
  <2>. QED BY <1>1, <1>3, <2>1, HeardOfOthers
<1>. QED BY <1>1, <1>4, <1>5, <1>6, <1>7

LEMMA LeaveKeepsPeers ==
  ASSUME PeerInv, IsQueues, NEW t \in Tabs, Leave(t) PROVE PeerInv'
<1>1. /\ Here(t) /\ open' = [open EXCEPT ![t] = "left"] /\ Forward(t, <<Gone(t)>>, <<>>)
      /\ armed' = [armed EXCEPT ![t] = FALSE] /\ asking' = [asking EXCEPT ![t] = 0]
      /\ UNCHANGED <<present, joined, online>>
  BY DEF Leave
<1>2. PeerTypes /\ Alone
  BY DEF PeerInv
<1>3. open'[t] = "left" /\ \A u \in Tabs \ {t} : open'[u] = open[u]
  BY <1>1, <1>2 DEF PeerTypes
<1>4. ~Here(t)' /\ \A u \in Tabs \ {t} : Here(u)' = Here(u)
  BY <1>3 DEF Here
<1>5. PeerTypes'
  BY <1>1, <1>2 DEF PeerTypes
<1>6. Alone'
  BY <1>2, <1>4 DEF Alone
<1>7. PeerOK(t)'
  <2>1. PeerOK(t)
    BY DEF PeerInv
  <2>. QED BY <1>1, <1>3, <1>4, <2>1 DEF PeerOK
<1>8. ASSUME NEW u \in Tabs \ {t} PROVE PeerOK(u)'
  <2>1. PeerOK(u) /\ armed'[u] = armed[u] /\ asking'[u] = asking[u]
    BY <1>1, <1>2 DEF PeerInv, PeerTypes
  <2>2. ASSUME Here(u)
        PROVE  /\ ~Says(inbox'[u], "here", u) /\ Told(inbox'[u])
               /\ \A s \in Tabs \ {u} : Heard(open'[s], present[u], inbox'[u], s)
               /\ Settled(u)' => Settled(u)
    <3>1. Gone(t).kind \in {"here", "gone"} /\ Gone(t).val = t
      BY DEF Gone
    <3>2. /\ inbox'[u] = inbox[u] \o <<Gone(t)>> /\ IsQueue(inbox[u])
          /\ ~Says(inbox'[u], "here", u) /\ Told(inbox'[u])
          /\ Synced(inbox'[u]) => Synced(inbox[u])
          /\ \A s \in Tabs \ {u, t} : Heard(open[s], present[u], inbox'[u], s)
      <4>1. Forward(t, <<Gone(t)>>, <<>>)
        BY <1>1
      <4>. QED BY <2>1, <2>2, <3>1, <4>1, OneTold
    <3>3. Heard("left", present[u], inbox'[u], t)
      BY <3>2, HeardLeaving
    <3>. QED BY <1>3, <2>1, <3>2, <3>3 DEF Settled
  <2>. QED BY <1>1, <1>3, <1>4, <2>1, <2>2 DEF PeerOK
<1>. QED BY <1>5, <1>6, <1>7, <1>8 DEF PeerInv

(* The awareness that a page is sent when it is opened. *)
LEMMA OpeningSays ==
  ASSUME NEW g, NEW s
  PROVE  LET q == <<[kind |-> "sync", regs |-> g]>>
         IN  /\ IsQueue(q) /\ ~Synced(q)
             /\ \A u : ~Says(q, "here", u) /\ ~Says(q, "gone", u)
             /\ IsQueue(<<Joins(s)>> \o q) /\ ~Synced(<<Joins(s)>> \o q)
             /\ \A u : /\ Says(<<Joins(s)>> \o q, "here", u) <=> u = s
                       /\ ~Says(<<Joins(s)>> \o q, "gone", u)
<1> DEFINE m == [kind |-> "sync", regs |-> g]
           q == <<m>>
           p == <<Joins(s)>>
<1>1. m.kind = "sync"
  OBVIOUS
<1> HIDE DEF m
<1>2. IsQueue(q) /\ IsQueue(p) /\ IsQueue(p \o q)
  BY Single, JoinedQueues
<1>3. \A u : ~Says(q, "here", u) /\ ~Says(q, "gone", u)
  BY <1>1, OneSays DEF IsOf
<1>4. \A u : /\ Says(p, "here", u) <=> u = s
             /\ ~Says(p, "gone", u)
  BY OneSays DEF IsOf, Joins
<1>5. \A u : /\ Says(p \o q, "here", u) <=> u = s
             /\ ~Says(p \o q, "gone", u)
  BY <1>2, <1>3, <1>4, JoinedSays
<1>6. Len(p \o q) = 2 /\ (p \o q)[2] = m
  <2>1. p \in Seq({Joins(s), m}) /\ q \in Seq({Joins(s), m}) /\ Len(p) = 1 /\ Len(q) = 1 /\ q[1] = m
    OBVIOUS
  <2>. QED BY <2>1
<1>7. ~Synced(p \o q) /\ ~Synced(q)
  BY <1>1, <1>6 DEF Synced
<1>. QED BY <1>2, <1>3, <1>5, <1>7 DEF m

LEMMA OpenKeepsPeers ==
  ASSUME PeerInv, IsQueues, NEW t \in Tabs, Open(t) PROVE PeerInv'
<1> DEFINE others == {s \in Tabs : Here(s)}
           here == IF others = {} THEN <<>> ELSE <<Joins(CHOOSE s \in others : TRUE)>>
           rest == here \o <<[kind |-> "sync", regs |-> doc]>>
<1>1. /\ open[t] = "not yet" /\ open' = [open EXCEPT ![t] = "open"]
      /\ \A s \in others : Owner[s] # Owner[t]
      /\ Forward(t, <<Joins(t)>>, rest)
      /\ UNCHANGED <<present, joined, online, armed, asking>>
  BY DEF Open, peerVars
<1>2. PeerTypes /\ Alone /\ PeerOK(t) /\ t \notin others
  BY <1>1 DEF PeerInv, Here
<1>3. \A s, u \in others : s = u
  BY <1>1, <1>2, TwoUsers DEF Alone
<1>4. /\ ~Synced(rest) /\ \A u : ~Says(rest, "gone", u)
      /\ \A u : Says(rest, "here", u) <=> u \in others
  <2>1. CASE others = {}
    <3>1. rest = <<[kind |-> "sync", regs |-> doc]>>
      BY <2>1
    <3> HIDE DEF rest
    <3>2. \A u : ~Says(rest, "here", u) /\ ~Says(rest, "gone", u)
      <4>1. \A u : /\ ~Says(<<[kind |-> "sync", regs |-> doc]>>, "here", u)
                   /\ ~Says(<<[kind |-> "sync", regs |-> doc]>>, "gone", u)
        BY OpeningSays
      <4>. QED BY <3>1, <4>1
    <3>3. ~Synced(rest)
      BY <3>1, OpeningSays
    <3>. QED BY <2>1, <3>2, <3>3
  <2>2. CASE others # {}
    <3>1. PICK c \in others : rest = <<Joins(c)>> \o <<[kind |-> "sync", regs |-> doc]>>
      BY <2>2
    <3>2. others = {c}
      BY <1>3
    <3>. QED BY <3>1, <3>2, OpeningSays
  <2>. QED BY <2>1, <2>2
<1> HIDE DEF rest
<1>5. open'[t] = "open" /\ inbox'[t] = rest /\ \A u \in Tabs \ {t} : open'[u] = open[u]
  BY <1>1, <1>2, ForwardIs DEF PeerTypes
<1>6. Here(t)' /\ \A u \in Tabs \ {t} : Here(u)' = Here(u)
  BY <1>5 DEF Here
<1>7. PeerTypes'
  BY <1>1, <1>2 DEF PeerTypes
<1>8. Alone'
  BY <1>1, <1>2, <1>6 DEF Alone
<1>9. PeerOK(t)'
  <2>1. present[t] = {}
    BY <1>1, <1>2 DEF PeerOK
  <2>2. ~Settled(t)'
    BY <1>4, <1>5 DEF Settled
  <2>3. ~Says(rest, "here", t) /\ Told(rest)
    BY <1>2, <1>4 DEF Told
  <2>4. ASSUME NEW s \in Tabs \ {t} PROVE Heard(open'[s], {}, rest, s)
    <3>1. open'[s] = open[s] /\ (s \in others <=> open[s] = "open")
      BY <1>5 DEF Here
    <3>. QED BY <1>4, <3>1 DEF Heard
  <2>. QED BY <1>1, <1>5, <2>1, <2>2, <2>3, <2>4 DEF PeerOK
<1>10. ASSUME NEW u \in Tabs \ {t} PROVE PeerOK(u)'
  <2>1. PeerOK(u)
    BY DEF PeerInv
  <2>2. ASSUME Here(u)
        PROVE  /\ ~Says(inbox'[u], "here", u) /\ Told(inbox'[u])
               /\ \A s \in Tabs \ {u} : Heard(open'[s], present[u], inbox'[u], s)
               /\ Settled(u)' => Settled(u)
    <3>1. Joins(t).kind \in {"here", "gone"} /\ Joins(t).val = t
      BY DEF Joins
    <3>2. /\ inbox'[u] = inbox[u] \o <<Joins(t)>> /\ IsQueue(inbox[u])
          /\ ~Says(inbox'[u], "here", u) /\ Told(inbox'[u])
          /\ Synced(inbox'[u]) => Synced(inbox[u])
          /\ \A s \in Tabs \ {u, t} : Heard(open[s], present[u], inbox'[u], s)
      <4>1. Forward(t, <<Joins(t)>>, rest)
        BY <1>1
      <4>. QED BY <2>1, <2>2, <3>1, <4>1, OneTold
    <3>3. Heard("open", present[u], inbox'[u], t)
      <4>1. Heard("not yet", present[u], inbox[u], t)
        BY <1>1, <2>1, <2>2 DEF PeerOK
      <4>. QED BY <3>2, <4>1, HeardJoining
    <3>. QED BY <1>1, <1>5, <3>2, <3>3 DEF Settled
  <2>. QED BY <1>1, <1>5, <1>6, <2>1, <2>2 DEF PeerOK
<1>. QED BY <1>7, <1>8, <1>9, <1>10 DEF PeerInv

LEMMA WritesKeepPeers ==
  ASSUME PeerInv, IsQueues, NEW t \in Tabs, NEW r, NEW after, IsQueue(after),
         Write(t, r, after), UNCHANGED <<open, peerVars>>
  PROVE  PeerInv'
<1> DEFINE ran == IF MustExecute(t, r) THEN <<Executing(t, r)>> ELSE <<>>
           rs == <<r>> \o ran \o after
<1>1. IsQueue(ran) /\ IsQueue(<<r>>)
  BY EmptyQueue, Single
<1>2. IsQueue(rs)
  BY <1>1, JoinedQueues
<1>3. Forward(t, DocMsgs(rs), inbox[t]) /\ Same(inbox[t], inbox[t])
  BY DEF Write, Same
<1> HIDE DEF rs
<1>4. \A u \in Tabs : Same(inbox[u], inbox'[u])
  BY <1>2, <1>3, DocumentsArePlain, ForwardsPlain
<1>. QED BY <1>4, SamePeers

LEMMA TellKeepsPeers ==
  ASSUME PeerInv, IsQueues, NEW t \in Tabs, NEW m, m.kind \notin {"here", "gone"}, Tell(t, m)
  PROVE  PeerInv'
<1>1. Forward(t, <<m>>, inbox[t]) /\ Same(inbox[t], inbox[t]) /\ UNCHANGED <<open, peerVars>>
  BY DEF Tell, Same
<1>2. IsQueue(<<m>>) /\ Plain(<<m>>)
  BY Single DEF Plain
<1>3. \A u \in Tabs : Same(inbox[u], inbox'[u])
  BY <1>1, <1>2, ForwardsPlain
<1>. QED BY <1>1, <1>3, SamePeers

LEMMA QuietKeepsPeers ==
  ASSUME PeerInv, UNCHANGED <<open, inbox, peerVars>> PROVE PeerInv'
<1>1. \A u \in Tabs : Same(inbox[u], inbox'[u])
  BY DEF Same
<1>. QED BY <1>1, SamePeers

LEMMA UsersKeepPeers ==
  ASSUME PeerInv, IsQueues, NEW t \in Tabs, UserStep(t) PROVE PeerInv'
<1>1. CASE RunCode(t)
  BY <1>1, EmptyQueue, WritesKeepPeers DEF RunCode, OnlyRun
<1>2. CASE ApproveRun(t)
  <2> DEFINE r == Set(map[t], "status", t, "approved")
  <2>1. IsQueue(<<Executing(t, r)>>)
    BY Single
  <2>2. Write(t, r, <<Executing(t, r)>>)
    BY <1>2 DEF ApproveRun
  <2>. QED BY <1>2, <2>1, <2>2, WritesKeepPeers DEF ApproveRun, OnlyRun
<1>3. CASE DeclineRun(t)
  BY <1>3, EmptyQueue, WritesKeepPeers DEF DeclineRun, OnlyRun
<1>4. ASSUME NEW l \in Langs, SelectLanguage(t, l) PROVE PeerInv'
  <2>1. Tell(t, Msg("langRequest", l, TRUE))
    BY <1>4 DEF SelectLanguage
  <2>. QED BY <2>1, TellKeepsPeers DEF Msg
<1>5. CASE ApproveLanguage(t)
  <2>1. Tell(t, Msg("langApproved", langModal[t], TRUE))
    BY <1>5 DEF ApproveLanguage
  <2>. QED BY <2>1, TellKeepsPeers DEF Msg
<1>6. CASE RejectLanguage(t)
  <2>1. Tell(t, Msg("langResponse", None, FALSE))
    BY <1>6 DEF RejectLanguage
  <2>. QED BY <2>1, TellKeepsPeers DEF Msg
<1>7. CASE Translate(t) \/ DiscardTranslation(t)
  BY <1>7, QuietKeepsPeers DEF Translate, DiscardTranslation, OnlyText, runVars
<1>8. CASE OfferTranslation(t)
  <2>1. Tell(t, Msg("offer", stamp', TRUE))
    BY <1>8 DEF OfferTranslation
  <2>. QED BY <2>1, TellKeepsPeers DEF Msg
<1>9. ASSUME NEW ok \in BOOLEAN, AnswerOffer(t, ok) PROVE PeerInv'
  <2>1. Tell(t, Msg("answer", offerModal[t], ok))
    BY <1>9 DEF AnswerOffer
  <2>. QED BY <2>1, TellKeepsPeers DEF Msg
<1>10. CASE Leave(t)
  BY <1>10, LeaveKeepsPeers
<1>11. CASE Open(t)
  BY <1>11, OpenKeepsPeers
<1>. QED BY <1>1, <1>2, <1>3, <1>4, <1>5, <1>6, <1>7, <1>8, <1>9, <1>10, <1>11 DEF UserStep

LEMMA DeliveriesKeepPeers ==
  ASSUME PeerInv, IsQueues, NEW t \in Tabs, Deliver(t) PROVE PeerInv'
<1>1. CASE ReceiveSync(t)
  BY <1>1, SyncKeepsPeers
<1>2. CASE ReceivePresence(t)
  BY <1>2, PresenceKeepsPeers
<1>3. CASE ReceiveUpdate(t)
  <2> DEFINE r == Merge(map[t], Head(inbox[t]).regs)
             ran == IF MustExecute(t, r) THEN <<Executing(t, r)>> ELSE <<>>
  <2>1. /\ Forward(t, DocMsgs(ran), Tail(inbox[t])) /\ inbox[t] # <<>>
        /\ Head(inbox[t]).kind = "doc" /\ UNCHANGED <<open, peerVars>>
    BY <1>3 DEF ReceiveUpdate, Receive, OnlyRun
  <2>2. IsQueue(ran)
    BY EmptyQueue, Single
  <2>3. IsQueue(DocMsgs(ran)) /\ Plain(DocMsgs(ran))
    BY <2>2, DocumentsArePlain
  <2> HIDE DEF ran
  <2>4. Same(inbox[t], Tail(inbox[t]))
    BY <2>1, TakenIsSame DEF IsQueues
  <2>5. \A u \in Tabs : Same(inbox[u], inbox'[u])
    BY <2>1, <2>3, <2>4, ForwardsPlain
  <2>. QED BY <2>1, <2>5, SamePeers
<1>4. CASE \/ ReceiveLangRequest(t) \/ ReceiveLangApproved(t) \/ ReceiveLangResponse(t)
           \/ ReceiveOffer(t) \/ ReceiveAnswer(t)
  <2>1. /\ inbox[t] # <<>> /\ inbox' = [inbox EXCEPT ![t] = Tail(@)]
        /\ UNCHANGED <<open, peerVars>>
    BY <1>4 DEF ReceiveLangRequest, ReceiveLangApproved, ReceiveLangResponse, ReceiveOffer,
                ReceiveAnswer, Receive, Consume
  <2>2. Head(inbox[t]).kind \notin {"here", "gone", "sync"}
    BY <1>4 DEF ReceiveLangRequest, ReceiveLangApproved, ReceiveLangResponse, ReceiveOffer,
                ReceiveAnswer, Receive
  <2>3. Same(inbox[t], Tail(inbox[t]))
    BY <2>1, <2>2, TakenIsSame DEF IsQueues
  <2>4. ASSUME NEW u \in Tabs PROVE Same(inbox[u], inbox'[u])
    <3>1. inbox'[u] = IF u = t THEN Tail(inbox[t]) ELSE inbox[u]
      BY <2>1 DEF IsQueues
    <3>2. Same(inbox[u], inbox[u])
      BY DEF Same
    <3>. QED BY <2>3, <3>1, <3>2
  <2>. QED BY <2>1, <2>4, SamePeers
<1>. QED BY <1>1, <1>2, <1>3, <1>4 DEF Deliver

LEMMA StepsKeepPeers == ConsentInv /\ PeerInv /\ [Next]_vars => PeerInv'
<1>1. SUFFICES ASSUME ConsentInv, PeerInv, [Next]_vars PROVE PeerInv'
  OBVIOUS
<1>2. IsQueues
  BY <1>1 DEF ConsentInv, InboxesAgree, IsQueues
<1>3. ASSUME NEW t \in Tabs, UserStep(t) \/ Deliver(t) PROVE PeerInv'
  BY <1>1, <1>2, <1>3, UsersKeepPeers, DeliveriesKeepPeers
<1>4. ASSUME NEW t \in Tabs, NEW rs, IsQueue(rs), Forward(t, DocMsgs(rs), inbox[t]),
             UNCHANGED <<open, peerVars>>
      PROVE  PeerInv'
  <2>1. \A u \in Tabs : Same(inbox[u], inbox'[u])
    BY <1>2, <1>4, DocumentsArePlain, ForwardsPlain DEF Same
  <2>. QED BY <1>1, <1>4, <2>1, SamePeers
<1>5. ASSUME NEW t \in Tabs, ResetRejection(t) PROVE PeerInv'
  <2>1. UNCHANGED <<open, peerVars>>
    BY <1>5 DEF ResetRejection, OnlyRun
  <2>2. CASE Status(map[t]) = "rejected"
    <3>1. Forward(t, DocMsgs(<<Set(map[t], "status", t, "idle")>>), inbox[t])
      BY <1>5, <2>2 DEF ResetRejection
    <3>. QED BY <1>4, <2>1, <3>1, Single
  <2>3. CASE Status(map[t]) # "rejected"
    <3>1. inbox' = inbox
      BY <1>5, <2>3 DEF ResetRejection
    <3>. QED BY <1>1, <2>1, <3>1, QuietKeepsPeers
  <2>. QED BY <2>2, <2>3
<1>6. ASSUME NEW t \in Tabs, NEW j \in Jobs, ShowResults(t, j) PROVE PeerInv'
  <2> DEFINE r == Set(map[t], "status", t, "completed")
             s == Set(r, "results", t, j)
  <2>1. Forward(t, DocMsgs(<<r, s>>), inbox[t]) /\ UNCHANGED <<open, peerVars>>
    BY <1>6 DEF ShowResults, OnlyRun
  <2>2. <<r, s>> \in Seq({r, s})
    OBVIOUS
  <2>3. IsQueue(<<r, s>>)
    BY <2>2 DEF IsQueue
  <2>. QED BY <1>4, <2>1, <2>3
<1>7. ASSUME NEW t \in Tabs, DebounceOver(t) \/ ReportOffline(t) PROVE PeerInv'
  BY <1>1, <1>7, DebounceKeeps, ReportKeeps
<1>8. ASSUME NEW t \in Tabs, Translated(t) PROVE PeerInv'
  BY <1>1, <1>8, QuietKeepsPeers DEF Translated, OnlyText, runVars
<1>9. ASSUME NEW l \in Langs, SaveLanguage(l) PROVE PeerInv'
  BY <1>1, <1>9, QuietKeepsPeers DEF SaveLanguage, runVars
<1>10. CASE OnlyExec \/ UNCHANGED vars
  BY <1>1, <1>10, QuietKeepsPeers DEF OnlyExec, vars, runVars
<1>. QED BY <1>1, <1>3, <1>5, <1>6, <1>7, <1>8, <1>9, <1>10 DEF Next

(* At first each user has the page open in his first tab. *)
LEMMA PeersInitially == Init => PeerInv
<1>1. SUFFICES ASSUME Init PROVE PeerInv
  OBVIOUS
<1>2. /\ open = [t \in Tabs |-> IF \E s \in Tabs : s < t /\ Owner[s] = Owner[t]
                                THEN "not yet" ELSE "open"]
      /\ inbox = [t \in Tabs |-> <<>>] /\ online = [t \in Tabs |-> TRUE]
      /\ present = [t \in Tabs |-> IF open[t] = "open"
                                   THEN {s \in Tabs \ {t} : open[s] = "open"} ELSE {}]
      /\ joined = [t \in Tabs |-> open[t] = "open"]
      /\ armed = [t \in Tabs |-> FALSE] /\ asking = [t \in Tabs |-> 0]
  BY <1>1 DEF Init
<1>3. PeerTypes
  BY <1>2 DEF PeerTypes
<1>4. Alone
  <2>1. SUFFICES ASSUME NEW s \in Tabs, NEW t \in Tabs, Here(s), Here(t), Owner[s] = Owner[t]
                 PROVE  s = t
    BY DEF Alone
  <2>2. open = [u \in Tabs |-> IF \E x \in Tabs : x < u /\ Owner[x] = Owner[u]
                                 THEN "not yet" ELSE "open"]
    BY <1>2
  <2>3. open[s] = "open" /\ open[t] = "open"
    BY <2>1 DEF Here
  <2>4. ~(t < s)
    BY <2>1, <2>2, <2>3
  <2>5. ~(s < t)
    BY <2>1, <2>2, <2>3
  <2>6. s \in Nat /\ t \in Nat
    BY TabsAreNumbers
  <2>. QED BY <2>4, <2>5, <2>6
<1>5. ASSUME NEW t \in Tabs PROVE \E s \in Tabs : Owner[s] # Owner[t] /\ open[s] = "open"
  <2>1. PICK u \in Tabs : Owner[u] # Owner[t]
    BY WorkspaceAssumption
  <2> DEFINE N == {s \in Tabs : Owner[s] = Owner[u]}
  <2>2. N \subseteq Nat /\ N # {}
    BY <2>1, TabsAreNumbers
  <2>3. PICK s \in N : \A x \in N : s <= x
    BY <2>2, Least
  <2>4. ~\E x \in Tabs : x < s /\ Owner[x] = Owner[s]
    BY <2>2, <2>3
  <2>. QED BY <1>2, <2>1, <2>3, <2>4
<1>6. \A k, s : ~Says(<<>>, k, s) /\ ~SaysGone(<<>>, s)
  BY DEF Says, SaysGone
<1>7. ASSUME NEW t \in Tabs PROVE PeerOK(t)
  <2>1. CASE open[t] = "open"
    <3>1. present[t] = {s \in Tabs \ {t} : open[s] = "open"} /\ joined[t] /\ online[t]
      BY <1>2, <2>1
    <3>2. present[t] # {}
      BY <1>5, <3>1
    <3>3. \A s \in Tabs \ {t} : Heard(open[s], present[t], inbox[t], s)
      BY <1>2, <1>6, <3>1 DEF Heard
    <3>4. ~Says(inbox[t], "here", t) /\ Told(inbox[t])
      BY <1>2, <1>6 DEF Told
    <3>. QED BY <2>1, <3>1, <3>2, <3>3, <3>4 DEF PeerOK
  <2>2. CASE open[t] # "open"
    BY <1>2, <2>2 DEF PeerOK, Here
  <2>. QED BY <2>1, <2>2
<1>. QED BY <1>3, <1>4, <1>7 DEF PeerInv

LEMMA SettledPeers == PeerInv => PresenceIsTruthful
<1>1. SUFFICES ASSUME PeerInv, NEW t \in Tabs, Quiet, Here(t), ~armed[t], asking[t] = 0
               PROVE  online[t] <=> \E s \in Tabs : Here(s) /\ Owner[s] # Owner[t]
  BY DEF PresenceIsTruthful
<1>2. PeerOK(t) /\ PeerTypes /\ Alone /\ inbox[t] = <<>>
  BY <1>1 DEF PeerInv, Quiet
<1>3. \A k, s : ~Says(<<>>, k, s) /\ ~SaysGone(<<>>, s)
  BY DEF Says, SaysGone
<1>4. Settled(t)
  BY <1>1, <1>2 DEF Settled, Synced
<1>5. online[t] <=> present[t] # {}
  BY <1>1, <1>2, <1>4 DEF PeerOK
<1>6. ASSUME NEW s \in Tabs \ {t} PROVE s \in present[t] <=> Here(s)
  <2>1. Heard(open[s], present[t], <<>>, s)
    BY <1>1, <1>2 DEF PeerOK
  <2>. QED BY <1>3, <2>1 DEF Heard, Here
<1>7. present[t] \subseteq Tabs \ {t}
  BY <1>1, <1>2 DEF PeerOK, PeerTypes
<1>8. ASSUME NEW s \in Tabs \ {t}, Here(s) PROVE Owner[s] # Owner[t]
  BY <1>1, <1>2, <1>8 DEF Alone
<1>. QED BY <1>5, <1>6, <1>7, <1>8

(* A page that has nothing left to find out shows its peer as online exactly *)
(* when the peer's page is open, whatever leaving and coming back crossed.   *)
THEOREM PresenceIsKnown == Spec => []PresenceIsTruthful
<1>1. Init => ConsentInv /\ PeerInv
  BY NothingAgreedYet, PeersInitially
<1>2. ConsentInv /\ PeerInv /\ [Next]_vars => (ConsentInv /\ PeerInv)'
  BY PagesConsent, StepsKeepPeers
<1>. QED BY <1>1, <1>2, SettledPeers, PTL DEF Spec

-----------------------------------------------------------------------------
(* The documents meet. What the server has, a page has or is about to be    *)
(* told; no two items of a key have the same name, since a page knows all   *)
(* that it wrote and writes behind it.                                      *)

(* The items of a key, wherever they are. *)
Items(k) == {Blank[k]} \union {r[k] : r \in Regs}

(* The server has the latest item, and there are no two of one name. *)
Latest(k) == \A x \in Items(k) : x.path \in Seq(Tabs) /\ Upto(x.path, doc[k].path)
Named(k) == \A x, y \in Items(k) : x.path = y.path => x = y

(* What the server has a page has, too, or is about to be told. *)
Coming(k) == \A t \in Tabs : Here(t) =>
                \/ map[t][k] = doc[k]
                \/ \E g \in Underway(inbox[t]) : g[k] = doc[k]

(* A page knows what it wrote. *)
Recalled(k) == \A t \in Tabs : open[t] # "left" =>
                  \A x \in Items(k) : x.path # <<>> /\ LastWriter(x.path) = t
                                      => Upto(x.path, map[t][k].path)

KeyInv(k) == Latest(k) /\ Named(k) /\ Coming(k) /\ Recalled(k)

(* Results come with a job, and a run that is completed has some. *)
Filled(x) == x.path # <<>> => x.val # 0
Done == /\ \A x \in Items("results") : Filled(x)
        /\ Status(doc) = "completed" => doc["results"].path # <<>>

DocShape == /\ open = [t \in Tabs |-> open[t]] /\ map = [t \in Tabs |-> map[t]]
            /\ \A t \in Tabs : ~Here(t) => map[t] = Blank /\ inbox[t] = <<>>
            /\ \A r \in Regs : DOMAIN r = Keys

DocsMeet == DocShape /\ Done /\ \A k \in Keys : KeyInv(k)

(* Item y is x, or is written by tab t on it. *)
Rises(x, y, t) == /\ y.path \in Seq(Tabs)
                  /\ \/ y = x
                     \/ Behind(y.path, x.path) /\ y.path # <<>> /\ LastWriter(y.path) = t

(* On what it sees, b, tab t writes first r, then s. *)
Writes(t, b, r, s, rest) ==
    /\ Here(t) /\ open' = open
    /\ map' = [map EXCEPT ![t] = s] /\ doc' = Merge(doc, s)
    /\ \E ms : /\ IsQueue(ms) /\ Forward(t, ms, rest)
               /\ Underway(ms) \subseteq {r, s} /\ (s # b => s \in Underway(ms))
    /\ IsQueue(rest) /\ Underway(rest) \subseteq Underway(inbox[t])
    /\ DOMAIN r = Keys /\ DOMAIN s = Keys
    /\ \A k \in Keys :
          /\ b[k] \in Items(k) /\ Upto(map[t][k].path, b[k].path)
          /\ \A g \in Underway(inbox[t]) \ Underway(rest) : Upto(g[k].path, b[k].path)
          /\ Rises(b[k], r[k], t) /\ Rises(r[k], s[k], t)
    /\ Filled(r["results"]) /\ Filled(s["results"])
    /\ Status(s) = "completed" => \/ s["status"] \in Items("status")
                                  \/ s["results"].path # <<>>

LEMMA RisesOn ==
  ASSUME NEW x, NEW y, NEW z, NEW t, x.path \in Seq(Tabs), Rises(x, y, t), Rises(y, z, t)
  PROVE  Upto(x.path, y.path) /\ Upto(y.path, z.path) /\ Upto(x.path, z.path) /\ Rises(x, z, t)
<1>1. y.path \in Seq(Tabs) /\ z.path \in Seq(Tabs)
  BY DEF Rises
<1>2. Upto(x.path, y.path)
  BY <1>1, Order, UptoOrder DEF Rises
<1>3. Upto(y.path, z.path)
  BY <1>1, Order, UptoOrder DEF Rises
<1>4. Upto(x.path, z.path)
  BY <1>1, <1>2, <1>3, UptoOrder
<1>5. Rises(x, z, t)
  BY <1>1, Order DEF Rises
<1>. QED BY <1>2, <1>3, <1>4, <1>5

(* What a tab writes has a name of its own. *)
LEMMA FreshItem ==
  ASSUME NEW k \in Keys, KeyInv(k), NEW t \in Tabs, Here(t), map[t][k] \in Items(k),
         NEW b \in Items(k), Upto(map[t][k].path, b.path), NEW y, Rises(b, y, t)
  PROVE  y = b \/ \A x \in Items(k) : x.path # y.path
<1>1. SUFFICES ASSUME y # b, NEW x \in Items(k), x.path = y.path PROVE FALSE
  OBVIOUS
<1>2. Behind(y.path, b.path) /\ y.path # <<>> /\ LastWriter(y.path) = t
  BY <1>1 DEF Rises
<1>3. x.path \in Seq(Tabs) /\ b.path \in Seq(Tabs) /\ map[t][k].path \in Seq(Tabs)
  BY DEF KeyInv, Latest
<1>4. Upto(x.path, map[t][k].path)
  BY <1>1, <1>2 DEF KeyInv, Recalled, Here
<1>5. Upto(x.path, b.path)
  BY <1>3, <1>4, UptoOrder
<1>. QED BY <1>1, <1>2, <1>5 DEF Upto

LEMMA ItemsAre ==
  ASSUME NEW k
  PROVE  /\ Blank[k] \in Items(k) /\ doc[k] \in Items(k)
         /\ \A u \in Tabs : map[u][k] \in Items(k)
         /\ \A u \in Tabs : \A g \in Underway(inbox[u]) : g[k] \in Items(k)
  BY RegsAre DEF Items

LEMMA WritesRegs ==
  ASSUME DocShape, IsQueues, NEW t \in Tabs, NEW b, NEW r, NEW s, NEW rest,
         Writes(t, b, r, s, rest)
  PROVE  /\ Regs' \subseteq Regs \union {r, s, doc'}
         /\ map' = [u \in Tabs |-> map'[u]] /\ map'[t] = s /\ inbox'[t] = rest
         /\ \A u \in Tabs \ {t} : /\ map'[u] = map[u]
                                  /\ ~Here(u) => inbox'[u] = inbox[u]
                                  /\ Here(u) => Underway(inbox[u]) \subseteq Underway(inbox'[u])
                                  /\ Here(u) /\ s # b => s \in Underway(inbox'[u])
<1>1. PICK ms : /\ IsQueue(ms) /\ Forward(t, ms, rest)
                /\ Underway(ms) \subseteq {r, s} /\ (s # b => s \in Underway(ms))
  BY DEF Writes
<1>2. /\ map' = [u \in Tabs |-> map'[u]] /\ map'[t] = s
      /\ \A u \in Tabs \ {t} : map'[u] = map[u]
  BY DEF Writes, DocShape
<1>3. /\ inbox'[t] = rest
      /\ \A u \in Tabs \ {t} : inbox'[u] = IF Here(u) THEN inbox[u] \o ms ELSE inbox[u]
  BY <1>1, ForwardIs
<1>4. \A u \in Tabs : Underway(inbox[u] \o ms) = Underway(inbox[u]) \union Underway(ms)
  BY <1>1, JoinedUnderway DEF IsQueues
<1>5. ASSUME NEW u \in Tabs \ {t}
      PROVE  /\ Underway(inbox'[u]) \subseteq Underway(inbox[u]) \union {r, s}
             /\ ~Here(u) => inbox'[u] = inbox[u]
             /\ Here(u) => Underway(inbox[u]) \subseteq Underway(inbox'[u])
             /\ Here(u) /\ s # b => s \in Underway(inbox'[u])
  <2>1. inbox'[u] = inbox[u] \o ms \/ inbox'[u] = inbox[u]
    BY <1>3
  <2>. QED BY <1>1, <1>3, <1>4, <2>1
<1>6. Underway(rest) \subseteq Underway(inbox[t])
  BY DEF Writes
<1>7. ASSUME NEW x \in Regs' PROVE x \in Regs \union {r, s, doc'}
  <2>1. x = doc' \/ \E u \in Tabs : x = map'[u] \/ x \in Underway(inbox'[u])
    BY DEF Regs
  <2>2. CASE x = doc'
    BY <2>2
  <2>3. ASSUME NEW u \in Tabs, x = map'[u] PROVE x \in Regs \union {r, s, doc'}
    BY <1>2, <2>3, RegsAre
  <2>4. ASSUME NEW u \in Tabs, x \in Underway(inbox'[u]) PROVE x \in Regs \union {r, s, doc'}
    <3>1. x \in Underway(inbox[u]) \union {r, s}
      BY <1>3, <1>5, <1>6, <2>4
    <3>. QED BY <3>1, RegsAre
  <2>. QED BY <2>1, <2>2, <2>3, <2>4
<1>. QED BY <1>2, <1>3, <1>5, <1>7

(* The server takes the later item. *)
LEMMA ServerTakes ==
  ASSUME DocShape, NEW t, NEW b, NEW r, NEW s, NEW rest, Writes(t, b, r, s, rest), NEW k \in Keys
  PROVE  /\ DOMAIN doc' = Keys
         /\ \/ doc'[k] = doc[k] /\ Upto(s[k].path, doc[k].path)
            \/ doc'[k] = s[k] /\ Behind(s[k].path, doc[k].path)
<1>1. DOMAIN doc = Keys
  BY RegsAre DEF DocShape
<1>2. doc' = [l \in Keys |-> IF Behind(s[l].path, doc[l].path) THEN s[l] ELSE doc[l]]
  BY <1>1 DEF Writes, Merge
<1>. QED BY <1>2 DEF Upto

LEMMA WritesKeepKey ==
  ASSUME DocShape, IsQueues, NEW k \in Keys, KeyInv(k), NEW t \in Tabs,
         NEW b, NEW r, NEW s, NEW rest, Writes(t, b, r, s, rest)
  PROVE  /\ KeyInv(k)'
         /\ \A x \in Items(k)' : x \in Items(k) \/ x = r[k] \/ x = s[k]
         /\ Upto(doc[k].path, doc'[k].path) /\ Upto(s[k].path, doc'[k].path)
<1> DEFINE m == map[t][k]
<1>1. /\ Here(t) /\ open' = open
      /\ b[k] \in Items(k) /\ Upto(m.path, b[k].path)
      /\ \A g \in Underway(inbox[t]) \ Underway(rest) : Upto(g[k].path, b[k].path)
      /\ Rises(b[k], r[k], t) /\ Rises(r[k], s[k], t)
  BY DEF Writes
<1>2. \A x \in Items(k) : x.path \in Seq(Tabs) /\ Upto(x.path, doc[k].path)
  BY DEF KeyInv, Latest
<1>3. m \in Items(k) /\ doc[k] \in Items(k)
  BY ItemsAre
<1>4. /\ r[k].path \in Seq(Tabs) /\ s[k].path \in Seq(Tabs)
      /\ Upto(b[k].path, r[k].path) /\ Upto(r[k].path, s[k].path) /\ Upto(b[k].path, s[k].path)
      /\ Rises(b[k], s[k], t)
  BY <1>1, <1>2, RisesOn DEF Rises
<1>5. Upto(m.path, s[k].path)
  BY <1>1, <1>2, <1>3, <1>4, UptoOrder
<1>6. \/ doc'[k] = doc[k] /\ Upto(s[k].path, doc[k].path)
      \/ doc'[k] = s[k] /\ Behind(s[k].path, doc[k].path)
  BY ServerTakes
<1>7. /\ doc'[k].path \in Seq(Tabs)
      /\ Upto(doc[k].path, doc'[k].path) /\ Upto(s[k].path, doc'[k].path)
  BY <1>2, <1>3, <1>4, <1>6, Order, UptoOrder
<1>8. ASSUME NEW x \in Items(k)' PROVE x \in Items(k) \/ x = r[k] \/ x = s[k]
  <2>1. x = Blank[k] \/ \E g \in Regs' : x = g[k]
    BY DEF Items
  <2>2. CASE x = Blank[k]
    BY <2>2, ItemsAre
  <2>3. ASSUME NEW g \in Regs', x = g[k] PROVE x \in Items(k) \/ x = r[k] \/ x = s[k]
    <3>1. g \in Regs \/ g = r \/ g = s \/ g = doc'
      BY WritesRegs
    <3>2. g \in Regs => x \in Items(k)
      BY <2>3 DEF Items
    <3>. QED BY <1>3, <1>6, <2>3, <3>1, <3>2
  <2>. QED BY <2>1, <2>2, <2>3
<1>9. ASSUME NEW x \in {r[k], s[k]}
      PROVE  x \in Items(k) \/ (LastWriter(x.path) = t /\ \A y \in Items(k) : y.path # x.path)
  <2>1. Rises(b[k], x, t)
    BY <1>1, <1>4
  <2>2. x = b[k] \/ \A y \in Items(k) : y.path # x.path
    BY <1>1, <1>3, <2>1, FreshItem
  <2>3. x = b[k] \/ LastWriter(x.path) = t
    BY <2>1 DEF Rises
  <2>. QED BY <1>1, <2>2, <2>3
<1>10. ASSUME NEW x \in Items(k)' PROVE x.path \in Seq(Tabs) /\ Upto(x.path, doc'[k].path)
  <2>1. CASE x \in Items(k)
    BY <1>2, <1>3, <1>7, <2>1, UptoOrder
  <2>2. CASE x = r[k] \/ x = s[k]
    BY <1>4, <1>7, <2>2, UptoOrder
  <2>. QED BY <1>8, <2>1, <2>2
<1>11. Latest(k)'
  BY <1>10 DEF Latest
<1>12. r[k].path = s[k].path => r[k] = s[k]
  BY <1>1, <1>4, Order DEF Rises, Upto
<1>13. ASSUME NEW x \in Items(k)', NEW y \in Items(k)', x.path = y.path PROVE x = y
  <2>1. CASE x \in Items(k) /\ y \in Items(k)
    BY <1>13, <2>1 DEF KeyInv, Named
  <2>2. CASE x \notin Items(k) \/ y \notin Items(k)
    BY <1>8, <1>9, <1>12, <1>13, <2>2
  <2>. QED BY <2>1, <2>2
<1>14. Named(k)'
  BY <1>13 DEF Named
<1>15. ASSUME Upto(doc[k].path, s[k].path), Upto(s[k].path, doc[k].path) PROVE s[k] = doc[k]
  <2>1. s[k].path = doc[k].path
    BY <1>2, <1>3, <1>4, <1>15, Order DEF Upto
  <2>2. s[k] \in Items(k)
    BY <1>3, <1>9, <2>1
  <2>. QED BY <1>3, <2>1, <2>2 DEF KeyInv, Named
<1>16. /\ map'[t] = s /\ inbox'[t] = rest
       /\ \A u \in Tabs \ {t} : /\ map'[u] = map[u]
                                /\ Here(u) => Underway(inbox[u]) \subseteq Underway(inbox'[u])
                                /\ Here(u) /\ s # b => s \in Underway(inbox'[u])
  BY WritesRegs
<1>17. ASSUME NEW u \in Tabs, Here(u)
       PROVE  \/ map'[u][k] = doc'[k]
              \/ \E g \in Underway(inbox'[u]) : g[k] = doc'[k]
  <2>1. \/ map[u][k] = doc[k]
        \/ \E g \in Underway(inbox[u]) : g[k] = doc[k]
    BY <1>17 DEF KeyInv, Coming
  <2>2. CASE u = t /\ doc'[k] = s[k]
    BY <1>16, <2>2
  <2>3. CASE u = t /\ doc'[k] # s[k]
    <3>1. doc'[k] = doc[k] /\ Upto(s[k].path, doc[k].path)
      BY <1>6, <2>3
    <3>2. CASE map[t][k] = doc[k]
      BY <1>5, <1>15, <1>16, <2>3, <3>1, <3>2
    <3>3. ASSUME NEW g \in Underway(inbox[t]), g[k] = doc[k], g \notin Underway(rest)
          PROVE  s[k] = doc[k]
      <4>1. Upto(doc[k].path, b[k].path)
        BY <1>1, <3>3
      <4>2. Upto(doc[k].path, s[k].path)
        BY <1>1, <1>2, <1>3, <1>4, <4>1, UptoOrder
      <4>. QED BY <1>15, <3>1, <4>2
    <3>. QED BY <1>16, <2>1, <2>3, <3>1, <3>2, <3>3
  <2>4. CASE u # t /\ doc'[k] = doc[k]
    BY <1>16, <1>17, <2>1, <2>4
  <2>5. CASE u # t /\ doc'[k] # doc[k]
    <3>1. doc'[k] = s[k] /\ Behind(s[k].path, doc[k].path)
      BY <1>6, <2>5
    <3>2. s # b
      BY <1>1, <1>2, <3>1 DEF Upto
    <3>. QED BY <1>16, <1>17, <2>5, <3>1, <3>2
  <2>. QED BY <2>2, <2>3, <2>4, <2>5
<1>18. Coming(k)'
  BY <1>1, <1>17 DEF Coming, Here
<1>19. ASSUME NEW u \in Tabs, open[u] # "left", NEW x \in Items(k)', x.path # <<>>,
              LastWriter(x.path) = u
       PROVE  Upto(x.path, map'[u][k].path)
  <2>1. CASE x \in Items(k)
    <3>1. Upto(x.path, map[u][k].path)
      BY <1>19, <2>1 DEF KeyInv, Recalled
    <3>2. u = t => Upto(x.path, s[k].path)
      BY <1>2, <1>3, <1>4, <1>5, <2>1, <3>1, UptoOrder
    <3>. QED BY <1>16, <3>1, <3>2
  <2>2. CASE x \notin Items(k)
    <3>1. (x = r[k] \/ x = s[k]) /\ u = t
      BY <1>8, <1>9, <1>19, <2>2
    <3>2. Upto(s[k].path, s[k].path)
      BY <1>4, Order
    <3>. QED BY <1>4, <1>16, <3>1, <3>2
  <2>. QED BY <2>1, <2>2
<1>20. Recalled(k)'
  BY <1>1, <1>19 DEF Recalled
<1>. QED BY <1>7, <1>8, <1>11, <1>14, <1>18, <1>20 DEF KeyInv

LEMMA WritesKeepDocs ==
  ASSUME DocsMeet, IsQueues, NEW t \in Tabs, NEW b, NEW r, NEW s, NEW rest,
         Writes(t, b, r, s, rest)
  PROVE  DocsMeet'
<1>1. DocShape /\ Done /\ \A k \in Keys : KeyInv(k)
  BY DEF DocsMeet
<1>2. /\ Regs' \subseteq Regs \union {r, s, doc'}
      /\ map' = [u \in Tabs |-> map'[u]]
      /\ \A u \in Tabs \ {t} : map'[u] = map[u] /\ (~Here(u) => inbox'[u] = inbox[u])
  BY <1>1, WritesRegs
<1>3. /\ Here(t) /\ open' = open /\ DOMAIN r = Keys /\ DOMAIN s = Keys
      /\ Filled(r["results"]) /\ Filled(s["results"])
      /\ Status(s) = "completed" => \/ s["status"] \in Items("status")
                                    \/ s["results"].path # <<>>
  BY DEF Writes
<1>4. "status" \in Keys /\ "results" \in Keys
  BY DEF Keys
<1>5. DOMAIN doc' = Keys
  BY <1>1, <1>4, ServerTakes
<1>6. DocShape'
  <2>1. \A u \in Tabs : Here(u)' = Here(u)
    BY <1>3 DEF Here
  <2>2. \A u \in Tabs : ~Here(u)' => map'[u] = Blank /\ inbox'[u] = <<>>
    BY <1>1, <1>2, <1>3, <2>1 DEF DocShape
  <2>. QED BY <1>1, <1>2, <1>3, <1>5, <2>2 DEF DocShape
<1>7. \A k \in Keys : KeyInv(k)'
  BY <1>1, WritesKeepKey
<1>8. \A x \in Items("results")' : Filled(x)
  <2>1. \A x \in Items("results")' : \/ x \in Items("results")
                                     \/ x = r["results"] \/ x = s["results"]
    BY <1>1, <1>4, WritesKeepKey
  <2>. QED BY <1>1, <1>3, <2>1 DEF Done
<1>9. ASSUME Status(doc') = "completed" PROVE doc'["results"].path # <<>>
  <2>1. /\ Upto(doc["results"].path, doc'["results"].path)
        /\ Upto(s["results"].path, doc'["results"].path)
    BY <1>1, <1>4, WritesKeepKey
  <2>2. /\ doc["results"].path \in Seq(Tabs) /\ doc'["results"].path \in Seq(Tabs)
        /\ s["results"].path \in Seq(Tabs)
    <3>1. doc["results"].path \in Seq(Tabs)
      BY <1>1, <1>4, ItemsAre DEF KeyInv, Latest
    <3>2. s["results"].path \in Seq(Tabs)
      BY <1>4 DEF Writes, Rises
    <3>3. doc'["results"] \in {doc["results"], s["results"]}
      BY <1>1, <1>4, ServerTakes
    <3>. QED BY <3>1, <3>2, <3>3
  <2>3. CASE doc'["status"] = doc["status"]
    <3>1. doc["results"].path # <<>>
      BY <1>1, <1>9, <2>3 DEF Done, Status
    <3>. QED BY <2>1, <2>2, <3>1, NotEmptied
  <2>4. CASE doc'["status"] # doc["status"]
    <3>1. doc'["status"] = s["status"] /\ Behind(s["status"].path, doc["status"].path)
      BY <1>1, <1>4, <2>4, ServerTakes
    <3>2. s["status"] \notin Items("status")
      BY <1>1, <1>4, <3>1 DEF KeyInv, Latest, Upto
    <3>3. s["results"].path # <<>>
      BY <1>3, <1>9, <3>1, <3>2 DEF Status
    <3>. QED BY <2>1, <2>2, <3>3, NotEmptied
  <2>. QED BY <2>3, <2>4
<1>10. Done'
  BY <1>8, <1>9 DEF Done
<1>. QED BY <1>6, <1>7, <1>10 DEF DocsMeet

(* Pages come and go, and other messages are sent and taken. *)
LEMMA MovesKeepMet ==
  ASSUME DocsMeet, doc' = doc, open' = [u \in Tabs |-> open'[u]],
         map' = [u \in Tabs |-> map'[u]],
         \A u \in Tabs :
            /\ map'[u] \in {map[u], Blank}
            /\ Underway(inbox'[u]) \subseteq Underway(inbox[u]) \union {doc}
            /\ ~Here(u)' => map'[u] = Blank /\ inbox'[u] = <<>>
            /\ open'[u] # "left" => open[u] # "left" /\ map'[u] = map[u]
            /\ Here(u)' => \/ doc \in Underway(inbox'[u])
                           \/ Here(u) /\ Underway(inbox[u]) \subseteq Underway(inbox'[u])
  PROVE  DocsMeet'
<1>1. DocShape /\ Done /\ \A k \in Keys : KeyInv(k)
  BY DEF DocsMeet
<1>2. Regs' \subseteq Regs \union {Blank}
  <2>1. SUFFICES ASSUME NEW x \in Regs' PROVE x \in Regs \union {Blank}
    OBVIOUS
  <2>2. x = doc \/ \E u \in Tabs : x = map'[u] \/ x \in Underway(inbox'[u])
    BY DEF Regs
  <2>3. doc \in Regs /\ \A u \in Tabs : map[u] \in Regs /\ Underway(inbox[u]) \subseteq Regs
    BY RegsAre
  <2>. QED BY <2>2, <2>3
<1>3. \A k : Items(k)' \subseteq Items(k)
  BY <1>2 DEF Items
<1>4. DOMAIN Blank = Keys
  BY DEF Blank, Keys
<1>5. DocShape'
  BY <1>1, <1>2, <1>4 DEF DocShape
<1>6. Done'
  BY <1>1, <1>3 DEF Done
<1>7. ASSUME NEW k \in Keys PROVE KeyInv(k)'
  <2>1. Latest(k)' /\ Named(k)'
    BY <1>1, <1>3 DEF KeyInv, Latest, Named
  <2>2. Coming(k)'
    <3>1. SUFFICES ASSUME NEW u \in Tabs, Here(u)'
                   PROVE  \/ map'[u][k] = doc[k]
                          \/ \E g \in Underway(inbox'[u]) : g[k] = doc[k]
      BY DEF Coming
    <3>2. CASE doc \in Underway(inbox'[u])
      BY <3>2
    <3>3. CASE Here(u) /\ Underway(inbox[u]) \subseteq Underway(inbox'[u])
      <4>1. map'[u] = map[u]
        BY <3>1 DEF Here
      <4>. QED BY <1>1, <3>3, <4>1 DEF KeyInv, Coming
    <3>. QED BY <3>1, <3>2, <3>3
  <2>3. Recalled(k)'
    BY <1>1, <1>3 DEF KeyInv, Recalled
  <2>. QED BY <2>1, <2>2, <2>3 DEF KeyInv
<1>. QED BY <1>5, <1>6, <1>7 DEF DocsMeet

(* What a page asks and shows. *)
Asks(t) == Here(t) /\ Status(map[t]) = "pending" /\ RequestedBy(map[t]) # Owner[t] => modal[t]
Shows(t) == Here(t) /\ Status(map[t]) = "completed" /\ Results(map[t]) # 0
              => shown[t] = Results(map[t])
PagesMeet == /\ modal = [t \in Tabs |-> modal[t]] /\ shown = [t \in Tabs |-> shown[t]]
             /\ \A t \in Tabs : Asks(t) /\ Shows(t)

MeetInv == DocsMeet /\ PagesMeet

LEMMA SetIs ==
  ASSUME NEW r, DOMAIN r = Keys, NEW k \in Keys, NEW t, NEW v
  PROVE  /\ DOMAIN Set(r, k, t, v) = Keys
         /\ Set(r, k, t, v)[k].path = Append(r[k].path, t) /\ Set(r, k, t, v)[k].val = v
         /\ \A l \in Keys \ {k} : Set(r, k, t, v)[l] = r[l]
<1>1. /\ DOMAIN Set(r, k, t, v) = Keys
      /\ Set(r, k, t, v)[k] = [path |-> Append(r[k].path, t), val |-> v]
      /\ \A l \in Keys \ {k} : Set(r, k, t, v)[l] = r[l]
  BY DEF Set
<1>. QED BY <1>1

LEMMA SetRises ==
  ASSUME NEW r, DOMAIN r = Keys, NEW k \in Keys, NEW t \in Tabs, NEW v, NEW l \in Keys,
         r[l].path \in Seq(Tabs)
  PROVE  Rises(r[l], Set(r, k, t, v)[l], t)
<1>1. CASE l = k
  <2>1. Set(r, k, t, v)[l].path = Append(r[l].path, t)
    BY <1>1, SetIs
  <2>. QED BY <2>1, Written DEF Rises
<1>2. CASE l # k
  BY <1>2, SetIs DEF Rises
<1>. QED BY <1>1, <1>2

LEMMA ExecutingRises ==
  ASSUME NEW r, DOMAIN r = Keys, NEW t \in Tabs, \A k \in Keys : r[k].path \in Seq(Tabs)
  PROVE  LET s == Executing(t, r) IN
         /\ DOMAIN s = Keys /\ \A k \in Keys : Rises(r[k], s[k], t)
         /\ s["results"] = r["results"]
         /\ ~MustExecute(t, r) => s = r
         /\ MustExecute(t, r) => Status(s) = "running"
<1>1. "status" \in Keys /\ "results" \in Keys
  BY DEF Keys
<1>2. CASE MustExecute(t, r)
  <2>1. Executing(t, r) = Set(r, "status", t, "running")
    BY <1>2 DEF Executing
  <2> DEFINE s == Set(r, "status", t, "running")
  <2>2. DOMAIN s = Keys /\ s["status"].val = "running" /\ s["results"] = r["results"]
    BY <1>1, SetIs
  <2>3. \A k \in Keys : Rises(r[k], s[k], t)
    BY <1>1, SetRises
  <2>4. Executing(t, r) = s
    BY <2>1
  <2> HIDE DEF s
  <2>. QED BY <1>2, <2>2, <2>3, <2>4 DEF Status
<1>3. CASE ~MustExecute(t, r)
  <2>1. Executing(t, r) = r
    BY <1>3 DEF Executing
  <2>2. \A k \in Keys : Rises(r[k], r[k], t)
    BY DEF Rises
  <2>. QED BY <1>3, <2>1, <2>2
<1>. QED BY <1>2, <1>3

LEMMA OtherPagesMeet ==
  ASSUME PagesMeet, DocShape, DocShape', NEW t \in Tabs,
         modal' = [modal EXCEPT ![t] = modal'[t]], shown' = [shown EXCEPT ![t] = shown'[t]],
         \A u \in Tabs \ {t} : Here(u)' => Here(u) /\ map'[u] = map[u],
         Asks(t)', Shows(t)'
  PROVE  PagesMeet'
<1>1. ASSUME NEW u \in Tabs \ {t} PROVE Asks(u)' /\ Shows(u)'
  BY DEF PagesMeet, Asks, Shows
<1>. QED BY <1>1 DEF PagesMeet

(* The observer asks and shows what the document says. *)
LEMMA ObserverMeets ==
  ASSUME PagesMeet, DocsMeet, DocsMeet', NEW t \in Tabs, NEW r, Observe(t, r), open' = open,
         Here(t), MustExecute(t, r) => Status(Executing(t, r)) = "running"
  PROVE  MeetInv'
<1>1. /\ map' = [map EXCEPT ![t] = Executing(t, r)]
      /\ modal' = [modal EXCEPT ![t] = ModalAfter(t, r) /\ ~MustExecute(t, r)]
      /\ shown' = [shown EXCEPT ![t] = ShownAfter(t, r)]
  BY DEF Observe
<1>2. /\ map'[t] = Executing(t, r) /\ modal'[t] = (ModalAfter(t, r) /\ ~MustExecute(t, r))
      /\ shown'[t] = ShownAfter(t, r) /\ \A u \in Tabs \ {t} : map'[u] = map[u]
      /\ modal' = [modal EXCEPT ![t] = modal'[t]] /\ shown' = [shown EXCEPT ![t] = shown'[t]]
  BY <1>1 DEF PagesMeet, DocsMeet, DocShape
<1>3. \A u \in Tabs : Here(u)' = Here(u)
  BY DEF Here
<1>4. Asks(t)' /\ Shows(t)'
  <2>1. CASE MustExecute(t, r)
    BY <1>2, <2>1 DEF Asks, Shows
  <2>2. CASE ~MustExecute(t, r)
    <3>1. map'[t] = r
      BY <1>2, <2>2 DEF Executing
    <3>2. Asks(t)'
      BY <1>2, <2>2, <3>1 DEF Asks, ModalAfter
    <3>3. Shows(t)'
      BY <1>2, <2>2, <3>1 DEF Shows, ShownAfter
    <3>. QED BY <3>2, <3>3
  <2>. QED BY <2>1, <2>2
<1>. QED BY <1>2, <1>3, <1>4, OtherPagesMeet DEF MeetInv, DocsMeet

LEMMA DocsCarry ==
  ASSUME NEW R, NEW rs \in Seq(R), NEW i \in 1..Len(rs)
  PROVE  rs[i] \in Underway(DocMsgs(rs))
<1>1. /\ Len(DocMsgs(rs)) = Len(rs)
      /\ DocMsgs(rs)[i] = [kind |-> "doc", regs |-> rs[i]]
  BY DEF DocMsgs
<1>2. DocMsgs(rs)[i].kind = "doc" /\ DocMsgs(rs)[i].regs = rs[i]
  BY <1>1
<1>. QED BY <1>1, <1>2 DEF Underway

LEMMA DocsAre ==
  ASSUME DocsMeet
  PROVE  /\ \A k \in Keys : \A x \in Items(k) : x.path \in Seq(Tabs)
         /\ \A x \in Items("results") : Filled(x)
         /\ \A x \in Regs : DOMAIN x = Keys
         /\ "status" \in Keys /\ "requestedBy" \in Keys /\ "results" \in Keys
  BY DEF DocsMeet, Done, DocShape, KeyInv, Latest, Keys

(* A page writes on what it has. *)
LEMMA PageWrites ==
  ASSUME DocsMeet, IsQueues, NEW t \in Tabs, Here(t), open' = open, NEW r, NEW s,
         map' = [map EXCEPT ![t] = s], doc' = Merge(doc, s),
         NEW rs \in Seq({r, s}), Forward(t, DocMsgs(rs), inbox[t]),
         \E i \in 1..Len(rs) : rs[i] = s,
         DOMAIN r = Keys, DOMAIN s = Keys,
         \A k \in Keys : Rises(map[t][k], r[k], t) /\ Rises(r[k], s[k], t),
         Filled(r["results"]), Filled(s["results"]),
         Status(s) = "completed" => s["results"].path # <<>>
  PROVE  DocsMeet'
<1>1. \A k \in Keys : map[t][k] \in Items(k) /\ Upto(map[t][k].path, map[t][k].path)
  BY ItemsAre, DocsAre, Order
<1>2. /\ IsQueue(DocMsgs(rs)) /\ Underway(DocMsgs(rs)) \subseteq {r, s}
      /\ s \in Underway(DocMsgs(rs))
  BY DocsUnderway, DocsCarry
<1>3. IsQueue(inbox[t])
  BY DEF IsQueues
<1>4. Writes(t, map[t], r, s, inbox[t])
  BY <1>1, <1>2, <1>3 DEF Writes
<1>. QED BY <1>4, WritesKeepDocs

LEMMA WriteMeets ==
  ASSUME MeetInv, IsQueues, NEW t \in Tabs, Here(t), open' = open, NEW r,
         NEW after \in Seq({r, Executing(t, r)}), Write(t, r, after), DOMAIN r = Keys,
         \A k \in Keys : Rises(map[t][k], r[k], t),
         Filled(r["results"]), Status(r) # "completed"
  PROVE  MeetInv'
<1> DEFINE s == Executing(t, r)
           ran == IF MustExecute(t, r) THEN <<s>> ELSE <<>>
           rs == <<r>> \o ran \o after
<1>1. /\ Observe(t, r) /\ map' = [map EXCEPT ![t] = s] /\ doc' = Merge(doc, s)
      /\ Forward(t, DocMsgs(rs), inbox[t])
  BY DEF Write, Observe
<1>2. \A k \in Keys : r[k].path \in Seq(Tabs)
  BY DEF Rises
<1>3. /\ DOMAIN s = Keys /\ \A k \in Keys : Rises(r[k], s[k], t)
      /\ s["results"] = r["results"]
      /\ ~MustExecute(t, r) => s = r
      /\ MustExecute(t, r) => Status(s) = "running"
  BY <1>2, ExecutingRises
<1>4. Status(s) # "completed"
  BY <1>3
<1> HIDE DEF s
<1>5. rs \in Seq({r, s}) /\ \E i \in 1..Len(rs) : rs[i] = s
  <2>1. after \in Seq({r, s})
    BY DEF s
  <2>2. CASE MustExecute(t, r)
    <3>1. rs = <<r>> \o <<s>> \o after
      BY <2>2
    <3> HIDE DEF rs
    <3>2. <<r>> \o <<s>> \o after \in Seq({r, s})
      BY <2>1
    <3>3. /\ Len(<<r>> \o <<s>> \o after) = 2 + Len(after) /\ Len(after) \in Nat
          /\ (<<r>> \o <<s>> \o after)[2] = s
      BY <2>1
    <3>4. 2 \in 1..Len(rs) /\ rs[2] = s
      BY <3>1, <3>3
    <3>. QED BY <3>1, <3>2, <3>4
  <2>3. CASE ~MustExecute(t, r)
    <3>1. rs = <<r>> \o <<>> \o after
      BY <2>3
    <3> HIDE DEF rs
    <3>2. <<r>> \o <<>> \o after \in Seq({r, s})
      BY <2>1
    <3>3. /\ Len(<<r>> \o <<>> \o after) = 1 + Len(after) /\ Len(after) \in Nat
          /\ (<<r>> \o <<>> \o after)[1] = r
      BY <2>1
    <3>4. 1 \in 1..Len(rs) /\ rs[1] = s
      BY <1>3, <2>3, <3>1, <3>3
    <3>. QED BY <3>1, <3>2, <3>4
  <2>. QED BY <2>2, <2>3
<1> HIDE DEF rs
<1>6. DocsMeet /\ PagesMeet
  BY DEF MeetInv
<1>7. DocsMeet'
  BY <1>1, <1>3, <1>4, <1>5, <1>6, PageWrites
<1>. QED BY <1>1, <1>3, <1>6, <1>7, ObserverMeets DEF s

LEMMA RunCodeMeets ==
  ASSUME MeetInv, IsQueues, NEW t \in Tabs, RunCode(t) PROVE MeetInv'
<1> DEFINE q == Set(map[t], "requestedBy", t, Owner[t])
           r == Set(q, "status", t, "pending")
<1>1. Here(t) /\ open' = open /\ Write(t, r, <<>>)
  BY DEF RunCode, OnlyRun
<1>2. DocsMeet /\ DOMAIN map[t] = Keys
  BY DocsAre, RegsAre DEF MeetInv
<1>3. "status" \in Keys /\ "requestedBy" \in Keys /\ "results" \in Keys
  BY DEF Keys
<1>4. \A k \in Keys : map[t][k].path \in Seq(Tabs)
  BY <1>2, DocsAre, ItemsAre
<1>5. DOMAIN q = Keys /\ \A k \in Keys : Rises(map[t][k], q[k], t)
  <2>1. DOMAIN q = Keys
    BY <1>2, <1>3, SetIs
  <2>2. \A k \in Keys : Rises(map[t][k], q[k], t)
    BY <1>2, <1>3, <1>4, SetRises
  <2>. QED BY <2>1, <2>2
<1>6. q["results"] = map[t]["results"]
  BY <1>2, <1>3, SetIs
<1> HIDE DEF q
<1>7. \A k \in Keys : q[k].path \in Seq(Tabs)
  BY <1>5 DEF Rises
<1>8. DOMAIN r = Keys /\ \A k \in Keys : Rises(q[k], r[k], t)
  <2>1. DOMAIN r = Keys
    BY <1>3, <1>5, SetIs
  <2>2. \A k \in Keys : Rises(q[k], r[k], t)
    BY <1>3, <1>5, <1>7, SetRises
  <2>. QED BY <2>1, <2>2
<1>9. r["results"] = q["results"] /\ Status(r) = "pending"
  BY <1>3, <1>5, SetIs DEF Status
<1> HIDE DEF r
<1>10. \A k \in Keys : Rises(map[t][k], r[k], t)
  BY <1>4, <1>5, <1>8, RisesOn
<1>11. Filled(r["results"]) /\ Status(r) # "completed"
  BY <1>2, <1>6, <1>9, DocsAre, ItemsAre
<1>12. <<>> \in Seq({r, Executing(t, r)})
  OBVIOUS
<1>. QED BY <1>1, <1>8, <1>10, <1>11, <1>12, WriteMeets

LEMMA AnswerMeets ==
  ASSUME MeetInv, IsQueues, NEW t \in Tabs, ApproveRun(t) \/ DeclineRun(t) PROVE MeetInv'
<1>1. ASSUME NEW v \in {"approved", "rejected"}, NEW after, Here(t), open' = open,
             after \in Seq({Set(map[t], "status", t, v), Executing(t, Set(map[t], "status", t, v))}),
             Write(t, Set(map[t], "status", t, v), after)
      PROVE  MeetInv'
  <2> DEFINE r == Set(map[t], "status", t, v)
  <2>1. DocsMeet /\ DOMAIN map[t] = Keys
    BY DocsAre, RegsAre DEF MeetInv
  <2>2. "status" \in Keys /\ "results" \in Keys
    BY DEF Keys
  <2>3. \A k \in Keys : map[t][k].path \in Seq(Tabs)
    BY <2>1, DocsAre, ItemsAre
  <2>4. DOMAIN r = Keys /\ \A k \in Keys : Rises(map[t][k], r[k], t)
    <3>1. DOMAIN r = Keys
      BY <2>1, <2>2, SetIs
    <3>2. \A k \in Keys : Rises(map[t][k], r[k], t)
      BY <2>1, <2>2, <2>3, SetRises
    <3>. QED BY <3>1, <3>2
  <2>5. r["results"] = map[t]["results"] /\ Status(r) = v
    BY <2>1, <2>2, SetIs DEF Status
  <2>6. Filled(r["results"]) /\ Status(r) # "completed"
    BY <2>1, <2>5, DocsAre, ItemsAre
  <2>7. Write(t, r, after) /\ after \in Seq({r, Executing(t, r)})
    BY <1>1
  <2> HIDE DEF r
  <2>. QED BY <1>1, <2>4, <2>6, <2>7, WriteMeets
<1>2. CASE ApproveRun(t)
  <2> DEFINE r == Set(map[t], "status", t, "approved")
  <2>1. Here(t) /\ open' = open /\ Write(t, r, <<Executing(t, r)>>)
    BY <1>2 DEF ApproveRun, OnlyRun
  <2>2. <<Executing(t, r)>> \in Seq({r, Executing(t, r)})
    OBVIOUS
  <2>. QED BY <1>1, <2>1, <2>2
<1>3. CASE DeclineRun(t)
  <2> DEFINE r == Set(map[t], "status", t, "rejected")
  <2>1. Here(t) /\ open' = open /\ Write(t, r, <<>>)
    BY <1>3 DEF DeclineRun, OnlyRun
  <2>2. <<>> \in Seq({r, Executing(t, r)})
    OBVIOUS
  <2>. QED BY <1>1, <2>1, <2>2
<1>. QED BY <1>2, <1>3

LEMMA PagesStay ==
  ASSUME DocsMeet', PagesMeet,
         \A u \in Tabs : Here(u)' => Here(u) /\ map'[u] = map[u], UNCHANGED <<modal, shown>>
  PROVE  MeetInv'
  BY DEF PagesMeet, Asks, Shows, MeetInv

LEMMA ResetMeets ==
  ASSUME MeetInv, IsQueues, NEW t \in Tabs, ResetRejection(t) PROVE MeetInv'
<1> DEFINE r == Set(map[t], "status", t, "idle")
<1>1. Here(t) /\ UNCHANGED <<open, modal, shown>>
  BY DEF ResetRejection, OnlyRun
<1>2. DocsMeet /\ PagesMeet /\ DocShape /\ DOMAIN map[t] = Keys
  BY DocsAre, RegsAre DEF MeetInv, DocsMeet
<1>3. CASE Status(map[t]) = "rejected"
  <2>1. map' = [map EXCEPT ![t] = r] /\ doc' = Merge(doc, r) /\ Forward(t, DocMsgs(<<r>>), inbox[t])
    BY <1>3 DEF ResetRejection
  <2>2. "status" \in Keys /\ "results" \in Keys
    BY DEF Keys
  <2>3. \A k \in Keys : map[t][k].path \in Seq(Tabs)
    BY <1>2, DocsAre, ItemsAre
  <2>4. DOMAIN r = Keys /\ \A k \in Keys : Rises(map[t][k], r[k], t)
    <3>1. DOMAIN r = Keys
      BY <1>2, <2>2, SetIs
    <3>2. \A k \in Keys : Rises(map[t][k], r[k], t)
      BY <1>2, <2>2, <2>3, SetRises
    <3>. QED BY <3>1, <3>2
  <2>5. r["results"] = map[t]["results"] /\ Status(r) = "idle"
    BY <1>2, <2>2, SetIs DEF Status
  <2>6. Filled(r["results"])
    BY <1>2, <2>5, DocsAre, ItemsAre
  <2> HIDE DEF r
  <2>7. <<r>> \in Seq({r}) /\ 1 \in 1..Len(<<r>>) /\ <<r>>[1] = r /\ {r, r} = {r}
    OBVIOUS
  <2>8. \A k \in Keys : Rises(r[k], r[k], t)
    BY <2>4 DEF Rises
  <2>9. DocsMeet'
    BY <1>1, <1>2, <2>1, <2>4, <2>5, <2>6, <2>7, <2>8, PageWrites
  <2>10. map'[t] = r /\ \A u \in Tabs \ {t} : map'[u] = map[u]
    BY <1>2, <2>1 DEF DocShape
  <2>11. Asks(t)' /\ Shows(t)'
    BY <2>5, <2>10 DEF Asks, Shows
  <2>12. \A u \in Tabs : Here(u)' = Here(u)
    BY <1>1 DEF Here
  <2>13. modal' = [modal EXCEPT ![t] = modal'[t]] /\ shown' = [shown EXCEPT ![t] = shown'[t]]
    BY <1>1, <1>2 DEF PagesMeet
  <2>. QED BY <1>2, <2>9, <2>10, <2>11, <2>12, <2>13, OtherPagesMeet DEF MeetInv, DocsMeet
<1>4. CASE Status(map[t]) # "rejected"
  <2>1. UNCHANGED <<map, doc, inbox>>
    BY <1>4 DEF ResetRejection
  <2>2. DocsMeet'
    BY <1>1, <1>2, <2>1 DEF DocsMeet, DocShape, Done, KeyInv, Latest, Named, Coming, Recalled,
                            Items, Regs, Here
  <2>. QED BY <1>1, <1>2, <2>1, <2>2, PagesStay DEF Here
<1>. QED BY <1>3, <1>4

LEMMA ResultsMeet ==
  ASSUME MeetInv, IsQueues, NEW t \in Tabs, NEW j \in Jobs, ShowResults(t, j) PROVE MeetInv'
<1> DEFINE r == Set(map[t], "status", t, "completed")
           s == Set(r, "results", t, j)
<1>1. /\ Here(t) /\ open' = open /\ map' = [map EXCEPT ![t] = s] /\ doc' = Merge(doc, s)
      /\ Forward(t, DocMsgs(<<r, s>>), inbox[t])
      /\ modal' = [modal EXCEPT ![t] = FALSE] /\ shown' = [shown EXCEPT ![t] = j]
  BY DEF ShowResults, OnlyRun
<1>2. DocsMeet /\ PagesMeet /\ DocShape /\ DOMAIN map[t] = Keys
  BY DocsAre, RegsAre DEF MeetInv, DocsMeet
<1>3. "status" \in Keys /\ "results" \in Keys
  BY DEF Keys
<1>4. \A k \in Keys : map[t][k].path \in Seq(Tabs)
  BY <1>2, DocsAre, ItemsAre
<1>5. DOMAIN r = Keys /\ \A k \in Keys : Rises(map[t][k], r[k], t)
  <2>1. DOMAIN r = Keys
    BY <1>2, <1>3, SetIs
  <2>2. \A k \in Keys : Rises(map[t][k], r[k], t)
    BY <1>2, <1>3, <1>4, SetRises
  <2>. QED BY <2>1, <2>2
<1>6. r["results"] = map[t]["results"] /\ Status(r) = "completed"
  BY <1>2, <1>3, SetIs DEF Status
<1>7. Filled(r["results"])
  BY <1>2, <1>6, DocsAre, ItemsAre
<1> HIDE DEF r
<1>8. \A k \in Keys : r[k].path \in Seq(Tabs)
  BY <1>5 DEF Rises
<1>9. DOMAIN s = Keys /\ \A k \in Keys : Rises(r[k], s[k], t)
  <2>1. DOMAIN s = Keys
    BY <1>3, <1>5, SetIs
  <2>2. \A k \in Keys : Rises(r[k], s[k], t)
    BY <1>3, <1>5, <1>8, SetRises
  <2>. QED BY <2>1, <2>2
<1>10. s["results"].path = Append(r["results"].path, t) /\ Results(s) = j /\ Status(s) = "completed"
  BY <1>3, <1>5, <1>6, SetIs DEF Status, Results
<1>11. s["results"].path # <<>> /\ Filled(s["results"])
  <2>1. Append(r["results"].path, t) # <<>> /\ j # 0
    BY <1>3, <1>8, Written, TabsAreNumbers
  <2>. QED BY <1>10, <2>1 DEF Filled, Results
<1> HIDE DEF s
<1>12. <<r, s>> \in Seq({r, s}) /\ 2 \in 1..Len(<<r, s>>) /\ <<r, s>>[2] = s
  OBVIOUS
<1>13. DocsMeet'
  BY <1>1, <1>2, <1>5, <1>7, <1>9, <1>11, <1>12, PageWrites
<1>14. map'[t] = s /\ \A u \in Tabs \ {t} : map'[u] = map[u]
  BY <1>1, <1>2 DEF DocShape
<1>15. modal' = [modal EXCEPT ![t] = modal'[t]] /\ shown' = [shown EXCEPT ![t] = shown'[t]]
       /\ shown'[t] = j
  BY <1>1, <1>2 DEF PagesMeet
<1>16. Asks(t)' /\ Shows(t)'
  BY <1>10, <1>14, <1>15 DEF Asks, Shows
<1>17. \A u \in Tabs : Here(u)' = Here(u)
  BY <1>1 DEF Here
<1>. QED BY <1>2, <1>13, <1>14, <1>15, <1>16, <1>17, OtherPagesMeet DEF MeetInv, DocsMeet

LEMMA TakenDocs ==
  ASSUME NEW q, IsQueue(q), q # <<>>
  PROVE  /\ IsQueue(Tail(q)) /\ Underway(Tail(q)) \subseteq Underway(q)
         /\ Head(q).kind \in {"doc", "sync"} =>
              /\ Head(q).regs \in Underway(q)
              /\ Underway(q) \subseteq Underway(Tail(q)) \union {Head(q).regs}
         /\ Head(q).kind \notin {"doc", "sync"} => Underway(Tail(q)) = Underway(q)
<1> DEFINE r == Tail(q)
<1>1. PICK S : q \in Seq(S)
  BY DEF IsQueue
<1>2. /\ r \in Seq(S) /\ Len(q) \in Nat \ {0} /\ Len(r) = Len(q) - 1 /\ Head(q) = q[1]
      /\ \A i \in 1..Len(r) : r[i] = q[i + 1]
  BY <1>1
<1> HIDE DEF r
<1>3. ASSUME NEW i \in 1..Len(r) PROVE i + 1 \in 1..Len(q) /\ r[i] = q[i + 1]
  BY <1>2
<1>4. ASSUME NEW i \in 1..Len(q), i # 1 PROVE i - 1 \in 1..Len(r) /\ r[i - 1] = q[i]
  <2>1. i - 1 \in 1..Len(r) /\ (i - 1) + 1 = i
    BY <1>2, <1>4
  <2>. QED BY <1>2, <2>1
<1>5. Underway(r) \subseteq Underway(q)
  <2> SUFFICES ASSUME NEW i \in 1..Len(r), r[i].kind \in {"doc", "sync"}
               PROVE  r[i].regs \in Underway(q)
    BY DEF Underway
  <2>. QED BY <1>3 DEF Underway
<1>6. ASSUME NEW g \in Underway(q)
      PROVE  g \in Underway(r) \/ (Head(q).kind \in {"doc", "sync"} /\ g = Head(q).regs)
  <2>1. PICK i \in 1..Len(q) : q[i].kind \in {"doc", "sync"} /\ g = q[i].regs
    BY DEF Underway
  <2>2. CASE i = 1
    BY <1>2, <2>1, <2>2
  <2>3. CASE i # 1
    BY <1>4, <2>1, <2>3 DEF Underway
  <2>. QED BY <2>2, <2>3
<1>7. Head(q).kind \in {"doc", "sync"} => Head(q).regs \in Underway(q)
  <2>1. 1 \in 1..Len(q) /\ Head(q) = q[1]
    BY <1>2
  <2>. QED BY <2>1 DEF Underway
<1>. QED BY <1>2, <1>5, <1>6, <1>7 DEF IsQueue, r

LEMMA DocumentMeets ==
  ASSUME MeetInv, IsQueues, NEW t \in Tabs, ReceiveUpdate(t) \/ ReceiveSync(t) PROVE MeetInv'
<1> DEFINE q == inbox[t]
           g == Head(inbox[t]).regs
           r == Merge(map[t], g)
           s == Executing(t, r)
           ran == IF MustExecute(t, r) THEN <<s>> ELSE <<>>
<1>1. /\ Here(t) /\ q # <<>> /\ Head(q).kind \in {"doc", "sync"} /\ open' = open
      /\ Observe(t, r) /\ Forward(t, DocMsgs(ran), Tail(q))
  BY DEF ReceiveUpdate, ReceiveSync, Receive, OnlyRun
<1>2. DocsMeet /\ PagesMeet /\ IsQueue(q) /\ DOMAIN map[t] = Keys
  BY DocsAre, RegsAre DEF MeetInv, IsQueues
<1>3. /\ IsQueue(Tail(q)) /\ Underway(Tail(q)) \subseteq Underway(q) /\ g \in Underway(q)
      /\ Underway(q) \subseteq Underway(Tail(q)) \union {g}
  BY <1>1, <1>2, TakenDocs
<1>4. DOMAIN r = Keys
  BY <1>2 DEF Merge
<1>5. ASSUME NEW k \in Keys
      PROVE  r[k] \in Items(k) /\ Upto(map[t][k].path, r[k].path) /\ Upto(g[k].path, r[k].path)
  <2>1. map[t][k] \in Items(k) /\ g[k] \in Items(k)
    BY <1>3, ItemsAre
  <2>2. map[t][k].path \in Seq(Tabs) /\ g[k].path \in Seq(Tabs)
    BY <1>2, <2>1, DocsAre
  <2>3. r[k] = IF Behind(g[k].path, map[t][k].path) THEN g[k] ELSE map[t][k]
    BY <1>2 DEF Merge
  <2>4. CASE Behind(g[k].path, map[t][k].path)
    <3>1. r[k] = g[k]
      BY <2>3, <2>4
    <3>2. Upto(map[t][k].path, g[k].path) /\ Upto(g[k].path, g[k].path)
      BY <2>2, <2>4, Order, UptoOrder
    <3>. QED BY <2>1, <3>1, <3>2
  <2>5. CASE ~Behind(g[k].path, map[t][k].path)
    <3>1. r[k] = map[t][k]
      BY <2>3, <2>5
    <3>2. Upto(g[k].path, map[t][k].path) /\ Upto(map[t][k].path, map[t][k].path)
      BY <2>2, <2>5, Order DEF Upto
    <3>. QED BY <2>1, <3>1, <3>2
  <2>. QED BY <2>4, <2>5
<1> HIDE DEF r
<1>6. \A k \in Keys : r[k].path \in Seq(Tabs)
  BY <1>2, <1>5, DocsAre
<1>7. /\ DOMAIN s = Keys /\ \A k \in Keys : Rises(r[k], s[k], t)
      /\ s["results"] = r["results"]
      /\ ~MustExecute(t, r) => s = r
      /\ MustExecute(t, r) => Status(s) = "running"
  BY <1>4, <1>6, ExecutingRises
<1>8. map' = [map EXCEPT ![t] = s] /\ doc' = Merge(doc, s)
  BY <1>1 DEF Observe
<1>9. \A k \in Keys : Rises(r[k], r[k], t)
  BY <1>6 DEF Rises
<1>10. "status" \in Keys /\ "results" \in Keys
  BY DEF Keys
<1>11. Filled(r["results"]) /\ Filled(s["results"])
  BY <1>2, <1>5, <1>7, <1>10, DocsAre
<1>12. Status(s) = "completed" => s["status"] \in Items("status")
  BY <1>5, <1>7, <1>10
<1>13. /\ IsQueue(DocMsgs(ran)) /\ Underway(DocMsgs(ran)) \subseteq {r, s}
       /\ s # r => s \in Underway(DocMsgs(ran))
  <2>1. CASE MustExecute(t, r)
    <3>1. ran = <<s>>
      BY <2>1
    <3> HIDE DEF s, ran
    <3>2. <<s>> \in Seq({r, s}) /\ 1 \in 1..Len(<<s>>) /\ <<s>>[1] = s
      OBVIOUS
    <3>3. IsQueue(DocMsgs(<<s>>)) /\ Underway(DocMsgs(<<s>>)) \subseteq {r, s}
      BY <3>2, DocsUnderway
    <3>4. <<s>>[1] \in Underway(DocMsgs(<<s>>))
      BY <3>2, DocsCarry
    <3>. QED BY <3>1, <3>2, <3>3, <3>4
  <2>2. CASE ~MustExecute(t, r)
    <3>1. ran = <<>> /\ s = r
      BY <1>7, <2>2
    <3> HIDE DEF s, ran
    <3>2. <<>> \in Seq({r, s})
      OBVIOUS
    <3>. QED BY <3>1, <3>2, DocsUnderway
  <2>. QED BY <2>1, <2>2
<1> HIDE DEF s, ran
<1>14. Writes(t, r, r, s, Tail(q))
  <2>1. \E ms : /\ IsQueue(ms) /\ Forward(t, ms, Tail(q))
                /\ Underway(ms) \subseteq {r, s} /\ (s # r => s \in Underway(ms))
    BY <1>1, <1>13
  <2>2. \A x \in Underway(q) \ Underway(Tail(q)) : x = g
    BY <1>3
  <2>. QED BY <1>1, <1>3, <1>4, <1>5, <1>7, <1>8, <1>9, <1>11, <1>12, <2>1, <2>2 DEF Writes
<1>15. DocsMeet'
  BY <1>2, <1>14, WritesKeepDocs
<1>. QED BY <1>1, <1>2, <1>7, <1>15, ObserverMeets DEF s

(* Messages about other things. *)
LEMMA MessagesMeet ==
  ASSUME MeetInv, UNCHANGED <<open, map, doc, modal, shown>>,
         \A u \in Tabs : /\ Underway(inbox'[u]) = Underway(inbox[u])
                         /\ ~Here(u) => inbox'[u] = inbox[u]
  PROVE  MeetInv'
<1>1. DocsMeet /\ PagesMeet /\ DocShape
  BY DEF MeetInv, DocsMeet
<1>2. \A u \in Tabs : Here(u)' = Here(u)
  BY DEF Here
<1>3. /\ open' = [u \in Tabs |-> open'[u]] /\ map' = [u \in Tabs |-> map'[u]]
      /\ \A u \in Tabs :
            /\ map'[u] \in {map[u], Blank}
            /\ Underway(inbox'[u]) \subseteq Underway(inbox[u]) \union {doc}
            /\ ~Here(u)' => map'[u] = Blank /\ inbox'[u] = <<>>
            /\ open'[u] # "left" => open[u] # "left" /\ map'[u] = map[u]
            /\ Here(u)' => \/ doc \in Underway(inbox'[u])
                           \/ Here(u) /\ Underway(inbox[u]) \subseteq Underway(inbox'[u])
  BY <1>1, <1>2 DEF DocShape
<1>4. DocsMeet'
  BY <1>1, <1>3, MovesKeepMet
<1>. QED BY <1>1, <1>2, <1>4, PagesStay

LEMMA ForwardsNoDoc ==
  ASSUME IsQueues, NEW t \in Tabs, NEW m, m.kind \notin {"doc", "sync"},
         NEW rest, Forward(t, <<m>>, rest), NEW u \in Tabs \ {t}
  PROVE  /\ Underway(inbox'[u]) = Underway(inbox[u])
         /\ ~Here(u) => inbox'[u] = inbox[u]
<1>1. inbox'[u] = IF Here(u) THEN inbox[u] \o <<m>> ELSE inbox[u]
  BY ForwardIs
<1>2. IsQueue(inbox[u]) /\ IsQueue(<<m>>) /\ Underway(<<m>>) = {}
  BY Single, OtherMessage DEF IsQueues
<1>3. Underway(inbox[u] \o <<m>>) = Underway(inbox[u])
  BY <1>2, JoinedUnderway
<1>. QED BY <1>1, <1>3

LEMMA TellMeets ==
  ASSUME MeetInv, IsQueues, NEW t \in Tabs, NEW m, m.kind \notin {"doc", "sync"}, Tell(t, m)
  PROVE  MeetInv'
<1>1. Forward(t, <<m>>, inbox[t]) /\ UNCHANGED <<open, map, doc, modal, shown>>
  BY DEF Tell
<1>2. inbox'[t] = inbox[t]
  BY <1>1, ForwardIs
<1>3. ASSUME NEW u \in Tabs
      PROVE  /\ Underway(inbox'[u]) = Underway(inbox[u])
             /\ ~Here(u) => inbox'[u] = inbox[u]
  BY <1>1, <1>2, ForwardsNoDoc
<1>. QED BY <1>1, <1>3, MessagesMeet

LEMMA TakeMeets ==
  ASSUME MeetInv, IsQueues, NEW t \in Tabs, Here(t), inbox[t] # <<>>,
         Head(inbox[t]).kind \notin {"doc", "sync"}, inbox' = [inbox EXCEPT ![t] = Tail(@)],
         UNCHANGED <<open, map, doc, modal, shown>>
  PROVE  MeetInv'
<1>1. IsQueue(inbox[t])
  BY DEF IsQueues
<1>2. Underway(Tail(inbox[t])) = Underway(inbox[t])
  BY <1>1, TakenDocs
<1>3. ASSUME NEW u \in Tabs
      PROVE  /\ Underway(inbox'[u]) = Underway(inbox[u])
             /\ ~Here(u) => inbox'[u] = inbox[u]
  <2>1. inbox'[u] = IF u = t THEN Tail(inbox[t]) ELSE inbox[u]
    BY DEF IsQueues
  <2>. QED BY <1>2, <2>1
<1>. QED BY <1>3, MessagesMeet

LEMMA QuietMeets ==
  ASSUME MeetInv, UNCHANGED <<open, map, doc, inbox, modal, shown>> PROVE MeetInv'
  BY MessagesMeet

LEMMA LeaveMeets ==
  ASSUME MeetInv, IsQueues, NEW t \in Tabs, Leave(t) PROVE MeetInv'
<1>1. /\ Here(t) /\ open' = [open EXCEPT ![t] = "left"] /\ map' = [map EXCEPT ![t] = Blank]
      /\ Forward(t, <<Gone(t)>>, <<>>) /\ doc' = doc
      /\ modal' = [modal EXCEPT ![t] = FALSE] /\ shown' = [shown EXCEPT ![t] = 0]
  BY DEF Leave
<1>2. DocsMeet /\ PagesMeet /\ DocShape
  BY DEF MeetInv, DocsMeet
<1>3. /\ open' = [u \in Tabs |-> open'[u]] /\ map' = [u \in Tabs |-> map'[u]]
      /\ open'[t] = "left" /\ map'[t] = Blank
      /\ \A u \in Tabs \ {t} : open'[u] = open[u] /\ map'[u] = map[u]
  BY <1>1, <1>2 DEF DocShape
<1>4. inbox'[t] = <<>> /\ Underway(<<>>) = {}
  BY <1>1, ForwardIs, NothingUnderway
<1>5. Gone(t).kind \notin {"doc", "sync"}
  BY DEF Gone
<1>6. ASSUME NEW u \in Tabs \ {t}
      PROVE  /\ Underway(inbox'[u]) = Underway(inbox[u])
             /\ ~Here(u) => inbox'[u] = inbox[u]
  BY <1>1, <1>5, ForwardsNoDoc
<1>7. ~Here(t)' /\ \A u \in Tabs \ {t} : Here(u)' = Here(u)
  BY <1>3 DEF Here
<1>8. ASSUME NEW u \in Tabs
      PROVE  /\ map'[u] \in {map[u], Blank}
             /\ Underway(inbox'[u]) \subseteq Underway(inbox[u]) \union {doc}
             /\ ~Here(u)' => map'[u] = Blank /\ inbox'[u] = <<>>
             /\ open'[u] # "left" => open[u] # "left" /\ map'[u] = map[u]
             /\ Here(u)' => \/ doc \in Underway(inbox'[u])
                            \/ Here(u) /\ Underway(inbox[u]) \subseteq Underway(inbox'[u])
  BY <1>2, <1>3, <1>4, <1>6, <1>7 DEF DocShape
<1>9. DocsMeet'
  BY <1>1, <1>2, <1>3, <1>8, MovesKeepMet
<1>10. modal' = [modal EXCEPT ![t] = modal'[t]] /\ shown' = [shown EXCEPT ![t] = shown'[t]]
  BY <1>1, <1>2 DEF PagesMeet
<1>11. Asks(t)' /\ Shows(t)'
  BY <1>7 DEF Asks, Shows
<1>. QED BY <1>2, <1>3, <1>7, <1>9, <1>10, <1>11, OtherPagesMeet DEF MeetInv, DocsMeet

LEMMA OpenMeets ==
  ASSUME MeetInv, IsQueues, NEW t \in Tabs, Open(t) PROVE MeetInv'
<1> DEFINE others == {s \in Tabs : Here(s)}
           here == IF others = {} THEN <<>> ELSE <<Joins(CHOOSE s \in others : TRUE)>>
           rest == here \o <<[kind |-> "sync", regs |-> doc]>>
<1>1. /\ open[t] = "not yet" /\ open' = [open EXCEPT ![t] = "open"]
      /\ Forward(t, <<Joins(t)>>, rest) /\ UNCHANGED <<map, doc, modal, shown>>
  BY DEF Open
<1>2. DocsMeet /\ PagesMeet /\ DocShape
  BY DEF MeetInv, DocsMeet
<1>3. Underway(rest) = {doc}
  <2>1. CASE others = {}
    <3>1. rest = <<[kind |-> "sync", regs |-> doc]>>
      BY <2>1
    <3>. QED BY <3>1, OpeningOrder
  <2>2. CASE others # {}
    <3>1. PICK c \in others : rest = <<Joins(c)>> \o <<[kind |-> "sync", regs |-> doc]>>
      BY <2>2
    <3>. QED BY <3>1, OpeningOrder
  <2>. QED BY <2>1, <2>2
<1> HIDE DEF rest
<1>4. /\ open' = [u \in Tabs |-> open'[u]] /\ map' = [u \in Tabs |-> map'[u]]
      /\ open'[t] = "open" /\ \A u \in Tabs \ {t} : open'[u] = open[u]
  BY <1>1, <1>2 DEF DocShape
<1>5. inbox'[t] = rest
  BY <1>1, ForwardIs
<1>6. Joins(t).kind \notin {"doc", "sync"}
  BY DEF Joins
<1>7. ASSUME NEW u \in Tabs \ {t}
      PROVE  /\ Underway(inbox'[u]) = Underway(inbox[u])
             /\ ~Here(u) => inbox'[u] = inbox[u]
  BY <1>1, <1>6, ForwardsNoDoc
<1>8. /\ Here(t)' /\ ~Here(t) /\ \A u \in Tabs \ {t} : Here(u)' = Here(u)
  BY <1>1, <1>4 DEF Here
<1>9. ASSUME NEW u \in Tabs
      PROVE  /\ map'[u] \in {map[u], Blank}
             /\ Underway(inbox'[u]) \subseteq Underway(inbox[u]) \union {doc}
             /\ ~Here(u)' => map'[u] = Blank /\ inbox'[u] = <<>>
             /\ open'[u] # "left" => open[u] # "left" /\ map'[u] = map[u]
             /\ Here(u)' => \/ doc \in Underway(inbox'[u])
                            \/ Here(u) /\ Underway(inbox[u]) \subseteq Underway(inbox'[u])
  <2>1. CASE u = t
    BY <1>1, <1>3, <1>5, <1>8, <2>1
  <2>2. CASE u # t
    BY <1>1, <1>2, <1>4, <1>7, <1>8, <2>2 DEF DocShape
  <2>. QED BY <2>1, <2>2
<1>10. DocsMeet'
  BY <1>1, <1>2, <1>4, <1>9, MovesKeepMet
<1>11. map'[t] = Blank
  BY <1>1, <1>2, <1>8 DEF DocShape
<1>12. Status(Blank) = "unset"
  BY DEF Blank, Status
<1>13. Asks(t)' /\ Shows(t)'
  BY <1>11, <1>12 DEF Asks, Shows
<1>14. modal' = [modal EXCEPT ![t] = modal'[t]] /\ shown' = [shown EXCEPT ![t] = shown'[t]]
  BY <1>1, <1>2 DEF PagesMeet
<1>. QED BY <1>1, <1>2, <1>8, <1>10, <1>13, <1>14, OtherPagesMeet DEF MeetInv, DocsMeet

LEMMA UsersMeet == ASSUME MeetInv, IsQueues, NEW t \in Tabs, UserStep(t) PROVE MeetInv'
<1>1. CASE RunCode(t) \/ ApproveRun(t) \/ DeclineRun(t)
  BY <1>1, RunCodeMeets, AnswerMeets
<1>2. ASSUME NEW l \in Langs, SelectLanguage(t, l) PROVE MeetInv'
  <2>1. Tell(t, Msg("langRequest", l, TRUE))
    BY <1>2 DEF SelectLanguage
  <2>. QED BY <2>1, TellMeets DEF Msg
<1>3. CASE ApproveLanguage(t)
  <2>1. Tell(t, Msg("langApproved", langModal[t], TRUE))
    BY <1>3 DEF ApproveLanguage
  <2>. QED BY <2>1, TellMeets DEF Msg
<1>4. CASE RejectLanguage(t)
  <2>1. Tell(t, Msg("langResponse", None, FALSE))
    BY <1>4 DEF RejectLanguage
  <2>. QED BY <2>1, TellMeets DEF Msg
<1>5. CASE Translate(t) \/ DiscardTranslation(t)
  BY <1>5, QuietMeets DEF Translate, DiscardTranslation, OnlyText, runVars
<1>6. CASE OfferTranslation(t)
  <2>1. Tell(t, Msg("offer", stamp', TRUE))
    BY <1>6 DEF OfferTranslation
  <2>. QED BY <2>1, TellMeets DEF Msg
<1>7. ASSUME NEW ok \in BOOLEAN, AnswerOffer(t, ok) PROVE MeetInv'
  <2>1. Tell(t, Msg("answer", offerModal[t], ok))
    BY <1>7 DEF AnswerOffer
  <2>. QED BY <2>1, TellMeets DEF Msg
<1>8. CASE Leave(t)
  BY <1>8, LeaveMeets
<1>9. CASE Open(t)
  BY <1>9, OpenMeets
<1>. QED BY <1>1, <1>2, <1>3, <1>4, <1>5, <1>6, <1>7, <1>8, <1>9 DEF UserStep

LEMMA DeliveriesMeet == ASSUME MeetInv, IsQueues, NEW t \in Tabs, Deliver(t) PROVE MeetInv'
<1>1. CASE ReceiveUpdate(t) \/ ReceiveSync(t)
  BY <1>1, DocumentMeets
<1>2. CASE ~ReceiveUpdate(t) /\ ~ReceiveSync(t)
  <2>1. CASE \/ ReceiveLangRequest(t) \/ ReceiveLangApproved(t) \/ ReceiveLangResponse(t)
             \/ ReceiveOffer(t) \/ ReceiveAnswer(t) \/ ReceivePresence(t)
    <3>1. /\ Here(t) /\ inbox[t] # <<>> /\ inbox' = [inbox EXCEPT ![t] = Tail(@)]
          /\ UNCHANGED <<open, map, doc, modal, shown>>
      BY <2>1 DEF ReceiveLangRequest, ReceiveLangApproved, ReceiveLangResponse, ReceiveOffer,
                  ReceiveAnswer, ReceivePresence, Receive, Consume
    <3>2. Head(inbox[t]).kind \notin {"doc", "sync"}
      BY <2>1 DEF ReceiveLangRequest, ReceiveLangApproved, ReceiveLangResponse, ReceiveOffer,
                  ReceiveAnswer, ReceivePresence, Receive
    <3>. QED BY <3>1, <3>2, TakeMeets
  <2>. QED BY <1>2, <2>1 DEF Deliver
<1>. QED BY <1>1, <1>2

LEMMA StepsMeet == ConsentInv /\ MeetInv /\ [Next]_vars => MeetInv'
<1>1. SUFFICES ASSUME ConsentInv, MeetInv, [Next]_vars PROVE MeetInv'
  OBVIOUS
<1>2. IsQueues
  BY <1>1 DEF ConsentInv, InboxesAgree, IsQueues
<1>3. ASSUME NEW t \in Tabs, UserStep(t) \/ Deliver(t) PROVE MeetInv'
  BY <1>1, <1>2, <1>3, UsersMeet, DeliveriesMeet
<1>4. ASSUME NEW t \in Tabs, ResetRejection(t) PROVE MeetInv'
  BY <1>1, <1>2, <1>4, ResetMeets
<1>5. ASSUME NEW t \in Tabs, NEW j \in Jobs, ShowResults(t, j) PROVE MeetInv'
  BY <1>1, <1>2, <1>5, ResultsMeet
<1>6. ASSUME NEW t \in Tabs, DebounceOver(t) \/ ReportOffline(t) \/ Translated(t) PROVE MeetInv'
  BY <1>1, <1>6, QuietMeets DEF DebounceOver, ReportOffline, Translated, OnlyPeer, OnlyText, runVars
<1>7. ASSUME NEW l \in Langs, SaveLanguage(l) PROVE MeetInv'
  BY <1>1, <1>7, QuietMeets DEF SaveLanguage, runVars
<1>8. CASE OnlyExec \/ UNCHANGED vars
  BY <1>1, <1>8, QuietMeets DEF OnlyExec, vars, runVars
<1>. QED BY <1>1, <1>3, <1>4, <1>5, <1>6, <1>7, <1>8 DEF Next

LEMMA NothingToMeet == Init => MeetInv
<1>1. SUFFICES ASSUME Init PROVE MeetInv
  OBVIOUS
<1>2. /\ open = [t \in Tabs |-> open[t]]
      /\ map = [t \in Tabs |-> Blank] /\ doc = Blank /\ inbox = [t \in Tabs |-> <<>>]
      /\ modal = [t \in Tabs |-> FALSE] /\ shown = [t \in Tabs |-> 0]
  BY <1>1 DEF Init
<1>3. Regs = {Blank}
  BY <1>2, NothingUnderway DEF Regs
<1>4. DOMAIN Blank = Keys /\ \A k \in Keys : Blank[k].path = <<>>
  BY DEF Blank, Keys
<1>5. Status(Blank) = "unset"
  BY DEF Blank, Status
<1>6. <<>> \in Seq(Tabs) /\ Upto(<<>>, <<>>)
  <2>1. <<>> \in Seq(Tabs)
    OBVIOUS
  <2>. QED BY <2>1, Order
<1>7. ASSUME NEW k \in Keys PROVE KeyInv(k)
  <2>1. Items(k) = {Blank[k]}
    BY <1>3 DEF Items
  <2>. QED BY <1>2, <1>4, <1>6, <2>1 DEF KeyInv, Latest, Named, Coming, Recalled
<1>8. Done
  <2>1. Items("results") = {Blank["results"]} /\ "results" \in Keys
    BY <1>3 DEF Items, Keys
  <2>. QED BY <1>2, <1>4, <1>5, <2>1 DEF Done, Filled
<1>9. DocShape
  BY <1>2, <1>3, <1>4 DEF DocShape
<1>10. PagesMeet
  BY <1>2, <1>5 DEF PagesMeet, Asks, Shows
<1>. QED BY <1>7, <1>8, <1>9, <1>10 DEF MeetInv, DocsMeet

(* When nothing is under way, the pages have what the server has. *)
LEMMA PagesMet == MeetInv => NobodyWaitsUnasked /\ PeersSeeSameResults
<1>1. SUFFICES ASSUME MeetInv PROVE NobodyWaitsUnasked /\ PeersSeeSameResults
  OBVIOUS
<1>2. DocsMeet /\ PagesMeet /\ Done /\ \A k \in Keys : KeyInv(k)
  BY <1>1 DEF MeetInv, DocsMeet
<1>3. ASSUME Quiet, NEW t \in Tabs, Here(t), NEW k \in Keys PROVE map[t][k] = doc[k]
  <2>1. Underway(inbox[t]) = {}
    BY <1>3, NothingUnderway DEF Quiet
  <2>. QED BY <1>2, <1>3, <2>1 DEF KeyInv, Coming
<1>4. "status" \in Keys /\ "requestedBy" \in Keys /\ "results" \in Keys
  BY DEF Keys
<1>5. ASSUME Quiet, NEW t \in Tabs, Here(t)
      PROVE  /\ Status(map[t]) = Status(doc) /\ RequestedBy(map[t]) = RequestedBy(doc)
             /\ Results(map[t]) = Results(doc)
  BY <1>3, <1>4, <1>5 DEF Status, RequestedBy, Results
<1>6. NobodyWaitsUnasked
  <2>1. SUFFICES ASSUME NEW s \in Tabs, NEW t \in Tabs, Quiet, Here(s), Here(t),
                        Owner[s] # Owner[t], Status(map[s]) = "pending",
                        RequestedBy(map[s]) = Owner[s]
                 PROVE  modal[t]
    BY DEF NobodyWaitsUnasked
  <2>2. Status(map[t]) = "pending" /\ RequestedBy(map[t]) # Owner[t]
    BY <1>5, <2>1
  <2>. QED BY <1>2, <2>1, <2>2 DEF PagesMeet, Asks
<1>7. PeersSeeSameResults
  <2>1. SUFFICES ASSUME Quiet, Status(doc) = "completed", NEW t \in Tabs, Here(t)
                 PROVE  shown[t] = Results(doc)
    BY DEF PeersSeeSameResults
  <2>2. Results(doc) # 0
    BY <1>2, <2>1, ItemsAre DEF Done, Filled, Results
  <2>. QED BY <1>2, <1>5, <2>1, <2>2 DEF PagesMeet, Shows
<1>. QED BY <1>6, <1>7

-----------------------------------------------------------------------------
(* The languages meet: of two approvals that did not cross, each page takes *)
(* the last that it sends or is sent.                                       *)

(* The last approval of a language that a page has heard of or will hear of. *)
Approval(q, i) == i \in 1..Len(q) /\ q[i].kind = "langApproved"
Unapproved(q) == \A i \in 1..Len(q) : q[i].kind # "langApproved"
Settles(q, l, v) == \/ Unapproved(q) /\ v = l
                    \/ \E i \in 1..Len(q) : /\ Approval(q, i) /\ q[i].val = v
                                            /\ \A k \in 1..Len(q) : Approval(q, k) => k <= i

(* Two pages will end up with one language, and not both are to be told. *)
Meet(p, l, q, m) == /\ Unapproved(p) \/ Unapproved(q)
                    /\ \E v : Settles(p, l, v) /\ Settles(q, m, v)

NoneLeft == \A t \in Tabs : open[t] # "left"
LangsMeet == \A s, t \in Tabs : Here(s) /\ Here(t) /\ s # t =>
                Meet(inbox[s], lang[s], inbox[t], lang[t])

(* Before a page is left, each user has one open and nobody opens another. *)
LangInv == /\ lang = [t \in Tabs |-> lang[t]]
           /\ NoneLeft => \A t \in Tabs : \E s \in Tabs : Owner[s] = Owner[t] /\ Here(s)
           /\ NoneLeft /\ ~crossed => LangsMeet

(* A queue that grows by other messages, or loses one. *)
Even(p, q) == /\ Unapproved(p) => Unapproved(q)
              /\ \A l, v : Settles(p, l, v) => Settles(q, l, v)

LEMMA JoinedMessages ==
  ASSUME NEW p, NEW q, IsQueue(p), IsQueue(q)
  PROVE  /\ Len(p) \in Nat /\ Len(q) \in Nat /\ Len(p \o q) = Len(p) + Len(q)
         /\ \A i \in 1..Len(p) : (p \o q)[i] = p[i]
         /\ \A i \in 1..Len(q) : (p \o q)[Len(p) + i] = q[i]
         /\ \A i \in 1..Len(p \o q) : i \in 1..Len(p) \/ i - Len(p) \in 1..Len(q)
<1>1. PICK S : p \in Seq(S)
  BY DEF IsQueue
<1>2. PICK R : q \in Seq(R)
  BY DEF IsQueue
<1>3. p \in Seq(S \union R) /\ q \in Seq(S \union R)
  BY <1>1, <1>2
<1>. QED BY <1>3

LEMMA JoinedIsEven ==
  ASSUME NEW p, NEW q, IsQueue(p), IsQueue(q), Unapproved(q)
  PROVE  Even(p, p \o q)
<1> DEFINE c == p \o q
<1>1. /\ Len(p) \in Nat /\ Len(q) \in Nat /\ Len(c) = Len(p) + Len(q)
      /\ \A i \in 1..Len(p) : c[i] = p[i]
      /\ \A i \in 1..Len(q) : c[Len(p) + i] = q[i]
      /\ \A i \in 1..Len(c) : i \in 1..Len(p) \/ i - Len(p) \in 1..Len(q)
  BY JoinedMessages
<1> HIDE DEF c
<1>2. ASSUME NEW i \in 1..Len(c), Approval(c, i) PROVE i \in 1..Len(p) /\ Approval(p, i)
  <2>1. CASE i \in 1..Len(p)
    BY <1>1, <1>2, <2>1 DEF Approval
  <2>2. CASE i - Len(p) \in 1..Len(q)
    <3>1. c[Len(p) + (i - Len(p))] = q[i - Len(p)] /\ Len(p) + (i - Len(p)) = i
      BY <1>1, <2>2
    <3>. QED BY <1>2, <2>2, <3>1 DEF Approval, Unapproved
  <2>. QED BY <1>1, <2>1, <2>2
<1>3. ASSUME NEW i \in 1..Len(p), Approval(p, i)
      PROVE  i \in 1..Len(c) /\ Approval(c, i) /\ c[i].val = p[i].val
  BY <1>1, <1>3 DEF Approval
<1>4. Unapproved(p) => Unapproved(c)
  BY <1>2 DEF Unapproved, Approval
<1>5. ASSUME NEW l, NEW v, Settles(p, l, v) PROVE Settles(c, l, v)
  <2>1. CASE Unapproved(p) /\ v = l
    BY <1>4, <2>1 DEF Settles
  <2>2. ASSUME NEW i \in 1..Len(p), Approval(p, i), p[i].val = v,
               \A k \in 1..Len(p) : Approval(p, k) => k <= i
        PROVE  Settles(c, l, v)
    <3>1. i \in 1..Len(c) /\ Approval(c, i) /\ c[i].val = v
      BY <1>3, <2>2
    <3>2. \A k \in 1..Len(c) : Approval(c, k) => k <= i
      BY <1>2, <2>2
    <3>. QED BY <3>1, <3>2 DEF Settles
  <2>. QED BY <1>5, <2>1, <2>2 DEF Settles
<1>. QED BY <1>4, <1>5 DEF Even, c

(* The first message is taken. *)
LEMMA TakenSettles ==
  ASSUME NEW q, IsQueue(q), q # <<>>, NEW l, NEW v, Settles(q, l, v)
  PROVE  Settles(Tail(q), IF Head(q).kind = "langApproved" THEN Head(q).val ELSE l, v)
<1> DEFINE r == Tail(q)
           m == IF Head(q).kind = "langApproved" THEN Head(q).val ELSE l
<1>1. PICK S : q \in Seq(S)
  BY DEF IsQueue
<1>2. /\ Len(q) \in Nat \ {0} /\ Len(r) = Len(q) - 1 /\ Head(q) = q[1]
      /\ \A i \in 1..Len(r) : r[i] = q[i + 1]
  BY <1>1
<1> HIDE DEF r
<1>3. ASSUME NEW i \in 1..Len(q), Approval(q, i), i # 1
      PROVE  i - 1 \in 1..Len(r) /\ Approval(r, i - 1) /\ r[i - 1] = q[i]
  <2>1. i - 1 \in 1..Len(r) /\ (i - 1) + 1 = i
    BY <1>2, <1>3
  <2>2. r[i - 1] = q[(i - 1) + 1]
    BY <1>2, <2>1
  <2>. QED BY <1>3, <2>1, <2>2 DEF Approval
<1>4. ASSUME NEW i \in 1..Len(r), Approval(r, i)
      PROVE  i + 1 \in 1..Len(q) /\ Approval(q, i + 1)
  BY <1>2, <1>4 DEF Approval
<1>5. CASE Unapproved(q) /\ v = l
  <2>1. Unapproved(r) /\ Head(q).kind # "langApproved"
    BY <1>2, <1>5 DEF Unapproved
  <2>. QED BY <1>5, <2>1 DEF Settles, r
<1>6. ASSUME NEW i \in 1..Len(q), Approval(q, i), q[i].val = v,
             \A k \in 1..Len(q) : Approval(q, k) => k <= i
      PROVE  Settles(r, m, v)
  <2>1. CASE i = 1
    <3>1. m = v
      BY <1>2, <1>6, <2>1 DEF Approval
    <3>2. ASSUME NEW k \in 1..Len(r) PROVE ~Approval(r, k)
      BY <1>2, <1>4, <1>6, <2>1
    <3>3. Unapproved(r)
      BY <3>2 DEF Unapproved, Approval
    <3>. QED BY <3>1, <3>3 DEF Settles
  <2>2. CASE i # 1
    <3>1. i - 1 \in 1..Len(r) /\ Approval(r, i - 1) /\ r[i - 1].val = v
      BY <1>3, <1>6, <2>2
    <3>2. ASSUME NEW k \in 1..Len(r), Approval(r, k) PROVE k <= i - 1
      <4>1. k + 1 \in 1..Len(q) /\ Approval(q, k + 1)
        BY <1>4, <3>2
      <4>2. k + 1 <= i
        BY <1>6, <4>1
      <4>. QED BY <1>2, <4>2
    <3>. QED BY <3>1, <3>2 DEF Settles
  <2>. QED BY <2>1, <2>2
<1>. QED BY <1>5, <1>6 DEF Settles, r

LEMMA TakenUnapproved ==
  ASSUME NEW q, IsQueue(q), q # <<>>, Unapproved(q) PROVE Unapproved(Tail(q))
<1>1. PICK S : q \in Seq(S)
  BY DEF IsQueue
<1>2. /\ Len(Tail(q)) = Len(q) - 1 /\ Len(q) \in Nat
      /\ \A i \in 1..Len(Tail(q)) : Tail(q)[i] = q[i + 1]
  BY <1>1
<1>. QED BY <1>2 DEF Unapproved

LEMMA TakenIsEven ==
  ASSUME NEW q, IsQueue(q), q # <<>>, Head(q).kind # "langApproved" PROVE Even(q, Tail(q))
<1>1. ASSUME NEW l, NEW v, Settles(q, l, v) PROVE Settles(Tail(q), l, v)
  BY <1>1, TakenSettles
<1>. QED BY <1>1, TakenUnapproved DEF Even

(* An approval is the last word. *)
LEMMA ApprovedSettles ==
  ASSUME NEW q, IsQueue(q), NEW m, m.kind = "langApproved", NEW l
  PROVE  Settles(q \o <<m>>, l, m.val)
<1> DEFINE c == q \o <<m>>
<1>1. PICK S : q \in Seq(S)
  BY DEF IsQueue
<1>2. q \in Seq(S \union {m}) /\ <<m>> \in Seq(S \union {m})
  BY <1>1
<1>3. Len(q) \in Nat /\ Len(c) = Len(q) + 1 /\ c[Len(q) + 1] = m
  BY <1>2
<1> HIDE DEF c
<1>4. Len(c) \in 1..Len(c) /\ Approval(c, Len(c)) /\ c[Len(c)].val = m.val
  BY <1>3 DEF Approval
<1>5. \A k \in 1..Len(c) : Approval(c, k) => k <= Len(c)
  BY <1>3
<1>. QED BY <1>4, <1>5 DEF Settles, c

LEMMA EvenMeet ==
  ASSUME NEW p, NEW q, NEW l, NEW m, NEW x, NEW y, Meet(p, l, q, m), Even(p, x), Even(q, y)
  PROVE  Meet(x, l, y, m)
  BY DEF Meet, Even

LEMMA MeetBoth ==
  ASSUME NEW p, NEW q, NEW l, NEW m, Meet(p, l, q, m) PROVE Meet(q, m, p, l)
  BY DEF Meet

LEMMA EvenWithItself == ASSUME NEW q PROVE Even(q, q)
  BY DEF Even

LEMMA DocumentsDoNotApprove ==
  ASSUME NEW rs, IsQueue(rs) PROVE IsQueue(DocMsgs(rs)) /\ Unapproved(DocMsgs(rs))
<1>1. PICK S : rs \in Seq(S)
  BY DEF IsQueue
<1>2. DocMsgs(rs) \in Seq({[kind |-> "doc", regs |-> x] : x \in S})
      /\ \A i \in 1..Len(DocMsgs(rs)) : DocMsgs(rs)[i].kind = "doc"
  BY <1>1 DEF DocMsgs
<1>. QED BY <1>2 DEF IsQueue, Unapproved

LEMMA ForwardsEven ==
  ASSUME IsQueues, NEW t \in Tabs, NEW ms, IsQueue(ms), Unapproved(ms),
         NEW rest, Even(inbox[t], rest), Forward(t, ms, rest), NEW u \in Tabs
  PROVE  Even(inbox[u], inbox'[u])
<1>1. CASE u = t
  BY <1>1, ForwardIs
<1>2. CASE u # t
  <2>1. inbox'[u] = IF Here(u) THEN inbox[u] \o ms ELSE inbox[u]
    BY <1>2, ForwardIs
  <2>2. Even(inbox[u], inbox[u] \o ms) /\ Even(inbox[u], inbox[u])
    BY JoinedIsEven, EvenWithItself DEF IsQueues
  <2>. QED BY <2>1, <2>2
<1>. QED BY <1>1, <1>2

(* A step that approves nothing. *)
LEMMA LangStays ==
  ASSUME LangInv, UNCHANGED <<open, lang, crossed>>,
         \A u \in Tabs : Even(inbox[u], inbox'[u])
  PROVE  LangInv'
<1>1. NoneLeft' = NoneLeft /\ \A u \in Tabs : Here(u)' = Here(u)
  BY DEF NoneLeft, Here
<1>2. ASSUME NoneLeft, ~crossed, NEW s \in Tabs, NEW t \in Tabs, Here(s), Here(t), s # t
      PROVE  Meet(inbox'[s], lang[s], inbox'[t], lang[t])
  <2>1. Meet(inbox[s], lang[s], inbox[t], lang[t])
    BY <1>2 DEF LangInv, LangsMeet
  <2>2. Even(inbox[s], inbox'[s]) /\ Even(inbox[t], inbox'[t])
    OBVIOUS
  <2>. QED BY <2>1, <2>2, EvenMeet
<1>. QED BY <1>1, <1>2 DEF LangInv, LangsMeet

LEMMA TellKeepsLangs ==
  ASSUME LangInv, IsQueues, NEW t \in Tabs, NEW m, m.kind # "langApproved", Tell(t, m),
         UNCHANGED <<lang, crossed>>
  PROVE  LangInv'
<1>1. Forward(t, <<m>>, inbox[t]) /\ open' = open
  BY DEF Tell
<1>2. IsQueue(<<m>>) /\ Unapproved(<<m>>)
  BY Single DEF Unapproved
<1>3. \A u \in Tabs : Even(inbox[u], inbox'[u])
  BY <1>1, <1>2, EvenWithItself, ForwardsEven
<1>. QED BY <1>1, <1>3, LangStays

LEMMA WritesKeepLangs ==
  ASSUME LangInv, IsQueues, NEW t \in Tabs, NEW rs, IsQueue(rs), NEW rest,
         Even(inbox[t], rest), Forward(t, DocMsgs(rs), rest), UNCHANGED <<open, lang, crossed>>
  PROVE  LangInv'
<1>1. \A u \in Tabs : Even(inbox[u], inbox'[u])
  BY DocumentsDoNotApprove, ForwardsEven
<1>. QED BY <1>1, LangStays

LEMMA QuietKeepsLangs ==
  ASSUME LangInv, UNCHANGED <<open, inbox, lang, crossed>> PROVE LangInv'
  BY EvenWithItself, LangStays

LEMMA TakeKeepsLangs ==
  ASSUME LangInv, IsQueues, NEW t \in Tabs, inbox[t] # <<>>,
         Head(inbox[t]).kind # "langApproved", inbox' = [inbox EXCEPT ![t] = Tail(@)],
         UNCHANGED <<open, lang, crossed>>
  PROVE  LangInv'
<1>1. ASSUME NEW u \in Tabs PROVE Even(inbox[u], inbox'[u])
  <2>1. inbox'[u] = IF u = t THEN Tail(inbox[t]) ELSE inbox[u]
    BY DEF IsQueues
  <2>2. IsQueue(inbox[t])
    BY DEF IsQueues
  <2>3. Even(inbox[u], inbox[u]) /\ Even(inbox[t], Tail(inbox[t]))
    BY <2>2, EvenWithItself, TakenIsEven
  <2>. QED BY <2>1, <2>3
<1>. QED BY <1>1, LangStays

(* The peers are two, so that what holds of one and each other holds. *)
LEMMA OneMeets ==
  ASSUME Alone, NEW t \in Tabs, Here(t), NEW s \in Tabs, Here(s), NEW u \in Tabs, Here(u), s # u
  PROVE  s = t \/ u = t
  BY TwoUsers DEF Alone

LEMMA ApproveKeepsLangs ==
  ASSUME LangInv, IsQueues, Alone, NEW t \in Tabs, ApproveLanguage(t) PROVE LangInv'
<1> DEFINE m == Msg("langApproved", langModal[t], TRUE)
<1>1. /\ Here(t) /\ lang' = [lang EXCEPT ![t] = langModal[t]]
      /\ crossed' = (crossed \/ \E i \in DOMAIN inbox[t] : inbox[t][i].kind = "langApproved")
      /\ Forward(t, <<m>>, inbox[t]) /\ open' = open
  BY DEF ApproveLanguage, Tell
<1>2. m.kind = "langApproved" /\ m.val = langModal[t]
  BY DEF Msg
<1> HIDE DEF m
<1>3. NoneLeft' = NoneLeft /\ \A u \in Tabs : Here(u)' = Here(u)
  BY <1>1 DEF NoneLeft, Here
<1>4. /\ lang' = [u \in Tabs |-> lang'[u]] /\ lang'[t] = langModal[t]
      /\ \A u \in Tabs \ {t} : lang'[u] = lang[u]
  BY <1>1 DEF LangInv
<1>5. inbox'[t] = inbox[t] /\ \A u \in Tabs \ {t} : Here(u) => inbox'[u] = inbox[u] \o <<m>>
  BY <1>1, ForwardIs
<1>6. ASSUME ~crossed', NEW s \in Tabs, Here(s), s # t
      PROVE  Meet(inbox'[s], lang'[s], inbox'[t], lang'[t])
  <2>1. IsQueue(inbox[t]) /\ IsQueue(inbox[s])
    BY DEF IsQueues
  <2>2. PICK S : inbox[t] \in Seq(S)
    BY <2>1 DEF IsQueue
  <2>3. DOMAIN inbox[t] = 1..Len(inbox[t])
    BY <2>2
  <2>4. Unapproved(inbox[t])
    BY <1>1, <1>6, <2>3 DEF Unapproved
  <2>5. Settles(inbox[t], langModal[t], langModal[t])
    BY <2>4 DEF Settles
  <2>6. Settles(inbox[s] \o <<m>>, lang'[s], langModal[t])
    BY <1>2, <2>1, ApprovedSettles
  <2>7. inbox'[s] = inbox[s] \o <<m>>
    BY <1>5, <1>6
  <2>. QED BY <1>4, <1>5, <2>4, <2>5, <2>6, <2>7 DEF Meet
<1>7. ASSUME ~crossed', NEW s \in Tabs, NEW u \in Tabs, Here(s), Here(u), s # u
      PROVE  Meet(inbox'[s], lang'[s], inbox'[u], lang'[u])
  <2>1. s = t \/ u = t
    BY <1>1, <1>7, OneMeets
  <2>2. CASE u = t
    BY <1>6, <1>7, <2>2
  <2>3. CASE s = t
    <3>1. Meet(inbox'[u], lang'[u], inbox'[t], lang'[t])
      BY <1>6, <1>7, <2>3
    <3>. QED BY <2>3, <3>1, MeetBoth
  <2>. QED BY <2>1, <2>2, <2>3
<1>8. NoneLeft => \A u \in Tabs : \E s \in Tabs : Owner[s] = Owner[u] /\ Here(s)
  BY DEF LangInv
<1>9. NoneLeft' => \A u \in Tabs : \E s \in Tabs : Owner[s] = Owner[u] /\ Here(s)'
  BY <1>3, <1>8
<1>. QED BY <1>3, <1>4, <1>7, <1>9 DEF LangInv, LangsMeet

LEMMA ApprovedKeepsLangs ==
  ASSUME LangInv, IsQueues, Alone, NEW t \in Tabs, ReceiveLangApproved(t) PROVE LangInv'
<1> DEFINE q == inbox[t]
<1>1. /\ Here(t) /\ q # <<>> /\ Head(q).kind = "langApproved"
      /\ lang' = [lang EXCEPT ![t] = Head(q).val]
      /\ inbox' = [inbox EXCEPT ![t] = Tail(@)] /\ UNCHANGED <<open, crossed>>
  BY DEF ReceiveLangApproved, Receive, Consume
<1>2. IsQueue(q)
  BY DEF IsQueues
<1>3. NoneLeft' = NoneLeft /\ \A u \in Tabs : Here(u)' = Here(u)
  BY <1>1 DEF NoneLeft, Here
<1>4. /\ lang' = [u \in Tabs |-> lang'[u]] /\ lang'[t] = Head(q).val
      /\ \A u \in Tabs \ {t} : lang'[u] = lang[u]
  BY <1>1 DEF LangInv
<1>5. inbox'[t] = Tail(q) /\ \A u \in Tabs \ {t} : inbox'[u] = inbox[u]
  BY <1>1 DEF IsQueues
<1>6. ASSUME NoneLeft, ~crossed, NEW s \in Tabs, Here(s), s # t
      PROVE  Meet(inbox'[s], lang'[s], inbox'[t], lang'[t])
  <2>1. Meet(inbox[s], lang[s], q, lang[t])
    BY <1>1, <1>6 DEF LangInv, LangsMeet
  <2>2. ~Unapproved(q)
    <3>1. PICK S : q \in Seq(S)
      BY <1>2 DEF IsQueue
    <3>2. 1 \in 1..Len(q) /\ q[1] = Head(q)
      BY <1>1, <3>1
    <3>. QED BY <1>1, <3>2 DEF Unapproved
  <2>3. PICK v : Settles(inbox[s], lang[s], v) /\ Settles(q, lang[t], v)
    BY <2>1 DEF Meet
  <2>4. Settles(Tail(q), Head(q).val, v)
    BY <1>1, <1>2, <2>3, TakenSettles
  <2>5. Unapproved(inbox[s])
    BY <2>1, <2>2 DEF Meet
  <2>6. inbox'[s] = inbox[s] /\ lang'[s] = lang[s]
    BY <1>4, <1>5, <1>6
  <2>. QED BY <1>4, <1>5, <2>3, <2>4, <2>5, <2>6 DEF Meet
<1>7. ASSUME NoneLeft, ~crossed, NEW s \in Tabs, NEW u \in Tabs, Here(s), Here(u), s # u
      PROVE  Meet(inbox'[s], lang'[s], inbox'[u], lang'[u])
  <2>1. s = t \/ u = t
    BY <1>1, <1>7, OneMeets
  <2>2. CASE u = t
    BY <1>6, <1>7, <2>2
  <2>3. CASE s = t
    <3>1. Meet(inbox'[u], lang'[u], inbox'[t], lang'[t])
      BY <1>6, <1>7, <2>3
    <3>. QED BY <2>3, <3>1, MeetBoth
  <2>. QED BY <2>1, <2>2, <2>3
<1>8. NoneLeft => \A u \in Tabs : \E s \in Tabs : Owner[s] = Owner[u] /\ Here(s)
  BY DEF LangInv
<1>9. NoneLeft' => \A u \in Tabs : \E s \in Tabs : Owner[s] = Owner[u] /\ Here(s)'
  BY <1>3, <1>8
<1>. QED BY <1>1, <1>3, <1>4, <1>7, <1>9 DEF LangInv, LangsMeet

LEMMA LeaveKeepsLangs ==
  ASSUME LangInv, PeerTypes, NEW t \in Tabs, Leave(t) PROVE LangInv'
<1>1. open'[t] = "left" /\ lang' = lang
  BY DEF Leave, PeerTypes
<1>2. ~NoneLeft'
  BY <1>1 DEF NoneLeft
<1>. QED BY <1>1, <1>2 DEF LangInv

(* The page is opened a second time only by a user who left it. *)
LEMMA OpenKeepsLangs ==
  ASSUME LangInv, PeerTypes, NEW t \in Tabs, Open(t) PROVE LangInv'
<1>1. /\ open[t] = "not yet" /\ open' = [open EXCEPT ![t] = "open"]
      /\ \A s \in Tabs : Here(s) => Owner[s] # Owner[t]
      /\ lang' = [lang EXCEPT ![t] = rowLang]
  BY DEF Open
<1>2. lang' = [u \in Tabs |-> lang'[u]]
  BY <1>1 DEF LangInv
<1>3. ~NoneLeft
  BY <1>1 DEF LangInv
<1>4. PICK u \in Tabs : open[u] = "left"
  BY <1>3 DEF NoneLeft
<1>5. open'[u] = "left"
  BY <1>1, <1>4 DEF PeerTypes
<1>6. ~NoneLeft'
  BY <1>5 DEF NoneLeft
<1>. QED BY <1>2, <1>6 DEF LangInv

LEMMA UsersKeepLangs ==
  ASSUME LangInv, PeerInv, IsQueues, NEW t \in Tabs, UserStep(t) PROVE LangInv'
<1>1. ASSUME NEW r, NEW after, IsQueue(after), Write(t, r, after), OnlyRun PROVE LangInv'
  <2> DEFINE ran == IF MustExecute(t, r) THEN <<Executing(t, r)>> ELSE <<>>
             rs == <<r>> \o ran \o after
  <2>1. IsQueue(ran) /\ IsQueue(<<r>>)
    BY EmptyQueue, Single
  <2>2. IsQueue(rs)
    BY <1>1, <2>1, JoinedQueues
  <2>3. Forward(t, DocMsgs(rs), inbox[t]) /\ UNCHANGED <<open, lang, crossed>>
    BY <1>1 DEF Write, OnlyRun, langVars
  <2> HIDE DEF rs
  <2>. QED BY <2>2, <2>3, EvenWithItself, WritesKeepLangs
<1>2. CASE RunCode(t)
  BY <1>1, <1>2, EmptyQueue DEF RunCode
<1>3. CASE ApproveRun(t)
  <2> DEFINE r == Set(map[t], "status", t, "approved")
  <2>1. IsQueue(<<Executing(t, r)>>)
    BY Single
  <2>2. Write(t, r, <<Executing(t, r)>>) /\ OnlyRun
    BY <1>3 DEF ApproveRun
  <2>. QED BY <1>1, <2>1, <2>2
<1>4. CASE DeclineRun(t)
  BY <1>1, <1>4, EmptyQueue DEF DeclineRun
<1>5. ASSUME NEW l \in Langs, SelectLanguage(t, l) PROVE LangInv'
  <2>1. Tell(t, Msg("langRequest", l, TRUE)) /\ UNCHANGED <<lang, crossed>>
    BY <1>5 DEF SelectLanguage
  <2>. QED BY <2>1, TellKeepsLangs DEF Msg
<1>6. CASE ApproveLanguage(t)
  BY <1>6, ApproveKeepsLangs DEF PeerInv
<1>7. CASE RejectLanguage(t)
  <2>1. Tell(t, Msg("langResponse", None, FALSE)) /\ UNCHANGED <<lang, crossed>>
    BY <1>7 DEF RejectLanguage
  <2>. QED BY <2>1, TellKeepsLangs DEF Msg
<1>8. CASE Translate(t) \/ DiscardTranslation(t)
  BY <1>8, QuietKeepsLangs DEF Translate, DiscardTranslation, OnlyText, runVars, langVars
<1>9. CASE OfferTranslation(t)
  <2>1. Tell(t, Msg("offer", stamp', TRUE)) /\ UNCHANGED <<lang, crossed>>
    BY <1>9 DEF OfferTranslation, langVars
  <2>. QED BY <2>1, TellKeepsLangs DEF Msg
<1>10. ASSUME NEW ok \in BOOLEAN, AnswerOffer(t, ok) PROVE LangInv'
  <2>1. Tell(t, Msg("answer", offerModal[t], ok)) /\ UNCHANGED <<lang, crossed>>
    BY <1>10 DEF AnswerOffer, langVars
  <2>. QED BY <2>1, TellKeepsLangs DEF Msg
<1>11. CASE Leave(t)
  BY <1>11, LeaveKeepsLangs DEF PeerInv
<1>12. CASE Open(t)
  BY <1>12, OpenKeepsLangs DEF PeerInv
<1>. QED BY <1>2, <1>3, <1>4, <1>5, <1>6, <1>7, <1>8, <1>9, <1>10, <1>11, <1>12 DEF UserStep

LEMMA DeliveriesKeepLangs ==
  ASSUME LangInv, PeerInv, IsQueues, NEW t \in Tabs, Deliver(t) PROVE LangInv'
<1>1. CASE ReceiveUpdate(t) \/ ReceiveSync(t)
  <2> DEFINE r == Merge(map[t], Head(inbox[t]).regs)
             ran == IF MustExecute(t, r) THEN <<Executing(t, r)>> ELSE <<>>
  <2>1. /\ Forward(t, DocMsgs(ran), Tail(inbox[t])) /\ inbox[t] # <<>>
        /\ Head(inbox[t]).kind # "langApproved" /\ UNCHANGED <<open, lang, crossed>>
    BY <1>1 DEF ReceiveUpdate, ReceiveSync, Receive, OnlyRun, langVars
  <2>2. IsQueue(ran) /\ IsQueue(inbox[t])
    BY EmptyQueue, Single DEF IsQueues
  <2> HIDE DEF ran
  <2>3. Even(inbox[t], Tail(inbox[t]))
    BY <2>1, <2>2, TakenIsEven
  <2>. QED BY <2>1, <2>2, <2>3, WritesKeepLangs
<1>2. CASE ReceiveLangApproved(t)
  BY <1>2, ApprovedKeepsLangs DEF PeerInv
<1>3. CASE \/ ReceiveLangRequest(t) \/ ReceiveLangResponse(t) \/ ReceiveOffer(t)
           \/ ReceiveAnswer(t) \/ ReceivePresence(t)
  <2>1. /\ inbox[t] # <<>> /\ inbox' = [inbox EXCEPT ![t] = Tail(@)]
        /\ UNCHANGED <<open, lang, crossed>>
    BY <1>3 DEF ReceiveLangRequest, ReceiveLangResponse, ReceiveOffer, ReceiveAnswer,
                ReceivePresence, Receive, Consume, langVars
  <2>2. Head(inbox[t]).kind # "langApproved"
    BY <1>3 DEF ReceiveLangRequest, ReceiveLangResponse, ReceiveOffer, ReceiveAnswer,
                ReceivePresence, Receive
  <2>. QED BY <2>1, <2>2, TakeKeepsLangs
<1>. QED BY <1>1, <1>2, <1>3 DEF Deliver

LEMMA StepsKeepLangs == ConsentInv /\ PeerInv /\ LangInv /\ [Next]_vars => LangInv'
<1>1. SUFFICES ASSUME ConsentInv, PeerInv, LangInv, [Next]_vars PROVE LangInv'
  OBVIOUS
<1>2. IsQueues
  BY <1>1 DEF ConsentInv, InboxesAgree, IsQueues
<1>3. ASSUME NEW t \in Tabs, UserStep(t) \/ Deliver(t) PROVE LangInv'
  BY <1>1, <1>2, <1>3, UsersKeepLangs, DeliveriesKeepLangs
<1>4. ASSUME NEW t \in Tabs, NEW rs, IsQueue(rs), Forward(t, DocMsgs(rs), inbox[t]),
             UNCHANGED <<open, lang, crossed>>
      PROVE  LangInv'
  BY <1>1, <1>2, <1>4, EvenWithItself, WritesKeepLangs
<1>5. ASSUME NEW t \in Tabs, ResetRejection(t) PROVE LangInv'
  <2>1. UNCHANGED <<open, lang, crossed>>
    BY <1>5 DEF ResetRejection, OnlyRun, langVars
  <2>2. CASE Status(map[t]) = "rejected"
    <3>1. Forward(t, DocMsgs(<<Set(map[t], "status", t, "idle")>>), inbox[t])
      BY <1>5, <2>2 DEF ResetRejection
    <3>. QED BY <1>4, <2>1, <3>1, Single
  <2>3. CASE Status(map[t]) # "rejected"
    <3>1. inbox' = inbox
      BY <1>5, <2>3 DEF ResetRejection
    <3>. QED BY <1>1, <2>1, <3>1, QuietKeepsLangs
  <2>. QED BY <2>2, <2>3
<1>6. ASSUME NEW t \in Tabs, NEW j \in Jobs, ShowResults(t, j) PROVE LangInv'
  <2> DEFINE r == Set(map[t], "status", t, "completed")
             s == Set(r, "results", t, j)
  <2>1. Forward(t, DocMsgs(<<r, s>>), inbox[t]) /\ UNCHANGED <<open, lang, crossed>>
    BY <1>6 DEF ShowResults, OnlyRun, langVars
  <2>2. <<r, s>> \in Seq({r, s})
    OBVIOUS
  <2>3. IsQueue(<<r, s>>)
    BY <2>2 DEF IsQueue
  <2>. QED BY <1>4, <2>1, <2>3
<1>7. ASSUME NEW t \in Tabs, DebounceOver(t) \/ ReportOffline(t) \/ Translated(t) PROVE LangInv'
  BY <1>1, <1>7, QuietKeepsLangs DEF DebounceOver, ReportOffline, Translated, OnlyPeer, OnlyText,
                                     runVars, langVars
<1>8. ASSUME NEW l \in Langs, SaveLanguage(l) PROVE LangInv'
  BY <1>1, <1>8, QuietKeepsLangs DEF SaveLanguage, runVars
<1>9. CASE OnlyExec \/ UNCHANGED vars
  BY <1>1, <1>9, QuietKeepsLangs DEF OnlyExec, vars, runVars, langVars
<1>. QED BY <1>1, <1>3, <1>5, <1>6, <1>7, <1>8, <1>9 DEF Next

(* A user's first tab is open. *)
LEMMA LangsInitially == Init => LangInv
<1>1. SUFFICES ASSUME Init PROVE LangInv
  OBVIOUS
<1>2. /\ open = [t \in Tabs |-> IF \E s \in Tabs : s < t /\ Owner[s] = Owner[t]
                                THEN "not yet" ELSE "open"]
      /\ inbox = [t \in Tabs |-> <<>>] /\ lang = [t \in Tabs |-> FirstLang]
  BY <1>1 DEF Init
<1>3. ASSUME NEW t \in Tabs PROVE \E s \in Tabs : Owner[s] = Owner[t] /\ Here(s)
  <2> DEFINE N == {s \in Tabs : Owner[s] = Owner[t]}
  <2>1. N \subseteq Nat /\ N # {}
    BY TabsAreNumbers
  <2>2. PICK s \in N : \A x \in N : s <= x
    BY <2>1, Least
  <2>3. ~\E x \in Tabs : x < s /\ Owner[x] = Owner[s]
    BY <2>1, <2>2
  <2>. QED BY <1>2, <2>2, <2>3 DEF Here
<1>4. Meet(<<>>, FirstLang, <<>>, FirstLang)
  BY DEF Meet, Settles, Unapproved
<1>5. LangsMeet
  BY <1>2, <1>4 DEF LangsMeet
<1>. QED BY <1>2, <1>3, <1>5 DEF LangInv

LEMMA LangsAgree == LangInv => PeersUseOneLanguage
<1>1. SUFFICES ASSUME LangInv, Quiet, ~crossed, \A t \in Tabs : open[t] # "left",
                      NEW s \in Tabs, NEW t \in Tabs, Here(s), Here(t), s # t
               PROVE  lang[s] = lang[t]
  BY DEF PeersUseOneLanguage
<1>2. Meet(<<>>, lang[s], <<>>, lang[t])
  BY <1>1 DEF LangInv, LangsMeet, NoneLeft, Quiet
<1>3. ASSUME NEW l, NEW v, Settles(<<>>, l, v) PROVE v = l
  BY <1>3 DEF Settles
<1>. QED BY <1>2, <1>3 DEF Meet

-----------------------------------------------------------------------------

(* When nothing is under way, whatever was written at the same time or      *)
(* crossed: the peer of a user who waits is asked, both pages show the      *)
(* results of one run, and they use one language unless two approvals       *)
(* crossed or a page was reloaded.                                          *)
THEOREM PagesMeetAgain == Spec => []PagesConverge
<1>1. Init => ConsentInv /\ PeerInv /\ MeetInv /\ LangInv
  BY NothingAgreedYet, PeersInitially, NothingToMeet, LangsInitially
<1>2. /\ ConsentInv /\ PeerInv /\ MeetInv /\ LangInv /\ [Next]_vars
      => (ConsentInv /\ PeerInv /\ MeetInv /\ LangInv)'
  BY PagesConsent, StepsKeepPeers, StepsMeet, StepsKeepLangs
<1>3. ConsentInv /\ PeerInv /\ MeetInv /\ LangInv => PagesConverge
  BY PagesMet, LangsAgree DEF PagesConverge
<1>. QED BY <1>1, <1>2, <1>3, PTL DEF Spec
=============================================================================
