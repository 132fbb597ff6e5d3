----------------------------- MODULE Workspace -----------------------------
(***************************************************************************)
(* The workspace page in the browsers of two peers. Running code is agreed *)
(* on through the Y.Map codeExecution of the shared document; a change of  *)
(* language and an AI translation through awareness messages. An agreed    *)
(* run is posted to the Executor.                                          *)
(*                                                                         *)
(* A key of a Y.Map is a register. A write extends the path of the item it *)
(* saw with the client's id, and of two concurrent items the one with the  *)
(* later path wins (Yjs orders the items of a key by origin, then client). *)
(* The server merges and forwards; one connection keeps its order.         *)
(***************************************************************************)
EXTENDS Executor, Sequences

CONSTANTS Tabs,      \* Yjs client ids, one for every time the page is opened
          Owner,     \* the user of a tab
          Langs,     \* programming languages
          FirstLang, \* the language of the match
          None,
          MaxActs    \* bound: what the users do, in total

ASSUME WorkspaceAssumption == /\ Tabs \subseteq Nat
                              /\ FirstLang \in Langs
                              /\ None \notin Langs
                              /\ 0 \notin Jobs /\ 0 \notin Tabs
                              /\ \E s, t \in Tabs :
                                    /\ Owner[s] # Owner[t]
                                    /\ \A u \in Tabs : Owner[u] \in {Owner[s], Owner[t]}

VARIABLES
    open,       \* whether the page is shown in a tab: "not yet", "open" or "left"
    map,        \* codeExecution as the tab's document has it
    doc,        \* codeExecution as the server has it
    inbox,      \* what the server has forwarded to a tab
    modal,      \* showApprovalModal
    timers,     \* pending timeouts that reset a rejection
    awaits,     \* posts to /api/execute under way
    shown,      \* execResults, as the job they come from; 0: none
    lang,       \* currentLanguage
    rowLang,    \* the column language of the session
    patches,    \* PATCH /language requests under way
    langAsk,    \* pendingLanguageChange
    langModal,  \* peerLanguageRequestLang
    draft,      \* the AI translation: "none", "waiting" or "ready"
    offer,      \* pendingTranslation, as its timestamp; 0: none
    offerModal, \* peerTranslationRequestLang, as its timestamp; 0: none
    stamp,      \* timestamps given out
    present,    \* the other clients in the tab's awareness
    joined,     \* hasPartnerJoined
    online,     \* partnerOnline
    armed,      \* partnerOfflineTimerRef is set
    asking,     \* requests that precede the report that the partner is offline
    acts,       \* what the users did
    grant,      \* history: the approving item a job was executed on
    ranBy,      \* history: the tab that executed it
    hasty,      \* history: a run was asked for behind the peer's open question
    consent,    \* history: translations the peer agreed to
    applied,    \* history: translations put into the shared text
    crossed     \* history: two approvals of a language crossed

runVars == <<open, map, doc, inbox, modal, timers, awaits, shown, grant, ranBy,
             hasty>>
langVars == <<lang, rowLang, patches, langAsk, langModal, crossed>>
textVars == <<draft, offer, offerModal, stamp, consent, applied>>
peerVars == <<present, joined, online, armed, asking>>
vars == <<runVars, peerVars, langVars, textVars, acts, execVars>>

(* ------------------------------ the Y.Map ------------------------------ *)

Blank == [k \in {"status", "requestedBy", "results"} |->
             [path |-> <<>>, val |-> IF k = "results" THEN 0 ELSE "unset"]]

(* The item of path p stands behind the item of path q in the list of a key. *)
Behind(p, q) == \E k \in 1..Len(p) : /\ k <= Len(q) + 1
                                     /\ SubSeq(p, 1, k - 1) = SubSeq(q, 1, k - 1)
                                     /\ k = Len(q) + 1 \/ p[k] > q[k]

Merge(r, s) == [k \in DOMAIN r |-> IF Behind(s[k].path, r[k].path) THEN s[k] ELSE r[k]]

Set(r, k, t, v) == [r EXCEPT ![k] = [path |-> Append(@.path, t), val |-> v]]

LastWriter(p) == IF p = <<>> THEN 0 ELSE p[Len(p)]

Status(r) == r["status"].val
RequestedBy(r) == r["requestedBy"].val
Results(r) == r["results"].val

Here(t) == open[t] = "open"

(* ----------------------------- the observer ---------------------------- *)

ModalAfter(t, r) ==
    IF Status(r) = "pending" /\ RequestedBy(r) # Owner[t] THEN TRUE
    ELSE modal[t] /\ Status(r) \notin {"approved", "running", "completed", "rejected"}

(* Mutant of ShownAfter: results are read when the run starts to show. *)
ShownAtRunning(t, r) == IF Status(r) = "running" /\ Results(r) # 0 THEN Results(r) ELSE shown[t]

ShownAfter(t, r) == IF Status(r) = "completed" /\ Results(r) # 0
                    THEN Results(r) ELSE shown[t]

MustExecute(t, r) == Status(r) = "approved" /\ RequestedBy(r) = Owner[t]

(* Mutant of Executing: running is not written before the post. *)
ExecutingLater(t, r) == r

(* executeCode up to its first await. *)
Executing(t, r) == IF MustExecute(t, r) THEN Set(r, "status", t, "running") ELSE r

DocMsgs(rs) == [i \in DOMAIN rs |-> [kind |-> "doc", regs |-> rs[i]]]
Msg(k, v, ok) == [kind |-> k, val |-> v, ok |-> ok]

(* The other open tabs get ms; with rest, tab t has consumed a message. *)
Forward(t, ms, rest) ==
    inbox' = [s \in Tabs |-> IF s = t THEN rest
                             ELSE IF Here(s) THEN inbox[s] \o ms ELSE inbox[s]]

IdleJobs == {j \in Jobs : stage[j] = "idle"}

Execute(t, r) ==
    IF MustExecute(t, r)
    THEN \E j \in IdleJobs :
            /\ \A i \in IdleJobs : j <= i
            /\ Submit(j)
            /\ awaits' = [awaits EXCEPT ![t] = @ \union {j}]
            /\ grant' = [grant EXCEPT ![j] = r["status"].path]
            /\ ranBy' = [ranBy EXCEPT ![j] = t]
    ELSE UNCHANGED <<awaits, grant, ranBy, execVars>>

(* The document of tab t becomes r, and its observer runs. *)
Observe(t, r) ==
    LET s == Executing(t, r) IN
    /\ map' = [map EXCEPT ![t] = s]
    /\ doc' = Merge(doc, s)
    /\ modal' = [modal EXCEPT ![t] = ModalAfter(t, r) /\ ~MustExecute(t, r)]
    /\ timers' = [timers EXCEPT ![t] = IF Status(r) = "rejected" THEN @ + 1 ELSE @]
    /\ shown' = [shown EXCEPT ![t] = ShownAfter(t, r)]
    /\ Execute(t, r)

(* Tab t writes r; first is what its peer is sent before and after the *)
(* reaction of its own observer.                                       *)
Write(t, r, after) ==
    LET ran == IF MustExecute(t, r) THEN <<Executing(t, r)>> ELSE <<>> IN
    /\ Observe(t, r)
    /\ Forward(t, DocMsgs(<<r>> \o ran \o after), inbox[t])

Act == /\ acts < MaxActs
       /\ acts' = acts + 1

OnlyRun == UNCHANGED <<open, langVars, textVars, peerVars>>

(* -------------------------- running the code --------------------------- *)

RunCode(t) ==
    /\ Here(t) /\ Act
    /\ Status(map[t]) \notin {"pending", "running"}
    /\ Write(t, Set(Set(map[t], "requestedBy", t, Owner[t]), "status", t, "pending"), <<>>)
    /\ hasty' = (hasty \/ modal[t])
    /\ OnlyRun

(* Setting approvedBy is an update of its own, which nobody reads. *)
ApproveRun(t) ==
    /\ Here(t) /\ modal[t] /\ Act
    /\ LET r == Set(map[t], "status", t, "approved")
       IN  Write(t, r, <<Executing(t, r)>>)
    /\ UNCHANGED hasty /\ OnlyRun

DeclineRun(t) ==
    /\ Here(t) /\ modal[t] /\ Act
    /\ Write(t, Set(map[t], "status", t, "rejected"), <<>>)
    /\ UNCHANGED hasty /\ OnlyRun

(* Three seconds after a rejection was observed. *)
ResetRejection(t) ==
    /\ Here(t) /\ timers[t] > 0
    /\ IF Status(map[t]) = "rejected"
       THEN LET r == Set(map[t], "status", t, "idle") IN
            /\ map' = [map EXCEPT ![t] = r]
            /\ doc' = Merge(doc, r)
            /\ Forward(t, DocMsgs(<<r>>), inbox[t])
       ELSE UNCHANGED <<map, doc, inbox>>
    /\ timers' = [timers EXCEPT ![t] = @ - 1]
    /\ UNCHANGED <<modal, awaits, shown, grant, ranBy, hasty, acts, execVars>>
    /\ OnlyRun

(* Mutant of ShowResults: a job that failed resets nothing. *)
ShowSuccess(t, j) ==
    /\ Here(t) /\ j \in awaits[t] /\ stage[j] = "answered" /\ failed[j] = {}
    /\ LET r == Set(map[t], "status", t, "completed")
           s == Set(r, "results", t, j) IN
       /\ map' = [map EXCEPT ![t] = s]
       /\ doc' = Merge(doc, s)
       /\ Forward(t, DocMsgs(<<r, s>>), inbox[t])
    /\ modal' = [modal EXCEPT ![t] = FALSE]
    /\ shown' = [shown EXCEPT ![t] = j]
    /\ awaits' = [awaits EXCEPT ![t] = @ \ {j}]
    /\ UNCHANGED <<timers, grant, ranBy, hasty, acts, execVars>>
    /\ OnlyRun

(* The answer to the post, good or bad: completed, then the results. *)
ShowResults(t, j) ==
    /\ Here(t) /\ j \in awaits[t] /\ stage[j] = "answered"
    /\ LET r == Set(map[t], "status", t, "completed")
           s == Set(r, "results", t, j) IN
       /\ map' = [map EXCEPT ![t] = s]
       /\ doc' = Merge(doc, s)
       /\ Forward(t, DocMsgs(<<r, s>>), inbox[t])
    /\ modal' = [modal EXCEPT ![t] = FALSE]
    /\ shown' = [shown EXCEPT ![t] = j]
    /\ awaits' = [awaits EXCEPT ![t] = @ \ {j}]
    /\ UNCHANGED <<timers, grant, ranBy, hasty, acts, execVars>>
    /\ OnlyRun

Receive(t, kind) == /\ Here(t) /\ inbox[t] # <<>>
                    /\ Head(inbox[t]).kind = kind

ReceiveUpdate(t) ==
    /\ Receive(t, "doc")
    /\ LET r == Merge(map[t], Head(inbox[t]).regs)
           ran == IF MustExecute(t, r) THEN <<Executing(t, r)>> ELSE <<>> IN
       /\ Observe(t, r)
       /\ Forward(t, DocMsgs(ran), Tail(inbox[t]))
    /\ UNCHANGED <<hasty, acts>>
    /\ OnlyRun

(* ------------------------ changing the language ------------------------ *)

(* An awareness message of tab t. *)
Tell(t, m) == /\ Forward(t, <<m>>, inbox[t])
              /\ UNCHANGED <<open, map, doc, modal, timers, awaits, shown, grant, ranBy,
                             hasty, peerVars, execVars>>
Consume(t) == /\ inbox' = [inbox EXCEPT ![t] = Tail(@)]
              /\ UNCHANGED <<open, map, doc, modal, timers, awaits, shown, grant, ranBy,
                             hasty, peerVars, execVars, acts>>

SelectLanguage(t, l) ==
    /\ Here(t) /\ Act /\ l # lang[t]
    /\ langAsk' = [langAsk EXCEPT ![t] = l]
    /\ Tell(t, Msg("langRequest", l, TRUE))
    /\ UNCHANGED <<lang, rowLang, patches, langModal, crossed, textVars>>

ReceiveLangRequest(t) ==
    /\ Receive(t, "langRequest")
    /\ langModal' = [langModal EXCEPT ![t] = Head(inbox[t]).val]
    /\ Consume(t)
    /\ UNCHANGED <<lang, rowLang, patches, langAsk, crossed, textVars>>

ApproveLanguage(t) ==
    /\ Here(t) /\ langModal[t] # None /\ Act
    /\ lang' = [lang EXCEPT ![t] = langModal[t]]
    /\ langModal' = [langModal EXCEPT ![t] = None]
    /\ patches' = patches \union {langModal[t]}
    /\ crossed' = (crossed \/ \E i \in DOMAIN inbox[t] : inbox[t][i].kind = "langApproved")
    /\ Tell(t, Msg("langApproved", langModal[t], TRUE))
    /\ UNCHANGED <<rowLang, langAsk, textVars>>

RejectLanguage(t) ==
    /\ Here(t) /\ langModal[t] # None /\ Act
    /\ langModal' = [langModal EXCEPT ![t] = None]
    /\ Tell(t, Msg("langResponse", None, FALSE))
    /\ UNCHANGED <<lang, rowLang, patches, langAsk, crossed, textVars>>

ReceiveLangApproved(t) ==
    /\ Receive(t, "langApproved")
    /\ lang' = [lang EXCEPT ![t] = Head(inbox[t]).val]
    /\ langAsk' = [langAsk EXCEPT ![t] = None]
    /\ Consume(t)
    /\ UNCHANGED <<rowLang, patches, langModal, crossed, textVars>>

ReceiveLangResponse(t) ==
    /\ Receive(t, "langResponse")
    /\ langAsk' = [langAsk EXCEPT ![t] = None]
    /\ Consume(t)
    /\ UNCHANGED <<lang, rowLang, patches, langModal, crossed, textVars>>

(* PATCH /sessions/:id/language of the approver. *)
SaveLanguage(l) ==
    /\ l \in patches
    /\ patches' = patches \ {l}
    /\ rowLang' = l
    /\ UNCHANGED <<runVars, lang, langAsk, langModal, crossed, textVars,
                   peerVars, acts, execVars>>

(* --------------------------- translating ------------------------------- *)

OnlyText == UNCHANGED <<runVars, langVars, peerVars, execVars>>

Translate(t) ==
    /\ Here(t) /\ Act /\ draft[t] # "waiting"
    /\ draft' = [draft EXCEPT ![t] = "waiting"]
    /\ OnlyText /\ UNCHANGED <<offer, offerModal, stamp, consent, applied>>

(* The AI service answers, or refuses (rate limit, failure). *)
Translated(t) ==
    /\ Here(t) /\ draft[t] = "waiting"
    /\ \E d \in {"ready", "none"} : draft' = [draft EXCEPT ![t] = d]
    /\ OnlyText /\ UNCHANGED <<offer, offerModal, stamp, consent, applied, acts>>

DiscardTranslation(t) ==
    /\ Here(t) /\ draft[t] = "ready" /\ Act
    /\ draft' = [draft EXCEPT ![t] = "none"]
    /\ OnlyText /\ UNCHANGED <<offer, offerModal, stamp, consent, applied>>

OfferTranslation(t) ==
    /\ Here(t) /\ draft[t] = "ready" /\ Act
    /\ draft' = [draft EXCEPT ![t] = "none"]
    /\ stamp' = stamp + 1
    /\ offer' = [offer EXCEPT ![t] = stamp']
    /\ Tell(t, Msg("offer", stamp', TRUE))
    /\ UNCHANGED <<offerModal, consent, applied, langVars>>

ReceiveOffer(t) ==
    /\ Receive(t, "offer")
    /\ offerModal' = [offerModal EXCEPT ![t] = Head(inbox[t]).val]
    /\ Consume(t)
    /\ UNCHANGED <<draft, offer, stamp, consent, applied, langVars>>

AnswerOffer(t, ok) ==
    /\ Here(t) /\ offerModal[t] # 0 /\ Act
    /\ offerModal' = [offerModal EXCEPT ![t] = 0]
    /\ consent' = IF ok THEN consent \union {offerModal[t]} ELSE consent
    /\ Tell(t, Msg("answer", offerModal[t], ok))
    /\ UNCHANGED <<draft, offer, stamp, applied, langVars>>

(* Mutant of Answers: any answer settles the pending translation. *)
AnswersAny(t, id) == offer[t] # 0

(* The answer belongs to the translation that is pending. *)
Answers(t, id) == offer[t] = id

ReceiveAnswer(t) ==
    /\ Receive(t, "answer")
    /\ LET m == Head(inbox[t]) IN
       IF Answers(t, m.val)
       THEN /\ offer' = [offer EXCEPT ![t] = 0]
            /\ applied' = IF m.ok THEN applied \union {offer[t]} ELSE applied
       ELSE UNCHANGED <<offer, applied>>
    /\ Consume(t)
    /\ UNCHANGED <<draft, offerModal, stamp, consent, langVars>>

(* --------------------- opening, leaving, presence ---------------------- *)

Gone(s) == [kind |-> "gone", val |-> s, ok |-> TRUE]
Joins(s) == [kind |-> "here", val |-> s, ok |-> TRUE]

(* The page is left or reloaded: what it holds in memory is gone. *)
Leave(t) ==
    /\ Here(t) /\ Act
    /\ open' = [open EXCEPT ![t] = "left"]
    /\ map' = [map EXCEPT ![t] = Blank]
    /\ Forward(t, <<Gone(t)>>, <<>>)
    /\ modal' = [modal EXCEPT ![t] = FALSE]
    /\ timers' = [timers EXCEPT ![t] = 0]
    /\ awaits' = [awaits EXCEPT ![t] = {}]
    /\ shown' = [shown EXCEPT ![t] = 0]
    /\ langAsk' = [langAsk EXCEPT ![t] = None]
    /\ langModal' = [langModal EXCEPT ![t] = None]
    /\ draft' = [draft EXCEPT ![t] = "none"]
    /\ offer' = [offer EXCEPT ![t] = 0]
    /\ offerModal' = [offerModal EXCEPT ![t] = 0]
    /\ armed' = [armed EXCEPT ![t] = FALSE]
    /\ asking' = [asking EXCEPT ![t] = 0]
    /\ UNCHANGED <<doc, grant, ranBy, hasty, lang, rowLang, patches, crossed, stamp, consent,
                   applied, present, joined, online, execVars>>

(* The page is opened again, with a new client id. Until the document of the *)
(* server arrives, after the awareness of the others, the tab works on an    *)
(* empty one.                                                                *)
Open(t) ==
    LET others == {s \in Tabs : Here(s)} IN
    /\ open[t] = "not yet" /\ Act
    /\ \A s \in others : Owner[s] # Owner[t]
    /\ open' = [open EXCEPT ![t] = "open"]
    /\ Forward(t, <<Joins(t)>>,
               (IF others = {} THEN <<>> ELSE <<Joins(CHOOSE s \in others : TRUE)>>)
                 \o <<[kind |-> "sync", regs |-> doc]>>)
    /\ lang' = [lang EXCEPT ![t] = rowLang]
    /\ UNCHANGED <<map, doc, modal, timers, awaits, shown, grant, ranBy, hasty, rowLang,
                   patches, langAsk, langModal, crossed, textVars, peerVars, execVars>>

OnlyPeer == UNCHANGED <<runVars, langVars, textVars, acts, execVars>>

(* The answer of the server to the first sync; alone means offline at once. *)
ReceiveSync(t) ==
    /\ Receive(t, "sync")
    /\ LET r == Merge(map[t], Head(inbox[t]).regs)
           ran == IF MustExecute(t, r) THEN <<Executing(t, r)>> ELSE <<>> IN
       /\ Observe(t, r)
       /\ Forward(t, DocMsgs(ran), Tail(inbox[t]))
    /\ online' = [online EXCEPT ![t] = @ /\ present[t] # {}]
    /\ UNCHANGED <<open, hasty, langVars, textVars, present, joined, armed, asking, acts>>

(* An awareness change: a client more, or one less. *)
ReceivePresence(t) ==
    /\ Receive(t, "here") \/ Receive(t, "gone")
    /\ LET m == Head(inbox[t])
           now == IF m.kind = "here" THEN present[t] \union {m.val} ELSE present[t] \ {m.val} IN
       /\ present' = [present EXCEPT ![t] = now]
       /\ joined' = [joined EXCEPT ![t] = @ \/ now # {}]
       /\ online' = [online EXCEPT ![t] = @ \/ now # {}]
       /\ armed' = [armed EXCEPT ![t] = IF now # {} THEN FALSE ELSE joined[t] \/ @]
    /\ inbox' = [inbox EXCEPT ![t] = Tail(@)]
    /\ UNCHANGED <<open, map, doc, modal, timers, awaits, shown, grant, ranBy, hasty,
                   asking, langVars, textVars, acts, execVars>>

(* The debounce is over: unless the partner is back the session is looked up. *)
DebounceOver(t) ==
    /\ Here(t) /\ armed[t]
    /\ armed' = [armed EXCEPT ![t] = FALSE]
    /\ IF present[t] # {}
       THEN online' = [online EXCEPT ![t] = TRUE] /\ UNCHANGED asking
       ELSE asking' = [asking EXCEPT ![t] = @ + 1] /\ UNCHANGED online
    /\ UNCHANGED <<present, joined>> /\ OnlyPeer

(* Mutant of ReportOffline: what was known before the request. *)
ReportOfflineAnyway(t) ==
    /\ Here(t) /\ asking[t] > 0
    /\ asking' = [asking EXCEPT ![t] = @ - 1]
    /\ online' = [online EXCEPT ![t] = FALSE]
    /\ UNCHANGED <<present, joined, armed>> /\ OnlyPeer

(* The session goes on, or could not be looked up. *)
ReportOffline(t) ==
    /\ Here(t) /\ asking[t] > 0
    /\ asking' = [asking EXCEPT ![t] = @ - 1]
    /\ online' = [online EXCEPT ![t] = (present[t] # {})]
    /\ UNCHANGED <<present, joined, armed>> /\ OnlyPeer

(* ----------------------------------------------------------------------- *)

(* Both peers have opened the page; each user in one tab at a time. *)
Init ==
    /\ ExecInit
    /\ open = [t \in Tabs |-> IF \E s \in Tabs : s < t /\ Owner[s] = Owner[t]
                              THEN "not yet" ELSE "open"]
    /\ map = [t \in Tabs |-> Blank] /\ doc = Blank
    /\ inbox = [t \in Tabs |-> <<>>]
    /\ modal = [t \in Tabs |-> FALSE]
    /\ timers = [t \in Tabs |-> 0]
    /\ awaits = [t \in Tabs |-> {}]
    /\ shown = [t \in Tabs |-> 0]
    /\ lang = [t \in Tabs |-> FirstLang] /\ rowLang = FirstLang
    /\ patches = {} /\ crossed = FALSE
    /\ langAsk = [t \in Tabs |-> None] /\ langModal = [t \in Tabs |-> None]
    /\ draft = [t \in Tabs |-> "none"]
    /\ offer = [t \in Tabs |-> 0] /\ offerModal = [t \in Tabs |-> 0]
    /\ stamp = 0 /\ consent = {} /\ applied = {}
    /\ present = [t \in Tabs |-> IF open[t] = "open"
                 THEN {s \in Tabs \ {t} : open[s] = "open"} ELSE {}]
    /\ joined = [t \in Tabs |-> open[t] = "open"]
    /\ online = [t \in Tabs |-> TRUE]
    /\ armed = [t \in Tabs |-> FALSE] /\ asking = [t \in Tabs |-> 0]
    /\ acts = 0
    /\ grant = [j \in Jobs |-> <<>>] /\ ranBy = [j \in Jobs |-> 0]
    /\ hasty = FALSE

OnlyExec == UNCHANGED <<runVars, langVars, textVars, peerVars, acts>>

Deliver(t) == \/ ReceiveUpdate(t) \/ ReceiveLangRequest(t) \/ ReceiveLangApproved(t)
              \/ ReceiveLangResponse(t) \/ ReceiveOffer(t) \/ ReceiveAnswer(t)
              \/ ReceiveSync(t) \/ ReceivePresence(t)

UserStep(t) == \/ RunCode(t) \/ ApproveRun(t) \/ DeclineRun(t)
               \/ ApproveLanguage(t) \/ RejectLanguage(t)
               \/ \E l \in Langs : SelectLanguage(t, l)
               \/ Translate(t) \/ DiscardTranslation(t) \/ OfferTranslation(t)
               \/ \E ok \in BOOLEAN : AnswerOffer(t, ok)
               \/ Leave(t) \/ Open(t)

Next == \/ \E t \in Tabs : \/ UserStep(t) \/ Deliver(t)
                           \/ ResetRejection(t) \/ Translated(t)
                           \/ DebounceOver(t) \/ ReportOffline(t)
                           \/ \E j \in Jobs : ShowResults(t, j)
        \/ \E l \in Langs : SaveLanguage(l)
        \/ \E j \in Jobs : (JobStep(j) \/ ProgramEnds(j)) /\ OnlyExec

(* A job goes on and its answer is taken by the page that waits for it.  *)
(* Nothing is assumed of the users, of their programs or of the network. *)
Fairness == /\ \A j \in Jobs : WF_vars(JobStep(j) /\ OnlyExec)
            /\ WF_vars(\E t \in Tabs, j \in Jobs : ShowResults(t, j))

Spec == Init /\ [][Next]_vars
FairSpec == Spec /\ Fairness

(* ------------------------------ properties ----------------------------- *)

(* Nobody runs code on an approval of his own, and no approval is used twice, *)
(* though each update of the map, the one that sets approvedBy too, calls the *)
(* observer again, and though requests of both users may have been merged     *)
(* into one pending request (Workspace.tsx:484-492, 530-546). Excepted is a   *)
(* user who asked for a run behind the open question of the peer: it is still *)
(* shown when the run is pending for him, and he can approve it himself.      *)
EveryRunWasApproved ==
    ~hasty =>
        \A j \in Jobs : ranBy[j] # 0 =>
            /\ grant[j] # <<>>
            /\ Owner[LastWriter(grant[j])] # Owner[ranBy[j]]
            /\ \A i \in Jobs \ {j} : grant[i] # grant[j]

Quiet == \A t \in Tabs : inbox[t] = <<>>

(* Nobody waits for an approval that nobody is asked for: when all updates *)
(* have arrived, the peer of a waiting user sees the question. Run is      *)
(* disabled meanwhile, so that otherwise neither could go on.              *)
NobodyWaitsUnasked ==
    \A s, t \in Tabs :
        Quiet /\ Here(s) /\ Here(t) /\ Owner[s] # Owner[t]
        /\ Status(map[s]) = "pending" /\ RequestedBy(map[s]) = Owner[s]
        => modal[t]

(* Both pages show the results of the same run once all updates have come, *)
(* though completed and the results are separate updates and two runs may  *)
(* have been under way.                                                    *)
PeersSeeSameResults ==
    Quiet /\ Status(doc) = "completed" =>
        \A s, t \in Tabs : Here(s) /\ Here(t) => shown[s] = shown[t]

(* Both editors are set to the same language once all messages have come,   *)
(* unless each user approved the other's wish before it heard of the        *)
(* other's approval, or a page was left (Workspace.tsx:734-745, 764-775).   *)
PeersUseOneLanguage ==
    Quiet /\ ~crossed /\ (\A t \in Tabs : open[t] # "left") =>
        \A s, t \in Tabs : Here(s) /\ Here(t) => lang[s] = lang[t]

(* Concurrent writes and crossed messages leave two pages that agree.       *)
PagesConverge == NobodyWaitsUnasked /\ PeersSeeSameResults /\ PeersUseOneLanguage

(* A page reports its peer as offline exactly when the peer is away, once all *)
(* messages have come and the debounced check is over, whatever leaving and   *)
(* coming back crossed with it (CodeEditor.tsx:219-277, 339-349).             *)
PresenceIsTruthful ==
    \A t \in Tabs :
        Quiet /\ Here(t) /\ ~armed[t] /\ asking[t] = 0 =>
            (online[t] <=> \E s \in Tabs : Here(s) /\ Owner[s] # Owner[t])

(* A translation replaces the shared text only after the peer agreed to this *)
(* very translation, also when offers and answers cross.                     *)
TranslationNeedsConsent == applied \subseteq consent

(* Running ends, unless the user whose page runs the code leaves it. *)
RunEnds ==
    \A t \in Tabs :
        (Status(doc) = "running" /\ LastWriter(doc["status"].path) = t)
            ~> (Status(doc) # "running" \/ open[t] = "left")
=============================================================================
