--------------------------- MODULE QuestionStore ---------------------------
(***************************************************************************)
(* The question service behind the gateway: the table of questions, the     *)
(* completions of users, the cache of the most matched questions, and the   *)
(* administrators' pages that list, edit and delete questions. Its requests *)
(* are calls of Accounts, so that signing out, reloading and refreshed      *)
(* tokens happen while they are on their way.                               *)
(***************************************************************************)
EXTENDS Accounts

CONSTANTS
    Questions,    \* ids that the table may give out
    Kinds,        \* topic and difficulty of a question
    FallbackQuestions, \* of the ids of the fixed rows, that are not stored: their kinds
    Top,          \* questions that are cached (5 in the code)
    RefreshEvery, \* the ticker (15 minutes)
    CacheTTL,     \* 20 minutes
    MaxTime,      \* bound: ticks of the clock
    MaxCalls      \* bound: calls on their way when a user acts

ASSUME StoreAssumption ==
    /\ Top \in Nat /\ RefreshEvery \in Nat /\ CacheTTL \in Nat
    /\ MaxTime \in Nat /\ MaxCalls \in Nat
    /\ 0 < Top /\ 0 < RefreshEvery /\ RefreshEvery < CacheTTL
    /\ DOMAIN FallbackQuestions \cap Questions = {}
    /\ None \notin Nat \cup DOMAIN FallbackQuestions \cup Questions \cup Kinds
    /\ None \notin [kind : Kinds, matched : Nat]

VARIABLES
    docs,      \* of an id: None, or the kind and the Matched counter
    used,      \* ids given out
    completed, \* pairs of a user and a question
    cache,     \* None, or the kinds of the cached questions and when they were read
    now,       \* the clock
    left,      \* of a question and a kind: when the table held it last, or None
    list,      \* questions shown to an administrator, as they were answered
    offer      \* the request for an available question

storeVars == <<docs, used, completed, cache, now, left>>
vars == <<authVars, storeVars, list, offer>>

QuestionCalls == {"list", "save", "delete", "completed"}

NoDocs == [q \in Questions |-> None]
Doc(k, n) == [kind |-> k, matched |-> n]
Ids == Questions \cup DOMAIN FallbackQuestions
Known == used \cup DOMAIN FallbackQuestions
Present == {q \in Questions : docs[q] # None}
FallbackDocs == [q \in DOMAIN FallbackQuestions |-> Doc(FallbackQuestions[q], 0)]
FallbackRows == {<<q, FallbackQuestions[q]>> : q \in DOMAIN FallbackQuestions}
Leaves(q) == left' = [left EXCEPT ![<<q, docs[q].kind>>] = now]

(* ------------------------- list, create, edit, delete ------------------ *)

(* A failing table is answered well, with the fixed rows. *)

ListQuestions(c) ==
    /\ c.op = "list" /\ c.at = "service"
    /\ \/ Move(c, [c EXCEPT !.at = "back", !.res = "ok", !.data = docs]) /\ UNCHANGED faults
       \/ Fault /\ Move(c, [c EXCEPT !.at = "back", !.res = "ok", !.data = FallbackDocs])
    /\ UNCHANGED <<account, tokens, second, files, jar, page, acts, astray, storeVars>>

AdminOnly(c) == c.role \in {"ADMIN", "SUPER_ADMIN"}

Refused(c) ==
    /\ c.op \in {"save", "delete"} /\ c.at = "service" /\ ~AdminOnly(c)
    /\ Answer(c, "forbidden")
    /\ UNCHANGED <<account, tokens, second, files, jar, page, acts, faults, astray, storeVars>>

CreateQuestion(c) ==
    /\ c.op = "save" /\ c.at = "service" /\ AdminOnly(c) /\ c.arg.q = None
    /\ \/ \E q \in Questions \ used :
             /\ docs' = [docs EXCEPT ![q] = Doc(c.arg.kind, 0)] /\ used' = used \cup {q}
             /\ Answer(c, "ok") /\ UNCHANGED faults
       \/ Fault /\ Answer(c, "error") /\ UNCHANGED <<docs, used>>
    /\ UNCHANGED <<account, tokens, second, files, jar, page, acts, astray,
                   completed, cache, now, left>>

(* What $set writes to a question: not its counter. *)
Updated(q, sent) == [docs[q] EXCEPT !.kind = sent.kind]

(* Mutant of UpdateQuestion: the whole form is written. *)
UpdateWholeQuestion(c) ==
    /\ c.op = "save" /\ c.at = "service" /\ AdminOnly(c) /\ c.arg.q # None
    /\ IF c.arg.q \notin Present THEN Answer(c, "notFound") /\ UNCHANGED <<docs, left>>
       ELSE /\ docs' = [docs EXCEPT ![c.arg.q] = Doc(c.arg.kind, c.arg.matched)]
            /\ Leaves(c.arg.q) /\ Answer(c, "ok")
    /\ UNCHANGED <<account, tokens, second, files, jar, page, acts, faults, astray,
                   used, completed, cache, now>>

UpdateQuestion(c) ==
    /\ c.op = "save" /\ c.at = "service" /\ AdminOnly(c) /\ c.arg.q # None
    /\ \/ /\ c.arg.q \in Present
          /\ docs' = [docs EXCEPT ![c.arg.q] = Updated(c.arg.q, c.arg)]
          /\ Leaves(c.arg.q) /\ Answer(c, "ok") /\ UNCHANGED faults
       \/ c.arg.q \notin Present /\ Answer(c, "notFound") /\ UNCHANGED <<docs, left, faults>>
       \/ Fault /\ Answer(c, "error") /\ UNCHANGED <<docs, left>>
    /\ UNCHANGED <<account, tokens, second, files, jar, page, acts, astray,
                   used, completed, cache, now>>

DeleteQuestion(c) ==
    /\ c.op = "delete" /\ c.at = "service" /\ AdminOnly(c)
    /\ \/ /\ c.arg \in Present
          /\ docs' = [docs EXCEPT ![c.arg] = None] /\ Leaves(c.arg)
          /\ Answer(c, "ok") /\ UNCHANGED faults
       \/ c.arg \notin Present /\ Answer(c, "notFound") /\ UNCHANGED <<docs, left, faults>>
       \/ Fault /\ Answer(c, "error") /\ UNCHANGED <<docs, left>>
    /\ UNCHANGED <<account, tokens, second, files, jar, page, acts, astray,
                   used, completed, cache, now>>

(* ------------------------------ completions ---------------------------- *)

(* Mutant of MarkCompleted: an error is noted and the loop goes on. *)
MarkCompletedAnyway(c) ==
    /\ c.op = "completed" /\ c.at \in {"service", "peer"}
    /\ \/ /\ completed' = completed \cup {<<IF c.at = "peer" THEN c.arg.peer ELSE c.arg.user, c.arg.q>>}
          /\ UNCHANGED faults
       \/ Fault /\ UNCHANGED completed
    /\ Goes(c, IF c.at = "service" THEN "peer" ELSE "count")
    /\ UNCHANGED <<account, tokens, second, files, jar, page, acts, astray,
                   docs, used, cache, now, left>>

(* MarkQuestionsCompleted: one upsert for the user, then one for the peer.  *)
MarkCompleted(c) ==
    /\ c.op = "completed" /\ c.at \in {"service", "peer"}
    /\ \/ /\ completed' = completed \cup {<<IF c.at = "peer" THEN c.arg.peer ELSE c.arg.user, c.arg.q>>}
          /\ Goes(c, IF c.at = "service" THEN "peer" ELSE "count") /\ UNCHANGED faults
       \/ Fault /\ Answer(c, "error") /\ UNCHANGED completed
    /\ UNCHANGED <<account, tokens, second, files, jar, page, acts, astray,
                   docs, used, cache, now, left>>

(* IncrementMatched, best effort: nothing is counted of one not stored. *)
IncrementMatched(c) ==
    /\ c.op = "completed" /\ c.at = "count"
    /\ \/ /\ docs' = IF c.arg.q \notin Present THEN docs ELSE [docs EXCEPT ![c.arg.q].matched = @ + 1]
          /\ UNCHANGED faults
       \/ Fault /\ UNCHANGED docs
    /\ Answer(c, "ok")
    /\ UNCHANGED <<account, tokens, second, files, jar, page, acts, astray,
                   used, completed, cache, now, left>>

(* --------------------------------- cache ------------------------------- *)

(* The Top most matched questions, in any order of equals. *)
TopMatched ==
    {S \in SUBSET Present :
        /\ Cardinality(S) <= Top
        /\ Cardinality(S) < Top => S = Present
        /\ \A q \in S, p \in Present \ S : docs[p].matched <= docs[q].matched}

Cached(S) == [rows |-> [q \in S |-> docs[q].kind], at |-> now']

(* A failure leaves the copy that is there. *)
CacheTop5Matched ==
    \/ (\E S \in TopMatched : cache' = Cached(S)) /\ UNCHANGED faults
    \/ Fault /\ UNCHANGED cache

(* Time passes, and the ticker refreshes the cache. *)
Tick ==
    /\ now < MaxTime /\ now' = now + 1
    /\ IF now' % RefreshEvery = 0 THEN CacheTop5Matched ELSE UNCHANGED <<cache, faults>>
    /\ UNCHANGED <<account, tokens, second, files, jar, page, calls, acts, astray,
                   docs, used, completed, left, list, offer>>

(* Redis drops the copy. *)
Gone == cache = None \/ now - cache.at >= CacheTTL

(* -------------------------- an available question ---------------------- *)

(* The request was answered. *)
Offered(got) ==
    [users |-> {}, kind |-> None, at |-> "done", before |-> {}, exclude |-> {}, got |-> got]

Ask(users, kind) ==
    /\ offer.at = "done"
    /\ \A e \in users : account[e] # None
    /\ acts < MaxActs /\ acts' = acts + 1
    /\ offer' = [users |-> users, kind |-> kind, at |-> "asked",
                 before |-> completed, exclude |-> {}, got |-> {}]
    /\ UNCHANGED <<account, tokens, second, files, jar, page, calls, faults, astray, storeVars, list>>

(* The request is answered with an error if completions cannot be read. *)
GetCompletedQuestionIds ==
    /\ offer.at = "asked"
    /\ \/ /\ offer' = [offer EXCEPT !.at = "read",
                          !.exclude = {q \in Ids : \E u \in offer.users : <<u, q>> \in completed}]
          /\ UNCHANGED faults
       \/ Fault /\ offer.users # {} /\ offer' = Offered({})
    /\ UNCHANGED <<account, tokens, second, files, jar, page, calls, acts, astray, storeVars, list>>

Wanted(k) == offer.kind \in {None, k}

(* Mutant of Filtered: completed questions are not left out. *)
FilteredByKind == IF Gone THEN {} ELSE {q \in DOMAIN cache.rows : Wanted(cache.rows[q])}

(* FilterCachedQuestions *)
Filtered ==
    IF Gone THEN {} ELSE {q \in DOMAIN cache.rows \ offer.exclude : Wanted(cache.rows[q])}

(* One of the cached questions if one fits, else all that fit of the table. *)
(* A failing cache is passed over; when the table fails (and the cache did, *)
(* if one fits there) the answer is the fixed rows, of any kind, completed  *)
(* or not.                                                                  *)
GetAvailableQuestions ==
    /\ offer.at = "read"
    /\ \/ /\ Filtered # {}
          /\ \E q \in Filtered : offer' = Offered({<<q, cache.rows[q]>>})
          /\ UNCHANGED faults
       \/ /\ IF Filtered = {} THEN UNCHANGED faults ELSE Fault
          /\ offer' = Offered({<<q, docs[q].kind>> :
                                q \in {p \in Present \ offer.exclude : Wanted(docs[p].kind)}})
       \/ Fault /\ offer' = Offered(FallbackRows)
    /\ UNCHANGED <<account, tokens, second, files, jar, page, calls, acts, astray, storeVars, list>>

(* ------------------------------ the pages ------------------------------ *)

LoadQuestions(b) == ShowsPages(b) /\ ~Waits(b, "list") /\ Start(b, "list", None, "gate")

Shown(b) == {q \in DOMAIN list[b] : list[b][q] # None}

(* The form is filled from the list, with the counter as it was read.       *)
FormData(b, q, k) ==
    [q |-> q, kind |-> k, matched |-> IF q = None THEN 0 ELSE list[b][q].matched]

SaveQuestion(b, q, k) ==
    /\ ShowsAdmin(b) /\ ~Waits(b, "save")
    /\ q # None => q \in Shown(b)
    /\ Start(b, "save", FormData(b, q, k), "gate")

ConfirmDelete(b, q) == ShowsAdmin(b) /\ q \in Shown(b) /\ Start(b, "delete", q, "gate")

(* handleEndSessionInstantly, after the session was ended. *)
EndSession(b, peer, q) ==
    /\ ShowsPages(b) /\ peer # page[b].user /\ account[peer] # None
    /\ Start(b, "completed", [user |-> page[b].user, peer |-> peer, q |-> q], "gate")

(* After something was saved or deleted the list is loaded again. *)
Answered(c) ==
    /\ c.at = "back" /\ ~c.lost /\ c.op \in QuestionCalls
    /\ SetCookies(c) /\ Astray(c)
    /\ LET again == c.op \in {"save", "delete"} /\ c.res = "ok" IN
          calls' = (calls \ {c}) \cup
              IF again THEN {[Call(0, c.b, "list", None) EXCEPT !.cookies = Cookies(c)]} ELSE {}
    /\ list' = IF c.op = "list" /\ c.res = "ok" THEN [list EXCEPT ![c.b] = c.data] ELSE list
    /\ UNCHANGED <<account, tokens, second, files, page, acts, faults>>

(* Who signs in or out, or reloads, comes to pages that were mounted anew.  *)
PagesMounted ==
    list' = [b \in Browsers |->
                IF page'[b].user = page[b].user /\ page'[b].ready = page[b].ready
                THEN list[b] ELSE NoDocs]

(* ----------------------------- specification --------------------------- *)

StoreInit ==
    /\ AccountsInit
    /\ \E q \in Questions, k \in Kinds :
          /\ docs = [NoDocs EXCEPT ![q] = Doc(k, 0)] /\ used = {q}
          /\ cache \in {None, [rows |-> [p \in {q} |-> k], at |-> 0]}
    /\ completed = {} /\ now = 0
    /\ left = [x \in Questions \X Kinds |-> None]
    /\ list = [b \in Browsers |-> IF ShowsAdmin(b) THEN docs ELSE NoDocs]
    /\ offer = Offered({})

QuestionStep(c) ==
    \/ ListQuestions(c) \/ Refused(c) \/ CreateQuestion(c) \/ UpdateQuestion(c) \/ DeleteQuestion(c)
    \/ MarkCompleted(c) \/ IncrementMatched(c)

AdminStep(b) ==
    \/ LoadQuestions(b)
    \/ \E q \in Ids \cup {None}, k \in Kinds : SaveQuestion(b, q, k)
    \/ \E q \in Ids : ConfirmDelete(b, q)
    \/ \E q \in Known, peer \in Emails : EndSession(b, peer, q)

StoreNext ==
    \/ \E c \in calls : /\ CallStep(c) \/ (c.op \notin QuestionCalls /\ Arrive(c))
                        /\ PagesMounted /\ UNCHANGED <<storeVars, offer>>
    \/ \E c \in calls : QuestionStep(c) /\ UNCHANGED <<list, offer>>
    \/ \E c \in calls : Answered(c) /\ UNCHANGED <<storeVars, offer>>
    \/ \E b \in Browsers : /\ Cardinality(calls) < MaxCalls
                           /\ \/ VisitorStep(b) /\ PagesMounted
                              \/ AdminStep(b) /\ UNCHANGED list
                           /\ UNCHANGED <<storeVars, offer>>
    \/ Tick
    \/ \E u \in Emails, v \in Emails, k \in Kinds \cup {None} : u # v /\ Ask({u, v}, k)
    \/ GetCompletedQuestionIds \/ GetAvailableQuestions

StoreSpec == StoreInit /\ [][StoreNext]_vars

(* ------------------------------ properties ----------------------------- *)

(* What is stored has its shape; no more than Top questions are cached, and *)
(* what is named was stored before, or is a fixed row.                      *)
StoreTypeOK ==
    /\ \A q \in Questions : docs[q] # None => q \in used /\ docs[q].kind \in Kinds /\ docs[q].matched \in Nat
    /\ completed \subseteq Emails \X Known
    /\ cache # None => /\ DOMAIN cache.rows \subseteq used /\ cache.at \in 0..now
                       /\ Cardinality(DOMAIN cache.rows) <= Top

(* When the end of a session is answered well, its question is completed    *)
(* for both users, although they are written one after the other.           *)
MarkedTogether ==
    \A c \in calls : c.op = "completed" /\ c.res = "ok" =>
        {<<c.arg.user, c.arg.q>>, <<c.arg.peer, c.arg.q>>} \subseteq completed

(* What is stored fits together, and both users of a session have it.       *)
StoreInv == StoreTypeOK /\ MarkedTogether

(* Whatever stale list or form an administrator saves from: the counting of *)
(* sessions that ended meanwhile is not undone, and a deleted question does *)
(* not come back.                                                           *)
HistoryIsKept ==
    [][\A q \in used :
         /\ docs[q] = None => docs'[q] = None
         /\ docs[q] # None /\ docs'[q] # None => docs'[q].matched >= docs[q].matched]_vars

(* Neither the cache nor the table offers a question that one of the users  *)
(* had completed when it was asked for; and what they offer is in the table,*)
(* or was less than CacheTTL ago, also when refreshing the cache failed.    *)
(* The one other answer there is are the fixed rows, which nobody stored    *)
(* and which may have been completed: only when this very request failed to *)
(* read the table (GetAvailableQuestions, crud.go:379). Stated of the step  *)
(* that offers.                                                             *)
OfferIsSound ==
    [][\A o \in offer'.got : offer.at = "read" =>
         \/ o \in FallbackRows /\ faults' > faults
         \/ /\ \A u \in offer.users : <<u, o[1]>> \notin offer.before
            /\ \/ docs[o[1]] # None /\ docs[o[1]].kind = o[2]
               \/ left[o] # None /\ now - left[o] < CacheTTL]_vars
=============================================================================
