------------------------ MODULE QuestionStoreProofs ------------------------
(***************************************************************************)
(* What the question service and the accounts behind the gateway keep, for *)
(* any number of users, browsers, questions, calls and failures: the       *)
(* history of questions, accounts and their roles, the sign-ins of         *)
(* browsers and what their pages show, profile pictures, completions, the  *)
(* cache, and the questions that are offered.                              *)
(***************************************************************************)
EXTENDS QuestionStore, FiniteSetTheorems, TLAPS

-----------------------------------------------------------------------------
(* The history of a question. *)

(* A stored question is a kind and a counter. *)
DocsInv ==
    /\ docs = [q \in Questions |-> docs[q]]
    /\ \A q \in Questions : docs[q] # None =>
          docs[q] = Doc(docs[q].kind, docs[q].matched) /\ docs[q].matched \in Nat

HistoryKept ==
    \A q \in used :
        /\ docs[q] = None => docs'[q] = None
        /\ docs[q] # None /\ docs'[q] # None => docs'[q].matched >= docs[q].matched

(* Ids that were never given out have no question, and all ids are known. *)
UsedInv == used \subseteq Questions

LEMMA DocsInitially == StoreInit => DocsInv /\ UsedInv
<1>1. SUFFICES ASSUME StoreInit PROVE DocsInv /\ UsedInv
  OBVIOUS
<1>2. PICK q \in Questions, k \in Kinds : docs = [NoDocs EXCEPT ![q] = Doc(k, 0)] /\ used = {q}
  BY <1>1 DEF StoreInit
<1>3. docs = [p \in Questions |-> IF p = q THEN Doc(k, 0) ELSE None]
  BY <1>2 DEF NoDocs
<1>4. Doc(k, 0) = Doc(Doc(k, 0).kind, Doc(k, 0).matched) /\ Doc(k, 0).matched \in Nat
  BY DEF Doc
<1>. QED BY <1>2, <1>3, <1>4 DEF DocsInv, UsedInv

(* One question is written, with a counter that is at least what it was. *)
LEMMA OneWritten ==
  ASSUME DocsInv, UsedInv, NEW q \in Questions, NEW d,
         docs' = [docs EXCEPT ![q] = d], used \subseteq used', used' \subseteq Questions,
         q \in used => docs[q] # None,
         d # None => d = Doc(d.kind, d.matched) /\ d.matched \in Nat,
         q \in used /\ d # None => d.matched >= docs[q].matched
  PROVE  DocsInv' /\ UsedInv' /\ HistoryKept
<1>1. docs' = [p \in Questions |-> IF p = q THEN d ELSE docs[p]]
  BY DEF DocsInv
<1>2. ASSUME NEW p \in Questions PROVE docs'[p] = IF p = q THEN d ELSE docs[p]
  BY <1>1
<1>3. DocsInv'
  BY <1>1, <1>2 DEF DocsInv
<1>4. ASSUME NEW p \in used, docs[p] # None, docs'[p] # None
      PROVE  docs'[p].matched >= docs[p].matched
  BY <1>2, <1>4 DEF DocsInv, UsedInv
<1>5. HistoryKept
  BY <1>2, <1>4 DEF HistoryKept, UsedInv
<1>. QED BY <1>3, <1>5 DEF UsedInv

LEMMA NothingWritten ==
  ASSUME DocsInv, UsedInv, UNCHANGED <<docs, used>>
  PROVE  DocsInv' /\ UsedInv' /\ HistoryKept
  BY DEF DocsInv, UsedInv, HistoryKept

(* A call that names no known question writes none. *)
LEMMA NoneWritten ==
  ASSUME DocsInv, UsedInv, NEW q, q \notin Questions, NEW d,
         docs' = [docs EXCEPT ![q] = d], used' = used
  PROVE  DocsInv' /\ UsedInv' /\ HistoryKept
<1>1. docs' = docs
  BY DEF DocsInv
<1>. QED BY <1>1, NothingWritten

LEMMA QuestionsKept ==
  ASSUME DocsInv, UsedInv, NEW c, QuestionStep(c)
  PROVE  DocsInv' /\ UsedInv' /\ HistoryKept
<1>1. CASE ListQuestions(c) \/ Refused(c) \/ MarkCompleted(c)
  BY <1>1, NothingWritten DEF ListQuestions, Refused, MarkCompleted, storeVars
<1>2. CASE CreateQuestion(c)
  <2>1. CASE UNCHANGED <<docs, used>>
    BY <2>1, NothingWritten
  <2>2. CASE ~UNCHANGED <<docs, used>>
    <3>1. PICK q \in Questions \ used :
               docs' = [docs EXCEPT ![q] = Doc(c.arg.kind, 0)] /\ used' = used \cup {q}
      BY <1>2, <2>2 DEF CreateQuestion
    <3>2. /\ Doc(c.arg.kind, 0) = Doc(Doc(c.arg.kind, 0).kind, Doc(c.arg.kind, 0).matched)
          /\ Doc(c.arg.kind, 0).matched \in Nat
      BY DEF Doc
    <3>3. used \subseteq used' /\ used' \subseteq Questions
      BY <3>1 DEF UsedInv
    <3>4. q \notin used
      BY <3>1
    <3>. QED BY <3>1, <3>2, <3>3, <3>4, OneWritten
  <2>. QED BY <2>1, <2>2
<1>3. CASE UpdateQuestion(c)
  <2>1. CASE UNCHANGED docs
    BY <1>3, <2>1, NothingWritten DEF UpdateQuestion
  <2>2. CASE ~UNCHANGED docs
    <3> DEFINE q == c.arg.q
               d == Updated(q, c.arg)
    <3>1. docs[q] # None /\ docs' = [docs EXCEPT ![q] = d] /\ used' = used
      BY <1>3, <2>2 DEF UpdateQuestion, Present
    <3>2. CASE q \in Questions
      <4>1. docs[q] = Doc(docs[q].kind, docs[q].matched) /\ docs[q].matched \in Nat
        BY <3>1, <3>2 DEF DocsInv
      <4>2. d = Doc(c.arg.kind, docs[q].matched)
        BY <4>1 DEF Updated, Doc
      <4>3. d = Doc(d.kind, d.matched) /\ d.matched = docs[q].matched
        BY <4>2 DEF Doc
      <4>4. d.matched \in Nat /\ d.matched >= docs[q].matched
        BY <4>1, <4>3
      <4> HIDE DEF d
      <4>. QED BY <3>1, <3>2, <4>3, <4>4, OneWritten DEF UsedInv
    <3>3. CASE q \notin Questions
      BY <3>1, <3>3, NoneWritten
    <3>. QED BY <3>2, <3>3
  <2>. QED BY <2>1, <2>2
<1>4. CASE DeleteQuestion(c)
  <2>1. CASE UNCHANGED docs
    BY <1>4, <2>1, NothingWritten DEF DeleteQuestion
  <2>2. CASE ~UNCHANGED docs
    <3>1. /\ docs[c.arg] # None /\ docs' = [docs EXCEPT ![c.arg] = None] /\ used' = used
      BY <1>4, <2>2 DEF DeleteQuestion, Present
    <3>2. CASE c.arg \in Questions
      BY <3>1, <3>2, OneWritten DEF UsedInv
    <3>3. CASE c.arg \notin Questions
      BY <3>1, <3>3, NoneWritten
    <3>. QED BY <3>2, <3>3
  <2>. QED BY <2>1, <2>2
<1>5. CASE IncrementMatched(c)
  <2>1. CASE UNCHANGED docs
    BY <1>5, <2>1, NothingWritten DEF IncrementMatched
  <2>2. CASE ~UNCHANGED docs
    <3> DEFINE q == c.arg.q
               d == [docs[q] EXCEPT !.matched = docs[q].matched + 1]
    <3>1. docs[q] # None /\ docs' = [docs EXCEPT ![q] = d] /\ used' = used
      BY <1>5, <2>2 DEF IncrementMatched, Present
    <3>2. CASE q \in Questions
      <4>1. docs[q] = Doc(docs[q].kind, docs[q].matched) /\ docs[q].matched \in Nat
        BY <3>1, <3>2 DEF DocsInv
      <4>2. d = Doc(docs[q].kind, docs[q].matched + 1)
        BY <4>1 DEF Doc
      <4>3. d = Doc(d.kind, d.matched) /\ d.matched = docs[q].matched + 1
        BY <4>2 DEF Doc
      <4>4. d.matched \in Nat /\ d.matched >= docs[q].matched
        BY <4>1, <4>3
      <4> HIDE DEF d
      <4>. QED BY <3>1, <3>2, <4>3, <4>4, OneWritten DEF UsedInv
    <3>3. CASE q \notin Questions
      BY <3>1, <3>3, NoneWritten
    <3>. QED BY <3>2, <3>3
  <2>. QED BY <2>1, <2>2
<1>. QED BY <1>1, <1>2, <1>3, <1>4, <1>5 DEF QuestionStep

LEMMA HistoryStep ==
  ASSUME DocsInv, UsedInv, [StoreNext]_vars
  PROVE  DocsInv' /\ UsedInv' /\ HistoryKept
<1>1. CASE \E c \in calls : QuestionStep(c)
  BY <1>1, QuestionsKept
<1>2. CASE UNCHANGED <<docs, used>>
  BY <1>2, NothingWritten
<1>3. StoreNext => (\E c \in calls : QuestionStep(c)) \/ UNCHANGED <<docs, used>>
  BY DEF StoreNext, storeVars, Tick, Ask, GetCompletedQuestionIds, GetAvailableQuestions
<1>4. UNCHANGED vars => UNCHANGED <<docs, used>>
  BY DEF vars, storeVars
<1>. QED BY <1>1, <1>2, <1>3, <1>4

(* No stale list or form undoes the counting of sessions or brings a deleted *)
(* question back.                                                            *)
THEOREM HistorySurvives == StoreSpec => HistoryIsKept
<1>1. DocsInv /\ UsedInv /\ [StoreNext]_vars => DocsInv' /\ UsedInv'
  BY HistoryStep
<1>2. DocsInv /\ UsedInv /\ [StoreNext]_vars => [HistoryKept]_vars
  BY HistoryStep
<1>3. StoreSpec => [][HistoryKept]_vars
  BY <1>1, <1>2, DocsInitially, PTL DEF StoreSpec
<1>. QED BY <1>3 DEF HistoryIsKept, HistoryKept

-----------------------------------------------------------------------------
(* Calls as records. *)

Fields == {"id", "b", "op", "arg", "at", "cookies", "user", "role", "fresh", "seen",
           "data", "res", "lost"}

(* Record d is call c later on: what never changes, who it was verified for, *)
(* and where it stands.                                                      *)
Keeps(d, c) ==
    /\ DOMAIN d = Fields
    /\ d.id = c.id /\ d.b = c.b /\ d.op = c.op /\ d.arg = c.arg /\ d.cookies = c.cookies
For(d, user, role, fresh, lost) ==
    d.user = user /\ d.role = role /\ d.fresh = fresh /\ d.lost = lost
Bears(d, at, res, seen, data) == d.at = at /\ d.res = res /\ d.seen = seen /\ d.data = data

(* The user it acts for is as it was. *)
Stays(d, c) == Keeps(d, c) /\ For(d, c.user, c.role, c.fresh, c.lost)

LEMMA Given ==
  ASSUME NEW c, DOMAIN c = Fields, NEW x, NEW y, NEW z
  PROVE  /\ LET d == [c EXCEPT !.at = x]
            IN  Stays(d, c) /\ Bears(d, x, c.res, c.seen, c.data)
         /\ LET d == [c EXCEPT !.at = "back", !.res = x]
            IN  Stays(d, c) /\ Bears(d, "back", x, c.seen, c.data)
         /\ LET d == [c EXCEPT !.at = "back", !.res = x, !.data = y]
            IN  Stays(d, c) /\ Bears(d, "back", x, c.seen, y)
         /\ LET d == [c EXCEPT !.at = "upload", !.seen = x]
            IN  Stays(d, c) /\ Bears(d, "upload", c.res, x, c.data)
         /\ LET d == [c EXCEPT !.at = "back", !.res = "error", !.fresh = TRUE]
            IN  Keeps(d, c) /\ For(d, c.user, c.role, TRUE, c.lost)
                /\ Bears(d, "back", "error", c.seen, c.data)
         /\ LET d == [[c EXCEPT !.user = x, !.role = y, !.fresh = z] EXCEPT !.at = "back", !.res = "ok"]
            IN  Keeps(d, c) /\ For(d, x, y, z, c.lost) /\ Bears(d, "back", "ok", c.seen, c.data)
         /\ LET d == [[c EXCEPT !.user = x, !.role = y, !.fresh = z] EXCEPT !.at = "service"]
            IN  Keeps(d, c) /\ For(d, x, y, z, c.lost) /\ Bears(d, "service", c.res, c.seen, c.data)
         /\ LET d == [c EXCEPT !.lost = TRUE]
            IN  Keeps(d, c) /\ For(d, c.user, c.role, c.fresh, TRUE)
                /\ Bears(d, c.at, c.res, c.seen, c.data)
<1>1. /\ LET d == [c EXCEPT !.at = x]
         IN  Stays(d, c) /\ Bears(d, x, c.res, c.seen, c.data)
      /\ LET d == [c EXCEPT !.at = "back", !.res = x]
         IN  Stays(d, c) /\ Bears(d, "back", x, c.seen, c.data)
  BY DEF Fields, Keeps, For, Bears, Stays
<1>2. LET d == [c EXCEPT !.at = "back", !.res = x, !.data = y]
      IN  Stays(d, c) /\ Bears(d, "back", x, c.seen, y)
  BY DEF Fields, Keeps, For, Bears, Stays
<1>3. LET d == [c EXCEPT !.at = "upload", !.seen = x]
      IN  Stays(d, c) /\ Bears(d, "upload", c.res, x, c.data)
  BY DEF Fields, Keeps, For, Bears, Stays
<1>4. LET d == [c EXCEPT !.at = "back", !.res = "error", !.fresh = TRUE]
      IN  Keeps(d, c) /\ For(d, c.user, c.role, TRUE, c.lost)
          /\ Bears(d, "back", "error", c.seen, c.data)
  BY DEF Fields, Keeps, For, Bears
<1>5. LET d == [[c EXCEPT !.user = x, !.role = y, !.fresh = z] EXCEPT !.at = "back", !.res = "ok"]
      IN  Keeps(d, c) /\ For(d, x, y, z, c.lost) /\ Bears(d, "back", "ok", c.seen, c.data)
  BY DEF Fields, Keeps, For, Bears
<1>6. LET d == [[c EXCEPT !.user = x, !.role = y, !.fresh = z] EXCEPT !.at = "service"]
      IN  Keeps(d, c) /\ For(d, x, y, z, c.lost) /\ Bears(d, "service", c.res, c.seen, c.data)
  BY DEF Fields, Keeps, For, Bears
<1>7. LET d == [c EXCEPT !.lost = TRUE]
      IN  Keeps(d, c) /\ For(d, c.user, c.role, c.fresh, TRUE)
          /\ Bears(d, c.at, c.res, c.seen, c.data)
  BY DEF Fields, Keeps, For, Bears
<1>. QED BY <1>1, <1>2, <1>3, <1>4, <1>5, <1>6, <1>7

(* Call c goes on as d, at a statement, with a result and data of its own.  *)
GoesAs(c, d, at, res, seen, data) == Move(c, d) /\ Stays(d, c) /\ Bears(d, at, res, seen, data)

LEMMA AnswerIs ==
  ASSUME NEW c, DOMAIN c = Fields, NEW r, Answer(c, r)
  PROVE  \E d : GoesAs(c, d, "back", r, c.seen, c.data)
  BY Given DEF Answer, GoesAs

LEMMA GoesIs ==
  ASSUME NEW c, DOMAIN c = Fields, NEW x, Goes(c, x)
  PROVE  \E d : GoesAs(c, d, x, c.res, c.seen, c.data)
  BY Given DEF Goes, GoesAs

LEMMA VerifiedIs ==
  ASSUME NEW c, DOMAIN c = Fields, NEW u, NEW r, NEW f, Verified(c, u, r, f)
  PROVE  \E d : /\ Move(c, d) /\ Keeps(d, c) /\ For(d, u, r, f, c.lost)
                /\ IF c.op = "verify" THEN Bears(d, "back", "ok", c.seen, c.data)
                   ELSE Bears(d, "service", c.res, c.seen, c.data)
<1>1. CASE c.op = "verify"
  BY <1>1, Given DEF Verified
<1>2. CASE c.op # "verify"
  BY <1>2, Given DEF Verified
<1>. QED BY <1>1, <1>2
-----------------------------------------------------------------------------
(* What the variables hold. *)

AccountSet == [role : Roles, pic : Nat]
TokenSet == [user : Emails, role : Roles, at : Nat]
AccessSet == [user : Emails, role : Roles]
JarSet == [access : AccessSet \cup {None}, refresh : TokenSet \cup {None}]
TabSet == [user : Emails \cup {None}, role : Roles \cup {None}, me : Emails \cup {None},
           ready : BOOLEAN]

Ops == SignIns \cup QuestionCalls
       \cup {"verify", "logout", "me", "picture", "users", "admins", "createAdmin"}

StepsOf(op) ==
    CASE op = "adminLogin"   -> {"service", "issue", "back"}
      [] op = "github"       -> {"service", "create", "issue", "back"}
      [] op = "picture"      -> {"service", "upload", "remove", "write", "back"}
      [] op = "createAdmin"  -> {"gate", "refresh", "service", "create", "back"}
      [] op = "completed"    -> {"gate", "refresh", "service", "peer", "count", "back"}
      [] op = "logout"       -> {"gate", "back"}
      [] op = "verify"       -> {"gate", "refresh", "back"}
      [] OTHER               -> {"gate", "refresh", "service", "back"}

(* What the services ask of the role of a call. *)
Allowed(op, role) ==
    CASE op \in {"users", "save", "delete"}  -> role \in {"ADMIN", "SUPER_ADMIN"}
      [] op \in {"admins", "createAdmin"}    -> role = "SUPER_ADMIN"
      [] OTHER                               -> TRUE

CallFits(c) ==
    /\ DOMAIN c = Fields
    /\ c.id \in Nat /\ c.b \in Browsers /\ c.op \in Ops /\ c.at \in StepsOf(c.op)
    /\ (c.at = "back") = (c.res # "none")
    /\ c.cookies \in JarSet /\ c.user \in Emails \cup {None} /\ c.role \in Roles \cup {None}
    /\ c.fresh \in BOOLEAN /\ c.lost \in BOOLEAN /\ c.seen \in Nat
    /\ c.fresh \/ c.at = "refresh" => c.cookies.refresh # None
    /\ c.op = "logout" => c.res \in {"none", "ok"}
    /\ c.op \in SignIns =>
         /\ c.arg \in Emails /\ c.data \in TokenSet \cup {None}
         /\ (c.data # None) = (c.res = "ok")
    /\ c.op \in SignIns \cup {"logout"} => c.user = None /\ ~c.fresh
    /\ c.op = "createAdmin" => c.arg \in Emails /\ c.data \in {"ADMIN", "SUPER_ADMIN"}
    /\ c.op = "picture" => c.arg \in Emails

TypeInv ==
    /\ account \in [Emails -> AccountSet \cup {None}]
    /\ tokens \subseteq TokenSet
    /\ second \in Nat /\ acts \in Nat /\ faults \in Nat
    /\ jar \in [Browsers -> JarSet] /\ page \in [Browsers -> TabSet]
    /\ \A c \in calls : CallFits(c)

(* Whom something names has an account, with that role. *)
Named(u, role) == account[u] # None /\ account[u].role = role
NamedAtMost(u, role) ==
    /\ u # None => account[u] # None /\ role \in {None, account[u].role}
    /\ u = None => role = None

CookiesTrue(j) ==
    /\ j.access # None => Named(j.access.user, j.access.role)
    /\ j.refresh # None => Named(j.refresh.user, j.refresh.role)

CallTrue(c) ==
    /\ CookiesTrue(c.cookies) /\ NamedAtMost(c.user, c.role)
    /\ c.op \in SignIns /\ c.at = "issue" => account[c.arg] # None
    /\ c.op \in SignIns /\ c.data # None => Named(c.data.user, c.data.role)
    /\ c.op = "picture" => account[c.arg] # None

TrueInv ==
    /\ \A t \in tokens : Named(t.user, t.role)
    /\ \A b \in Browsers : CookiesTrue(jar[b]) /\ NamedAtMost(page[b].user, page[b].role)
    /\ \A c \in calls : CallTrue(c)

AcctInv == TypeInv /\ TrueInv

-----------------------------------------------------------------------------
(* Steps of a call: through the gateway, and statement by statement. *)

(* Verified, it goes on to its service, or back if that was all it asked.   *)
Arrived(c, d) ==
    IF c.op = "verify" THEN Bears(d, "back", "ok", c.seen, c.data)
                       ELSE Bears(d, "service", c.res, c.seen, c.data)

Passes(c, d) ==
    /\ c.at = "gate" /\ c.op # "logout" /\ c.cookies.access # None
    /\ For(d, c.cookies.access.user, c.cookies.access.role, FALSE, c.lost)
    /\ Arrived(c, d)

Refreshes(c, d) ==
    /\ c.at = "refresh" /\ c.cookies.refresh \in tokens
    /\ For(d, c.cookies.refresh.user, None, TRUE, c.lost)
    /\ Arrived(c, d)

RefreshBreaks(c, d) ==
    /\ c.at = "refresh" /\ c.cookies.refresh \in tokens /\ c.op # "verify"
    /\ For(d, c.user, c.role, TRUE, c.lost)
    /\ Bears(d, "back", "error", c.seen, c.data)

Denied(c, d) ==
    /\ \/ c.at = "gate" /\ c.op # "logout" /\ c.cookies.refresh = None
       \/ c.at = "refresh" /\ (c.cookies.refresh \notin tokens \/ c.b \in astray')
    /\ Stays(d, c) /\ Bears(d, "back", "unauthorized", c.seen, c.data)

Expires(c, d) ==
    /\ c.at = "gate" /\ c.op # "logout" /\ c.cookies.refresh # None
    /\ Stays(d, c) /\ Bears(d, "refresh", c.res, c.seen, c.data)

SignsOut(c, d) ==
    /\ c.at = "gate" /\ c.op = "logout"
    /\ Stays(d, c) /\ Bears(d, "back", "ok", c.seen, c.data)

(* A new token, that no other browser has unless its own is marked.         *)
Issued(c, d) ==
    /\ c.at = "issue" /\ d.at = "back"
    /\ \E n \in Nat : d.data = Token(c.arg, n)
    /\ d.data \notin tokens /\ d.data \in tokens'
    /\ c.b \in astray' \/ \A b \in Browsers \ {c.b} : ~Holds(b, d.data)

SignsIn(c, d) ==
    c.op \in SignIns =>
        /\ d.at = "issue" => account'[c.arg] # None
        /\ d.res # "ok" => d.data = c.data
        /\ d.res = "ok" => Issued(c, d)

StoresPicture(c, d) ==
    c.op = "picture" =>
        \/ /\ c.at = "service" /\ d.at = "upload" /\ d.seen = account[c.arg].pic
           /\ UNCHANGED <<account, files>>
        \/ /\ c.at = "upload" /\ d.at = "remove" /\ d.seen = c.seen
           /\ files' = files \cup {c.id} /\ UNCHANGED account
        \/ /\ c.at = "remove" /\ d.at = "write" /\ d.seen = c.seen
           /\ files' = files \ {c.seen} \/ files' = files
           /\ UNCHANGED account
        \/ /\ c.at = "write" /\ d.at = "back" /\ d.seen = c.seen
           /\ account' = [account EXCEPT ![c.arg].pic = c.id] /\ UNCHANGED files
        \/ d.at = "back" /\ d.seen = c.seen /\ faults' = faults + 1 /\ UNCHANGED <<account, files>>

MarksBoth(c, d) ==
    c.op = "completed" =>
        \/ d.at = "back" /\ d.res = "error"
        \/ c.at = "service" /\ d.at = "peer" /\ <<c.arg.user, c.arg.q>> \in completed'
        \/ c.at = "peer" /\ d.at = "count" /\ <<c.arg.peer, c.arg.q>> \in completed'
        \/ c.at = "count" /\ d.at = "back"

Serves(c, d) ==
    /\ Stays(d, c)
    /\ c.at \notin {"gate", "refresh", "back"}
    /\ d.at \in StepsOf(c.op) \ {"gate", "refresh", "service"}
    /\ (d.at = "back") = (d.res # "none")
    /\ d.res = "forbidden" => ~Allowed(c.op, c.role)
    /\ c.op \notin SignIns \cup {"list"} => d.data = c.data
    /\ c.op # "picture" => d.seen = c.seen
    /\ SignsIn(c, d) /\ StoresPicture(c, d) /\ MarksBoth(c, d)

Steps(c, d) ==
    /\ Move(c, d) /\ Keeps(d, c)
    /\ \/ Passes(c, d) \/ Refreshes(c, d) \/ RefreshBreaks(c, d) \/ Denied(c, d)
       \/ Expires(c, d) \/ SignsOut(c, d) \/ Serves(c, d)

LEMMA GatewaySteps ==
  ASSUME NEW c, CallFits(c), VerifyGateway(c) \/ Refresh(c) \/ LogoutHandler(c)
  PROVE  \E d : Steps(c, d)
<1>0. DOMAIN c = Fields
  BY DEF CallFits
<1>1. CASE VerifyGateway(c)
  <2>1. c.at = "gate" /\ c.op # "logout"
    BY <1>1 DEF VerifyGateway
  <2>2. CASE c.cookies.access # None /\ Verified(c, c.cookies.access.user, c.cookies.access.role, FALSE)
    <3>1. PICK d : /\ Move(c, d) /\ Keeps(d, c)
                   /\ For(d, c.cookies.access.user, c.cookies.access.role, FALSE, c.lost)
                   /\ IF c.op = "verify" THEN Bears(d, "back", "ok", c.seen, c.data)
                      ELSE Bears(d, "service", c.res, c.seen, c.data)
      BY <1>0, <2>2, VerifiedIs
    <3>2. Passes(c, d)
      BY <2>1, <2>2, <3>1 DEF Passes, Arrived
    <3>. QED BY <3>1, <3>2 DEF Steps
  <2>3. CASE Expired(c) /\ c.cookies.refresh = None
    <3>1. PICK d : GoesAs(c, d, "back", "unauthorized", c.seen, c.data)
      BY <1>0, <2>3, AnswerIs DEF Expired
    <3>2. Denied(c, d)
      BY <2>1, <2>3, <3>1 DEF Denied, GoesAs
    <3>. QED BY <3>1, <3>2 DEF Steps, GoesAs, Stays
  <2>4. CASE Expired(c) /\ c.cookies.refresh # None
    <3>1. PICK d : GoesAs(c, d, "refresh", c.res, c.seen, c.data)
      BY <1>0, <2>4, GoesIs DEF Expired
    <3>2. Expires(c, d)
      BY <2>1, <2>4, <3>1 DEF Expires, GoesAs
    <3>. QED BY <3>1, <3>2 DEF Steps, GoesAs, Stays
  <2>. QED BY <1>1, <2>2, <2>3, <2>4 DEF VerifyGateway
<1>2. CASE Refresh(c)
  <2>1. c.at = "refresh"
    BY <1>2 DEF Refresh
  <2>2. CASE c.cookies.refresh \in tokens /\ Verified(c, c.cookies.refresh.user, None, TRUE)
    <3>1. PICK d : /\ Move(c, d) /\ Keeps(d, c)
                   /\ For(d, c.cookies.refresh.user, None, TRUE, c.lost)
                   /\ IF c.op = "verify" THEN Bears(d, "back", "ok", c.seen, c.data)
                      ELSE Bears(d, "service", c.res, c.seen, c.data)
      BY <1>0, <2>2, VerifiedIs
    <3>2. Refreshes(c, d)
      BY <2>1, <2>2, <3>1 DEF Refreshes, Arrived
    <3>. QED BY <3>1, <3>2 DEF Steps
  <2>3. CASE /\ c.cookies.refresh \in tokens /\ c.op # "verify"
             /\ Move(c, [c EXCEPT !.at = "back", !.res = "error", !.fresh = TRUE])
    <3>1. PICK d : /\ Move(c, d) /\ Keeps(d, c) /\ For(d, c.user, c.role, TRUE, c.lost)
                   /\ Bears(d, "back", "error", c.seen, c.data)
      BY <1>0, <2>3, Given
    <3>2. RefreshBreaks(c, d)
      BY <2>1, <2>3, <3>1 DEF RefreshBreaks
    <3>. QED BY <3>1, <3>2 DEF Steps
  <2>4. CASE Answer(c, "unauthorized") /\ (c.cookies.refresh \notin tokens \/ c.b \in astray')
    <3>1. PICK d : GoesAs(c, d, "back", "unauthorized", c.seen, c.data)
      BY <1>0, <2>4, AnswerIs
    <3>2. Denied(c, d)
      BY <2>1, <2>4, <3>1 DEF Denied, GoesAs
    <3>. QED BY <3>1, <3>2 DEF Steps, GoesAs, Stays
  <2>. QED BY <1>2, <2>2, <2>3, <2>4 DEF Refresh
<1>3. CASE LogoutHandler(c)
  <2>1. PICK d : GoesAs(c, d, "back", "ok", c.seen, c.data)
    BY <1>0, <1>3, AnswerIs DEF LogoutHandler
  <2>2. SignsOut(c, d)
    BY <1>3, <2>1 DEF SignsOut, GoesAs, LogoutHandler
  <2>. QED BY <2>1, <2>2 DEF Steps, GoesAs, Stays
<1>. QED BY <1>1, <1>2, <1>3

LEMMA StepNames ==
  ASSUME NEW c, CallFits(c)
  PROVE  /\ c.at = "issue" => c.op \in SignIns
         /\ c.at = "create" => c.op \in {"github", "createAdmin"}
         /\ c.at = "service" => c.op \notin {"verify", "logout"}
         /\ c.op \in SignIns => "issue" \in StepsOf(c.op)
         /\ c.op \in {"github", "createAdmin"} => "create" \in StepsOf(c.op)
         /\ c.op = "completed" => "peer" \in StepsOf(c.op) /\ "count" \in StepsOf(c.op)
         /\ c.op = "picture" => {"upload", "remove", "write"} \subseteq StepsOf(c.op)
         /\ "back" \in StepsOf(c.op)
         /\ c.at # "back" => c.res = "none"
<1>1. c.op \in Ops /\ c.at \in StepsOf(c.op) /\ ((c.at = "back") = (c.res # "none"))
  BY DEF CallFits
<1>. QED BY <1>1 DEF Ops, StepsOf, SignIns, QuestionCalls

(* A service answers, with nothing that the answer carries. *)
LEMMA PlainAnswer ==
  ASSUME NEW c, CallFits(c), c.at \notin {"gate", "refresh", "back"}, NEW r, r # "none",
         Answer(c, r),
         r = "forbidden" => ~Allowed(c.op, c.role),
         c.op \in SignIns => r # "ok",
         c.op = "picture" => \/ faults' = faults + 1 /\ UNCHANGED <<account, files>>
                             \/ /\ c.at = "write" /\ UNCHANGED files
                                /\ account' = [account EXCEPT ![c.arg].pic = c.id],
         c.op = "completed" => r = "error" \/ c.at = "count"
  PROVE  \E d : Steps(c, d)
<1>1. PICK d : GoesAs(c, d, "back", r, c.seen, c.data)
  BY AnswerIs DEF CallFits
<1>2. Stays(d, c) /\ d.at = "back" /\ d.res = r /\ d.seen = c.seen /\ d.data = c.data
  BY <1>1 DEF GoesAs, Bears
<1>3. SignsIn(c, d) /\ StoresPicture(c, d) /\ MarksBoth(c, d)
  BY <1>2 DEF SignsIn, StoresPicture, MarksBoth
<1>4. d.at \in StepsOf(c.op) \ {"gate", "refresh", "service"}
  BY <1>2, StepNames
<1>5. Serves(c, d)
  BY <1>2, <1>3, <1>4 DEF Serves
<1>. QED BY <1>1, <1>5 DEF Steps, GoesAs, Stays

(* It goes on to its next statement. *)
LEMMA NextStatement ==
  ASSUME NEW c, CallFits(c), c.at \notin {"gate", "refresh", "back"}, NEW x, Goes(c, x),
         x \in StepsOf(c.op) \ {"gate", "refresh", "service", "back"},
         c.op \in SignIns /\ x = "issue" => account'[c.arg] # None,
         c.op = "picture" =>
            \/ /\ c.at = "upload" /\ x = "remove"
               /\ files' = files \cup {c.id} /\ UNCHANGED account
            \/ /\ c.at = "remove" /\ x = "write"
               /\ files' = files \ {c.seen} \/ files' = files
               /\ UNCHANGED account,
         c.op = "completed" =>
            \/ c.at = "service" /\ x = "peer" /\ <<c.arg.user, c.arg.q>> \in completed'
            \/ c.at = "peer" /\ x = "count" /\ <<c.arg.peer, c.arg.q>> \in completed'
  PROVE  \E d : Steps(c, d)
<1>1. PICK d : GoesAs(c, d, x, c.res, c.seen, c.data)
  BY GoesIs DEF CallFits
<1>2. Stays(d, c) /\ d.at = x /\ d.res = "none" /\ d.seen = c.seen /\ d.data = c.data
  BY <1>1, StepNames DEF GoesAs, Bears
<1>3. SignsIn(c, d) /\ StoresPicture(c, d) /\ MarksBoth(c, d)
  BY <1>2 DEF SignsIn, StoresPicture, MarksBoth
<1>5. Serves(c, d)
  BY <1>2, <1>3 DEF Serves
<1>. QED BY <1>1, <1>5 DEF Steps, GoesAs, Stays

LEMMA UserServiceSteps ==
  ASSUME NEW c, CallFits(c), TypeInv,
         AdminLogin(c) \/ FindAccount(c) \/ CreateAccount(c) \/ ReadAccounts(c)
  PROVE  \E d : Steps(c, d)
<1>0. c.op \in Ops /\ c.at \in StepsOf(c.op)
  BY DEF CallFits
<1>1. CASE AdminLogin(c)
  <2>1. c.op = "adminLogin" /\ c.at = "service" /\ account' = account
    BY <1>1 DEF AdminLogin
  <2>2. CASE account[c.arg] # None /\ Goes(c, "issue")
    BY <2>1, <2>2, NextStatement, StepNames DEF SignIns
  <2>3. CASE Answer(c, "unauthorized")
    BY <2>1, <2>3, PlainAnswer
  <2>. QED BY <1>1, <2>2, <2>3 DEF AdminLogin
<1>2. CASE FindAccount(c)
  <2>1. c.op \in {"github", "createAdmin"} /\ c.at = "service" /\ account' = account
    BY <1>2 DEF FindAccount
  <2>2. CASE Goes(c, "create")
    BY <2>1, <2>2, NextStatement, StepNames
  <2>3. CASE c.op = "github" /\ account[c.arg] # None /\ Goes(c, "issue")
    BY <2>1, <2>3, NextStatement, StepNames DEF SignIns
  <2>4. CASE c.op = "createAdmin" /\ c.role # "SUPER_ADMIN" /\ Answer(c, "forbidden")
    <3>1. ~Allowed(c.op, c.role)
      BY <2>4 DEF Allowed
    <3>. QED BY <2>1, <2>4, <3>1, PlainAnswer DEF SignIns
  <2>5. CASE c.op = "createAdmin" /\ Answer(c, "conflict")
    BY <2>1, <2>5, PlainAnswer DEF SignIns
  <2>. QED BY <1>2, <2>1, <2>2, <2>3, <2>4, <2>5 DEF FindAccount
<1>3. CASE CreateAccount(c)
  <2>1. c.op \in {"github", "createAdmin"} /\ c.at = "create"
    BY <1>3, StepNames DEF CreateAccount
  <2>2. CASE Answer(c, "error")
    BY <2>1, <2>2, PlainAnswer
  <2>3. CASE c.op = "createAdmin" /\ Answer(c, "ok")
    BY <2>1, <2>3, PlainAnswer DEF SignIns
  <2>4. CASE /\ c.op = "github" /\ Goes(c, "issue")
             /\ account' = [account EXCEPT ![c.arg] = [role |-> RoleAsked(c), pic |-> 0]]
    <3> DEFINE a == [role |-> RoleAsked(c), pic |-> 0]
    <3>1. a \in AccountSet
      BY <2>4 DEF AccountSet, RoleAsked, Roles
    <3>2. account'[c.arg] # None
      BY <2>4, <3>1, AccountsAssumption DEF AccountSet, CallFits, SignIns, TypeInv
    <3>. QED BY <2>1, <2>4, <3>2, NextStatement, StepNames DEF SignIns
  <2>. QED BY <1>3, <2>1, <2>2, <2>3, <2>4 DEF CreateAccount
<1>4. CASE ReadAccounts(c)
  <2>1. c.op \in {"users", "admins", "me"} /\ c.at = "service"
    BY <1>4 DEF ReadAccounts
  <2>2. CASE Answer(c, "ok")
    BY <2>1, <2>2, PlainAnswer DEF SignIns
  <2>3. CASE Answer(c, "forbidden") /\ ~Allowed(c.op, c.role)
    BY <2>1, <2>3, PlainAnswer DEF SignIns
  <2>4. Answer(c, "ok") \/ (Answer(c, "forbidden") /\ ~Allowed(c.op, c.role))
    BY <1>4 DEF ReadAccounts, Allowed
  <2>. QED BY <2>2, <2>3, <2>4
<1>. QED BY <1>1, <1>2, <1>3, <1>4

LEMMA IssueSteps == ASSUME NEW c, CallFits(c), TypeInv, Issue(c) PROVE \E d : Steps(c, d)
<1>1. c.at = "issue" /\ c.op \in SignIns
  BY StepNames DEF Issue
<1>2. CASE Answer(c, "error")
  BY <1>1, <1>2, PlainAnswer DEF SignIns
<1>3. CASE ~Answer(c, "error")
  <2>1. PICK n \in {second, second + 1} :
             /\ Token(c.arg, n) \notin tokens /\ tokens' = tokens \cup {Token(c.arg, n)}
             /\ Move(c, [c EXCEPT !.at = "back", !.res = "ok", !.data = Token(c.arg, n)])
             /\ astray' = astray \cup
                   IF \E b \in Browsers \ {c.b} : Holds(b, Token(c.arg, n)) THEN {c.b} ELSE {}
    BY <1>3 DEF Issue
  <2> DEFINE t == Token(c.arg, n)
             d == [c EXCEPT !.at = "back", !.res = "ok", !.data = t]
  <2>2. DOMAIN c = Fields
    BY DEF CallFits
  <2>3. Stays(d, c) /\ Bears(d, "back", "ok", c.seen, t)
    BY <2>2, Given
  <2>4. n \in Nat /\ t = Token(c.arg, n)
    BY <2>1 DEF TypeInv
  <2>5. /\ t \notin tokens /\ t \in tokens' /\ Move(c, d)
        /\ c.b \in astray' \/ \A b \in Browsers \ {c.b} : ~Holds(b, t)
    BY <2>1
  <2> HIDE DEF d, t
  <2>6. Issued(c, d)
    BY <1>1, <2>3, <2>4, <2>5 DEF Issued, Bears
  <2>7. c.op \notin {"picture", "completed"}
    BY <1>1 DEF SignIns
  <2>8. SignsIn(c, d) /\ StoresPicture(c, d) /\ MarksBoth(c, d)
    BY <2>3, <2>6, <2>7 DEF SignsIn, StoresPicture, MarksBoth, Bears
  <2>9. d.at \in StepsOf(c.op) \ {"gate", "refresh", "service"}
    BY <2>3, StepNames DEF Bears
  <2>10. Serves(c, d)
    BY <1>1, <2>3, <2>8, <2>9 DEF Serves, Bears
  <2>. QED BY <2>3, <2>5, <2>10 DEF Steps, Stays
<1>. QED BY <1>2, <1>3

LEMMA PictureSteps ==
  ASSUME NEW c, CallFits(c), TypeInv,
         ReadPicture(c) \/ UploadPicture(c) \/ RemovePicture(c) \/ WritePicture(c)
  PROVE  \E d : Steps(c, d)
<1>0. c.op = "picture" /\ c.op \notin SignIns /\ c.op # "completed"
  BY DEF ReadPicture, UploadPicture, RemovePicture, WritePicture, SignIns
<1>1. CASE ReadPicture(c)
  <2> DEFINE d == [c EXCEPT !.at = "upload", !.seen = account[c.arg].pic]
  <2>1. Stays(d, c) /\ Bears(d, "upload", c.res, account[c.arg].pic, c.data)
    BY Given DEF CallFits
  <2>2. Move(c, d) /\ c.at = "service" /\ UNCHANGED <<account, files>>
    BY <1>1 DEF ReadPicture
  <2> HIDE DEF d
  <2>3. SignsIn(c, d) /\ StoresPicture(c, d) /\ MarksBoth(c, d)
    BY <1>0, <2>1, <2>2 DEF SignsIn, StoresPicture, MarksBoth, Bears
  <2>4. Serves(c, d)
    BY <1>0, <2>1, <2>2, <2>3, StepNames DEF Serves, Bears
  <2>. QED BY <2>1, <2>2, <2>4 DEF Steps, Stays
<1>2. CASE UploadPicture(c)
  <2>1. CASE files' = files \cup {c.id} /\ Goes(c, "remove")
    BY <1>0, <1>2, <2>1, NextStatement, StepNames DEF UploadPicture
  <2>2. CASE Fault /\ Answer(c, "error") /\ UNCHANGED files
    BY <1>0, <1>2, <2>2, PlainAnswer DEF UploadPicture, Fault
  <2>. QED BY <1>2, <2>1, <2>2 DEF UploadPicture
<1>3. CASE RemovePicture(c)
  <2>1. files' = files \ {c.seen} \/ files' = files
    BY <1>3 DEF RemovePicture
  <2>. QED BY <1>0, <1>3, <2>1, NextStatement, StepNames DEF RemovePicture
<1>4. CASE WritePicture(c)
  <2>1. CASE account' = [account EXCEPT ![c.arg].pic = c.id] /\ Answer(c, "ok")
    BY <1>0, <1>4, <2>1, PlainAnswer DEF WritePicture
  <2>2. CASE Fault /\ Answer(c, "error") /\ UNCHANGED account
    BY <1>0, <1>4, <2>2, PlainAnswer DEF WritePicture, Fault
  <2>. QED BY <1>4, <2>1, <2>2 DEF WritePicture
<1>. QED BY <1>1, <1>2, <1>3, <1>4

LEMMA QuestionServiceSteps ==
  ASSUME NEW c, CallFits(c), QuestionStep(c)
  PROVE  \E d : Steps(c, d)
<1>0. /\ c.op \in QuestionCalls /\ c.op \notin SignIns /\ c.op # "picture"
      /\ c.at \notin {"gate", "refresh", "back"}
  BY DEF QuestionStep, ListQuestions, Refused, CreateQuestion, UpdateQuestion, DeleteQuestion,
         MarkCompleted, IncrementMatched, QuestionCalls, SignIns
<1>1. CASE ListQuestions(c)
  <2>1. PICK v : Move(c, [c EXCEPT !.at = "back", !.res = "ok", !.data = v])
    BY <1>1 DEF ListQuestions
  <2> DEFINE d == [c EXCEPT !.at = "back", !.res = "ok", !.data = v]
  <2>2. Stays(d, c) /\ Bears(d, "back", "ok", c.seen, v)
    BY Given DEF CallFits
  <2>3. Move(c, d) /\ c.op = "list"
    BY <1>1, <2>1 DEF ListQuestions
  <2> HIDE DEF d
  <2>4. SignsIn(c, d) /\ StoresPicture(c, d) /\ MarksBoth(c, d)
    BY <1>0, <2>3 DEF SignsIn, StoresPicture, MarksBoth
  <2>5. d.at \in StepsOf(c.op) \ {"gate", "refresh", "service"}
    BY <2>2, StepNames DEF Bears
  <2>6. Serves(c, d)
    BY <1>0, <2>2, <2>3, <2>4, <2>5 DEF Serves, Bears
  <2>. QED BY <2>2, <2>3, <2>6 DEF Steps, Stays
<1>2. CASE Refused(c)
  <2>1. Answer(c, "forbidden") /\ c.op # "completed" /\ ~Allowed(c.op, c.role)
    BY <1>2 DEF Refused, Allowed, AdminOnly
  <2>. QED BY <1>0, <2>1, PlainAnswer
<1>3. CASE CreateQuestion(c) \/ UpdateQuestion(c) \/ DeleteQuestion(c)
  <2>1. c.op # "completed" /\ (Answer(c, "ok") \/ Answer(c, "error") \/ Answer(c, "notFound"))
    BY <1>3 DEF CreateQuestion, UpdateQuestion, DeleteQuestion
  <2>. QED BY <1>0, <2>1, PlainAnswer
<1>4. CASE MarkCompleted(c)
  <2>1. c.op = "completed" /\ c.at \in {"service", "peer"}
    BY <1>4 DEF MarkCompleted
  <2>2. CASE Answer(c, "error")
    BY <1>0, <2>1, <2>2, PlainAnswer
  <2>3. CASE /\ completed' = completed \cup {<<IF c.at = "peer" THEN c.arg.peer ELSE c.arg.user, c.arg.q>>}
             /\ Goes(c, IF c.at = "service" THEN "peer" ELSE "count")
    <3>1. CASE c.at = "service"
      <4>1. Goes(c, "peer") /\ <<c.arg.user, c.arg.q>> \in completed'
        BY <2>3, <3>1
      <4>. QED BY <1>0, <2>1, <3>1, <4>1, NextStatement, StepNames
    <3>2. CASE c.at = "peer"
      <4>1. Goes(c, "count") /\ <<c.arg.peer, c.arg.q>> \in completed'
        BY <2>3, <3>2
      <4>. QED BY <1>0, <2>1, <3>2, <4>1, NextStatement, StepNames
    <3>. QED BY <2>1, <3>1, <3>2
  <2>. QED BY <1>4, <2>2, <2>3 DEF MarkCompleted
<1>5. CASE IncrementMatched(c)
  <2>1. c.op = "completed" /\ c.at = "count" /\ Answer(c, "ok")
    BY <1>5 DEF IncrementMatched
  <2>. QED BY <1>0, <2>1, PlainAnswer
<1>. QED BY <1>1, <1>2, <1>3, <1>4, <1>5 DEF QuestionStep

-----------------------------------------------------------------------------
(* What calls there are after a step. *)

(* A page is gone that waited for c. *)
LostOf(d, c) ==
    /\ Keeps(d, c) /\ For(d, c.user, c.role, c.fresh, TRUE)
    /\ Bears(d, c.at, c.res, c.seen, c.data)

(* What a page asks for. *)
Asked(d) ==
    /\ d.op \in SignIns => ShowsLogin(d.b) /\ d.arg \in Emails
    /\ d.op \notin SignIns \cup {"verify", "list"} => ShowsPages(d.b)
    /\ Allowed(d.op, page[d.b].role)
    /\ d.op = "createAdmin" => d.arg \in Emails /\ d.data \in {"ADMIN", "SUPER_ADMIN"}
    /\ d.op = "picture" => d.arg = page[d.b].user /\ d.id = acts + 1 /\ acts' = acts + 1
    /\ d.op = "save" => d.arg.kind \in Kinds
    /\ d.op = "completed" => /\ d.arg.user = page[d.b].user
                             /\ d.arg.peer \in Emails /\ d.arg.q \in Known

IsNew(d, b) ==
    /\ DOMAIN d = Fields /\ d.b = b /\ d.id \in Nat
    /\ For(d, None, None, FALSE, FALSE) /\ d.res = "none" /\ d.seen = 0

Begun(d) ==
    /\ d.b \in Browsers /\ IsNew(d, d.b) /\ d.op \in Ops
    /\ d.at = IF d.op \in SignIns \cup {"picture"} THEN "service" ELSE "gate"
    /\ d.op # "createAdmin" => d.data = None
    /\ \/ d.cookies = jar[d.b]
       \/ /\ d.op \in {"verify", "list"}
          /\ \E c \in calls : c.b = d.b /\ c.at = "back" /\ d.cookies = Cookies(c)
    /\ Asked(d)

LEMMA LostCalls ==
  ASSUME TypeInv, NEW b, NEW d \in Unloaded(b)
  PROVE  d \in calls \/ \E c \in calls : LostOf(d, c) /\ c.b = b
<1>1. PICK c \in calls : d = IF c.b = b THEN [c EXCEPT !.lost = TRUE] ELSE c
  BY DEF Unloaded
<1>2. DOMAIN c = Fields
  BY DEF TypeInv, CallFits
<1>3. CASE c.b = b
  BY <1>1, <1>2, <1>3, Given DEF LostOf
<1>. QED BY <1>1, <1>3

(* A page starts a call that its user asks for. *)
LEMMA Starting ==
  ASSUME TypeInv, NEW b \in Browsers, VisitorStep(b) \/ AdminStep(b), NEW d \in calls'
  PROVE  d \in calls \/ (\E c \in calls : LostOf(d, c)) \/ Begun(d)
<1>0. acts \in Nat /\ acts + 1 \in Nat
  BY DEF TypeInv
<1>1. ASSUME NEW op \in Ops, NEW arg, NEW at, Start(b, op, arg, at), op # "createAdmin",
             at = IF op \in SignIns \cup {"picture"} THEN "service" ELSE "gate",
             \A e : e.op = op /\ e.arg = arg /\ e.b = b /\ e.id = acts + 1 => Asked(e)
      PROVE  d \in calls \/ Begun(d)
  <2> DEFINE e == [Call(acts + 1, b, op, arg) EXCEPT !.at = at]
  <2>1. /\ IsNew(e, b) /\ e.op = op /\ e.arg = arg /\ e.at = at
        /\ e.data = None /\ e.cookies = jar[b] /\ e.id = acts + 1
    BY <1>0 DEF Call, IsNew, For, Fields
  <2>2. calls' = calls \cup {e} /\ acts' = acts + 1
    BY <1>1 DEF Start
  <2> HIDE DEF e
  <2>3. Begun(e)
    BY <1>1, <2>1, <2>2 DEF Begun, IsNew
  <2>. QED BY <2>2, <2>3
<1>2. ASSUME NEW e \in Emails, SignInAdmin(b, e) PROVE d \in calls \/ Begun(d)
  <2>1. ShowsLogin(b) /\ Start(b, "adminLogin", e, "service")
    BY <1>2 DEF SignInAdmin
  <2>2. \A k : k.op = "adminLogin" /\ k.arg = e /\ k.b = b => Asked(k)
    BY <2>1 DEF Asked, Allowed, SignIns
  <2>. QED BY <1>1, <2>1, <2>2 DEF Ops, SignIns
<1>3. ASSUME NEW e \in Emails, SignInGithub(b, e)
      PROVE  d \in calls \/ (\E c \in calls : LostOf(d, c)) \/ Begun(d)
  <2> DEFINE k == [Call(acts + 1, b, "github", e) EXCEPT !.at = "service"]
  <2>1. /\ IsNew(k, b) /\ k.op = "github" /\ k.arg = e /\ k.at = "service"
        /\ k.data = None /\ k.cookies = jar[b] /\ k.id = acts + 1
    BY <1>0 DEF Call, IsNew, For, Fields
  <2>2. ShowsLogin(b) /\ calls' = Unloaded(b) \cup {k}
    BY <1>3 DEF SignInGithub
  <2> HIDE DEF k
  <2>3. Asked(k)
    BY <2>1, <2>2 DEF Asked, Allowed, SignIns, IsNew
  <2>4. Begun(k)
    BY <2>1, <2>3 DEF Begun, IsNew, Ops, SignIns
  <2>. QED BY <2>2, <2>4, LostCalls
<1>4. CASE Reload(b)
  <2> DEFINE k == VerifyOf(b, jar[b])
  <2>1. /\ IsNew(k, b) /\ k.op = "verify" /\ k.at = "gate"
        /\ k.data = None /\ k.cookies = jar[b]
    BY DEF VerifyOf, Call, IsNew, For, Fields
  <2>2. calls' = Unloaded(b) \cup {k}
    BY <1>4 DEF Reload
  <2> HIDE DEF k
  <2>3. Asked(k)
    BY <2>1, <2>2 DEF Asked, Allowed, SignIns, IsNew
  <2>4. Begun(k)
    BY <2>1, <2>3 DEF Begun, IsNew, Ops, SignIns
  <2>. QED BY <2>2, <2>4, LostCalls
<1>5. ASSUME NEW e \in Emails, NEW role \in {"ADMIN", "SUPER_ADMIN"}, CreateAdmin(b, e, role)
      PROVE  d \in calls \/ Begun(d)
  <2> DEFINE k == [Call(acts + 1, b, "createAdmin", e) EXCEPT !.data = role]
  <2>1. /\ IsNew(k, b) /\ k.op = "createAdmin" /\ k.arg = e /\ k.at = "gate"
        /\ k.data = role /\ k.cookies = jar[b]
    BY <1>0 DEF Call, IsNew, For, Fields
  <2>2. ShowsAdmins(b) /\ calls' = calls \cup {k}
    BY <1>5 DEF CreateAdmin
  <2> HIDE DEF k
  <2>3. Asked(k)
    BY <2>1, <2>2 DEF Asked, Allowed, SignIns, IsNew, ShowsAdmins
  <2>4. Begun(k)
    BY <2>1, <2>3 DEF Begun, IsNew, Ops, SignIns
  <2>. QED BY <2>2, <2>4
<1>6. CASE SignOut(b) \/ ShowProfile(b) \/ LoadQuestions(b)
  <2>1. PICK op \in {"logout", "me", "list"} : ShowsPages(b) /\ Start(b, op, None, "gate")
    BY <1>6 DEF SignOut, ShowProfile, LoadQuestions
  <2>2. \A k : k.op = op /\ k.arg = None /\ k.b = b => Asked(k)
    BY <2>1 DEF Asked, Allowed, SignIns
  <2>. QED BY <1>1, <2>1, <2>2 DEF Ops, SignIns, QuestionCalls
<1>7. CASE ListUsers(b) \/ ListAdmins(b)
  <2>1. PICK op \in {"users", "admins"} :
             ShowsPages(b) /\ Allowed(op, page[b].role) /\ Start(b, op, None, "gate")
    BY <1>7 DEF ListUsers, ListAdmins, ShowsAdmin, ShowsAdmins, Allowed
  <2>2. \A k : k.op = op /\ k.arg = None /\ k.b = b => Asked(k)
    BY <2>1 DEF Asked, SignIns
  <2>. QED BY <1>1, <2>1, <2>2 DEF Ops, SignIns
<1>8. CASE ChangePicture(b)
  <2>1. ShowsPages(b) /\ Start(b, "picture", page[b].user, "service")
    BY <1>8 DEF ChangePicture
  <2>2. \A k : k.op = "picture" /\ k.arg = page[b].user /\ k.b = b /\ k.id = acts + 1 => Asked(k)
    BY <2>1 DEF Asked, Allowed, SignIns, Start
  <2>. QED BY <1>1, <2>1, <2>2 DEF Ops, SignIns
<1>9. ASSUME NEW q, NEW k \in Kinds, SaveQuestion(b, q, k) PROVE d \in calls \/ Begun(d)
  <2>1. /\ ShowsPages(b) /\ Allowed("save", page[b].role)
        /\ Start(b, "save", FormData(b, q, k), "gate")
    BY <1>9 DEF SaveQuestion, ShowsAdmin, Allowed
  <2>2. FormData(b, q, k).kind = k
    BY DEF FormData
  <2>3. \A e : e.op = "save" /\ e.arg = FormData(b, q, k) /\ e.b = b => Asked(e)
    BY <2>1, <2>2 DEF Asked, SignIns
  <2>. QED BY <1>1, <2>1, <2>3 DEF Ops, SignIns, QuestionCalls
<1>10. ASSUME NEW q, ConfirmDelete(b, q) PROVE d \in calls \/ Begun(d)
  <2>1. ShowsPages(b) /\ Allowed("delete", page[b].role) /\ Start(b, "delete", q, "gate")
    BY <1>10 DEF ConfirmDelete, ShowsAdmin, Allowed
  <2>2. \A e : e.op = "delete" /\ e.arg = q /\ e.b = b => Asked(e)
    BY <2>1 DEF Asked, SignIns
  <2>. QED BY <1>1, <2>1, <2>2 DEF Ops, SignIns, QuestionCalls
<1>11. ASSUME NEW q \in Known, NEW peer \in Emails, EndSession(b, peer, q)
       PROVE  d \in calls \/ Begun(d)
  <2> DEFINE arg == [user |-> page[b].user, peer |-> peer, q |-> q]
  <2>1. ShowsPages(b) /\ Start(b, "completed", arg, "gate")
    BY <1>11 DEF EndSession
  <2>2. arg.user = page[b].user /\ arg.peer \in Emails /\ arg.q \in Known
    OBVIOUS
  <2> HIDE DEF arg
  <2>3. \A e : e.op = "completed" /\ e.arg = arg /\ e.b = b => Asked(e)
    BY <2>1, <2>2 DEF Asked, Allowed, SignIns
  <2>. QED BY <1>1, <2>1, <2>3 DEF Ops, SignIns, QuestionCalls
<1>12. CASE VisitorStep(b)
  BY <1>2, <1>3, <1>4, <1>5, <1>6, <1>7, <1>8, <1>12 DEF VisitorStep
<1>13. CASE AdminStep(b)
  BY <1>6, <1>9, <1>10, <1>11, <1>13 DEF AdminStep
<1>. QED BY <1>12, <1>13

(* An answer arrives, or is lost. *)
LEMMA Arriving ==
  ASSUME TypeInv, NEW c \in calls, NEW d \in calls',
         Redirected(c) \/ ArriveLost(c) \/ NetworkFails(c) \/ Arrive(c) \/ Answered(c)
  PROVE  d \in calls \/ (\E e \in calls : LostOf(d, e)) \/ Begun(d)
<1>0. c.b \in Browsers
  BY DEF TypeInv, CallFits
<1>1. CASE NetworkFails(c) \/ Arrive(c) \/ ArriveLost(c)
  <2>1. calls' \subseteq calls \cup Unloaded(c.b)
    BY <1>1 DEF NetworkFails, Arrive, ArriveLost, Remaining
  <2>. QED BY <2>1, LostCalls
<1>2. CASE Redirected(c)
  <2> DEFINE k == VerifyOf(c.b, Cookies(c))
  <2>1. IsNew(k, c.b) /\ k.op = "verify" /\ k.at = "gate" /\ k.data = None /\ k.cookies = Cookies(c)
    BY DEF VerifyOf, Call, IsNew, For, Fields
  <2>2. c.at = "back" /\ calls' = (calls \ {c}) \cup {k}
    BY <1>2 DEF Redirected
  <2> HIDE DEF k
  <2>3. Asked(k)
    BY <2>1 DEF Asked, Allowed, SignIns, IsNew
  <2>4. Begun(k)
    BY <1>0, <2>1, <2>2, <2>3 DEF Begun, IsNew, Ops, SignIns
  <2>. QED BY <2>2, <2>4
<1>3. CASE Answered(c)
  <2> DEFINE k == [Call(0, c.b, "list", None) EXCEPT !.cookies = Cookies(c)]
  <2>1. IsNew(k, c.b) /\ k.op = "list" /\ k.at = "gate" /\ k.data = None /\ k.cookies = Cookies(c)
    BY DEF Call, IsNew, For, Fields
  <2>2. c.at = "back" /\ calls' \subseteq calls \cup {k}
    BY <1>3 DEF Answered
  <2> HIDE DEF k
  <2>3. Asked(k)
    BY <2>1 DEF Asked, Allowed, SignIns, IsNew
  <2>4. Begun(k)
    BY <1>0, <2>1, <2>2, <2>3 DEF Begun, IsNew, Ops, SignIns, QuestionCalls
  <2>. QED BY <2>2, <2>4
<1>. QED BY <1>1, <1>2, <1>3

LEMMA ServiceSteps ==
  ASSUME TypeInv, NEW c \in calls,
         \/ VerifyGateway(c) \/ Refresh(c) \/ LogoutHandler(c) \/ AdminLogin(c)
         \/ FindAccount(c) \/ CreateAccount(c) \/ Issue(c) \/ ReadAccounts(c)
         \/ ReadPicture(c) \/ UploadPicture(c) \/ RemovePicture(c) \/ WritePicture(c)
         \/ QuestionStep(c)
  PROVE  \E d : Steps(c, d)
<1>1. CallFits(c)
  BY DEF TypeInv
<1>. QED BY <1>1, GatewaySteps, UserServiceSteps, IssueSteps, PictureSteps, QuestionServiceSteps

LEMMA CallsNext ==
  ASSUME TypeInv, [StoreNext]_vars, NEW d \in calls'
  PROVE  \/ d \in calls
         \/ \E c \in calls : LostOf(d, c)
         \/ \E c \in calls : Steps(c, d)
         \/ Begun(d)
<1>1. ASSUME NEW c \in calls, CallStep(c) \/ Arrive(c) \/ Answered(c) \/ QuestionStep(c)
      PROVE  \/ d \in calls \/ (\E e \in calls : LostOf(d, e)) \/ Begun(d)
             \/ \E e \in calls : Steps(e, d)
  <2>1. CASE Redirected(c) \/ ArriveLost(c) \/ NetworkFails(c) \/ Arrive(c) \/ Answered(c)
    BY <2>1, Arriving
  <2>2. CASE ~(Redirected(c) \/ ArriveLost(c) \/ NetworkFails(c) \/ Arrive(c) \/ Answered(c))
    <3>1. PICK e : Steps(c, e)
      BY <1>1, <2>2, ServiceSteps DEF CallStep
    <3>. QED BY <3>1 DEF Steps, Move
  <2>. QED BY <2>1, <2>2
<1>2. ASSUME NEW b \in Browsers, VisitorStep(b) \/ AdminStep(b)
      PROVE  d \in calls \/ (\E c \in calls : LostOf(d, c)) \/ Begun(d)
  BY <1>2, Starting
<1>3. [StoreNext]_vars => \/ UNCHANGED calls
                          \/ \E c \in calls : CallStep(c) \/ Arrive(c) \/ Answered(c) \/ QuestionStep(c)
                          \/ \E b \in Browsers : VisitorStep(b) \/ AdminStep(b)
  BY DEF StoreNext, vars, authVars, Tick, Ask, GetCompletedQuestionIds, GetAvailableQuestions
<1>. QED BY <1>1, <1>2, <1>3

-----------------------------------------------------------------------------
(* Types, and that whoever is named has an account. *)

(* The steps by what they change. *)
StepChanges ==
    /\ \/ UNCHANGED account
       \/ \E c \in calls : CreateAccount(c) \/ WritePicture(c)
    /\ \/ UNCHANGED <<tokens, second>>
       \/ \E c \in calls : Issue(c) \/ (LogoutHandler(c) /\ UNCHANGED second)
    /\ \/ UNCHANGED files
       \/ \E c \in calls : UploadPicture(c) \/ RemovePicture(c)
    /\ acts' = acts \/ acts' = acts + 1
    /\ faults' = faults \/ faults' = faults + 1
    /\ \/ UNCHANGED jar
       \/ \E c \in calls : c.at = "back" /\ SetCookies(c)
    /\ \/ UNCHANGED page
       \/ \E c \in calls : Arrive(c) \/ NetworkFails(c)
       \/ \E b \in Browsers : Reload(b) \/ \E e \in Emails : SignInGithub(b, e)
    /\ astray \subseteq astray'

LEMMA StepsByVariable ==
  ASSUME [StoreNext]_vars
  PROVE  StepChanges
<1>1. ASSUME NEW c \in calls,
             \/ VerifyGateway(c) \/ Refresh(c) \/ LogoutHandler(c) \/ AdminLogin(c)
             \/ FindAccount(c) \/ CreateAccount(c) \/ Issue(c) \/ ReadAccounts(c)
             \/ ReadPicture(c) \/ UploadPicture(c) \/ RemovePicture(c) \/ WritePicture(c)
      PROVE  StepChanges
  BY <1>1 DEF StepChanges, VerifyGateway, Refresh, LogoutHandler, AdminLogin, FindAccount, CreateAccount,
              Issue, ReadAccounts, ReadPicture, UploadPicture, RemovePicture, WritePicture, Fault
<1>2. ASSUME NEW c \in calls, Redirected(c) \/ ArriveLost(c) \/ NetworkFails(c) \/ Arrive(c) \/ Answered(c)
      PROVE  StepChanges
  BY <1>2 DEF StepChanges, Redirected, ArriveLost, NetworkFails, Arrive, Answered, Astray, Fault
<1>3. ASSUME NEW c \in calls, QuestionStep(c) PROVE StepChanges
  BY <1>3 DEF StepChanges, QuestionStep, ListQuestions, Refused, CreateQuestion, UpdateQuestion,
              DeleteQuestion, MarkCompleted, IncrementMatched, Fault
<1>4. ASSUME NEW b \in Browsers, VisitorStep(b) \/ AdminStep(b) PROVE StepChanges
  BY <1>4 DEF StepChanges, VisitorStep, AdminStep, Start, SignInAdmin, SignInGithub, Reload, SignOut,
              ShowProfile, ChangePicture, ListUsers, ListAdmins, CreateAdmin, LoadQuestions, SaveQuestion,
              ConfirmDelete, EndSession
<1>5. CASE Tick \/ GetCompletedQuestionIds \/ GetAvailableQuestions \/ UNCHANGED vars
  BY <1>5 DEF StepChanges, Tick, CacheTop5Matched, GetCompletedQuestionIds, GetAvailableQuestions,
              authVars, vars, Fault
<1>6. ASSUME NEW S, NEW k, Ask(S, k) PROVE StepChanges
  BY <1>6 DEF StepChanges, Ask
<1>7. ASSUME NEW c \in calls, CallStep(c) \/ Arrive(c) PROVE StepChanges
  BY <1>1, <1>2, <1>7 DEF CallStep
<1>8. \/ \E c \in calls : CallStep(c) \/ Arrive(c) \/ Answered(c) \/ QuestionStep(c)
      \/ \E b \in Browsers : VisitorStep(b) \/ AdminStep(b)
      \/ Tick \/ GetCompletedQuestionIds \/ GetAvailableQuestions \/ UNCHANGED vars
      \/ \E S, k : Ask(S, k)
  BY DEF StoreNext
<1>9. CASE \E c \in calls : CallStep(c) \/ Arrive(c) \/ Answered(c) \/ QuestionStep(c)
  BY <1>2, <1>3, <1>7, <1>9
<1>10. CASE \E b \in Browsers : VisitorStep(b) \/ AdminStep(b)
  BY <1>4, <1>10
<1>11. CASE \E S, k : Ask(S, k)
  BY <1>6, <1>11
<1>. QED BY <1>5, <1>8, <1>9, <1>10, <1>11

LEMMA AccountsGrow ==
  ASSUME AcctInv, [StoreNext]_vars
  PROVE  /\ account' \in [Emails -> AccountSet \cup {None}]
         /\ \A e \in Emails : account[e] # None =>
               account'[e] # None /\ account'[e].role = account[e].role
<1>0. account \in [Emails -> AccountSet \cup {None}] /\ None \notin AccountSet
  BY AccountsAssumption DEF AcctInv, TypeInv, AccountSet
<1>1. ASSUME NEW c \in calls, CreateAccount(c), ~UNCHANGED account
      PROVE  /\ account' \in [Emails -> AccountSet \cup {None}]
             /\ \A e \in Emails : account[e] # None => account'[e] = account[e]
  <2> DEFINE a == [role |-> RoleAsked(c), pic |-> 0]
  <2>1. account[c.arg] = None /\ account' = [account EXCEPT ![c.arg] = a]
    BY <1>1 DEF CreateAccount
  <2>2. CallFits(c) /\ c.at = "create"
    BY <1>1 DEF CreateAccount, AcctInv, TypeInv
  <2>3. a \in AccountSet
    BY <2>2, StepNames DEF AccountSet, RoleAsked, Roles, CallFits
  <2> HIDE DEF a
  <2>. QED BY <1>0, <2>1, <2>3
<1>2. ASSUME NEW c \in calls, WritePicture(c), ~UNCHANGED account
      PROVE  /\ account' \in [Emails -> AccountSet \cup {None}]
             /\ \A e \in Emails : account[e] # None =>
                   account'[e] # None /\ account'[e].role = account[e].role
  <2> DEFINE a == [account[c.arg] EXCEPT !.pic = c.id]
  <2>1. account' = [account EXCEPT ![c.arg] = a] /\ c.op = "picture"
    BY <1>2 DEF WritePicture
  <2>2. c.arg \in Emails /\ c.id \in Nat /\ account[c.arg] \in AccountSet
    BY <1>0, <2>1 DEF AcctInv, TypeInv, TrueInv, CallFits, CallTrue
  <2>3. a \in AccountSet /\ a.role = account[c.arg].role
    BY <2>2 DEF AccountSet
  <2> HIDE DEF a
  <2>. QED BY <1>0, <2>1, <2>2, <2>3
<1>3. CASE UNCHANGED account
  BY <1>0, <1>3
<1>. QED BY <1>1, <1>2, <1>3, StepsByVariable DEF StepChanges

(* What is true of a user or its role stays so. *)
LEMMA StaysTrue ==
  ASSUME AcctInv, [StoreNext]_vars, NEW u \in Emails \cup {None}, NEW role
  PROVE  /\ u # None /\ Named(u, role) => account'[u] # None /\ account'[u].role = role
         /\ NamedAtMost(u, role) =>
              /\ u # None => account'[u] # None /\ role \in {None, account'[u].role}
              /\ u = None => role = None
  BY AccountsGrow DEF Named, NamedAtMost

LEMMA CookiesStayTrue ==
  ASSUME AcctInv, [StoreNext]_vars, NEW j \in JarSet, CookiesTrue(j)
  PROVE  /\ j.access # None =>
              account'[j.access.user] # None /\ account'[j.access.user].role = j.access.role
         /\ j.refresh # None =>
              account'[j.refresh.user] # None /\ account'[j.refresh.user].role = j.refresh.role
<1>1. /\ j.access # None => j.access.user \in Emails
      /\ j.refresh # None => j.refresh.user \in Emails
  BY DEF JarSet, AccessSet, TokenSet
<1>2. None \notin Emails
  BY AccountsAssumption
<1>. QED BY <1>1, <1>2, StaysTrue DEF CookiesTrue

LEMMA TokenIs ==
  ASSUME AcctInv, NEW e \in Emails, account[e] # None, NEW n \in Nat
  PROVE  Token(e, n) \in TokenSet /\ Token(e, n).user = e /\ Token(e, n).role = account[e].role
<1>1. account[e] \in AccountSet
  BY DEF AcctInv, TypeInv
<1>. QED BY <1>1 DEF AccountSet, TokenSet, Token

LEMMA TokensNext ==
  ASSUME AcctInv, [StoreNext]_vars
  PROVE  /\ tokens' \subseteq TokenSet /\ second' \in Nat
         /\ \A t \in tokens' : account'[t.user] # None /\ account'[t.user].role = t.role
<1>0. /\ tokens \subseteq TokenSet /\ second \in Nat /\ second + 1 \in Nat
      /\ \A t \in tokens : Named(t.user, t.role)
  BY DEF AcctInv, TypeInv, TrueInv
<1>1. ASSUME NEW t \in tokens PROVE account'[t.user] # None /\ account'[t.user].role = t.role
  <2>1. t.user \in Emails /\ None \notin Emails /\ Named(t.user, t.role)
    BY <1>0, AccountsAssumption DEF TokenSet
  <2>. QED BY <2>1, StaysTrue
<1>2. ASSUME NEW c \in calls, Issue(c)
      PROVE  /\ tokens' \subseteq TokenSet /\ second' \in Nat
             /\ \A t \in tokens' : account'[t.user] # None /\ account'[t.user].role = t.role
  <2>1. c.arg \in Emails /\ account[c.arg] # None
    BY <1>2, StepNames DEF Issue, AcctInv, TypeInv, TrueInv, CallTrue, CallFits
  <2>2. PICK n \in {second, second + 1} :
           /\ second' = n
           /\ tokens' = tokens \/ tokens' = tokens \cup {Token(c.arg, n)}
    BY <1>2 DEF Issue
  <2>3. /\ Token(c.arg, n) \in TokenSet /\ Token(c.arg, n).user = c.arg
        /\ Token(c.arg, n).role = account[c.arg].role
    BY <1>0, <2>1, TokenIs
  <2>4. account' = account
    BY <1>2 DEF Issue
  <2>. QED BY <1>0, <1>1, <2>1, <2>2, <2>3, <2>4
<1>3. ASSUME NEW c \in calls, LogoutHandler(c), UNCHANGED second
      PROVE  tokens' \subseteq tokens /\ second' \in Nat
  BY <1>0, <1>3 DEF LogoutHandler
<1>. QED BY <1>0, <1>1, <1>2, <1>3, StepsByVariable DEF StepChanges

LEMMA CookiesFit ==
  ASSUME AcctInv, NEW c \in calls, c.at = "back"
  PROVE  Cookies(c) \in JarSet /\ CookiesTrue(Cookies(c))
<1>1. CallFits(c) /\ CallTrue(c) /\ jar[c.b] \in JarSet /\ CookiesTrue(jar[c.b])
  BY DEF AcctInv, TypeInv, TrueInv, CallFits
<1>2. CASE c.op = "logout" /\ c.res = "ok"
  <2>1. ~c.fresh /\ c.op \notin SignIns
    BY <1>1, <1>2 DEF CallFits, SignIns
  <2>2. Cookies(c) = NoCookies
    BY <1>2, <2>1 DEF Cookies, SignIns
  <2>. QED BY <2>2 DEF NoCookies, JarSet, CookiesTrue
<1>3. CASE c.op \in SignIns /\ c.res = "ok"
  <2> DEFINE access == [user |-> c.data.user, role |-> c.data.role]
  <2>1. c.data \in TokenSet /\ Named(c.data.user, c.data.role)
    BY <1>1, <1>3 DEF CallFits, CallTrue
  <2>2. access \in AccessSet /\ access.user = c.data.user /\ access.role = c.data.role
    BY <2>1 DEF TokenSet, AccessSet
  <2>3. Cookies(c) = [access |-> access, refresh |-> c.data]
    BY <1>1, <1>3 DEF CallFits, Cookies, SignIns
  <2> HIDE DEF access
  <2>. QED BY <2>1, <2>2, <2>3 DEF JarSet, CookiesTrue
<1>4. CASE c.fresh /\ ~(c.op = "logout" /\ c.res = "ok") /\ ~(c.op \in SignIns /\ c.res = "ok")
  <2> DEFINE access == [user |-> c.cookies.refresh.user, role |-> c.cookies.refresh.role]
  <2>1. c.cookies.refresh \in TokenSet /\ Named(c.cookies.refresh.user, c.cookies.refresh.role)
    BY <1>1, <1>4 DEF CallFits, CallTrue, CookiesTrue, JarSet
  <2>2. /\ access \in AccessSet
        /\ access.user = c.cookies.refresh.user /\ access.role = c.cookies.refresh.role
    BY <2>1 DEF TokenSet, AccessSet
  <2>3. Cookies(c) = [jar[c.b] EXCEPT !.access = access]
    BY <1>4 DEF Cookies, SignIns
  <2> HIDE DEF access
  <2>. QED BY <1>1, <2>1, <2>2, <2>3 DEF JarSet, CookiesTrue
<1>. QED BY <1>1, <1>2, <1>3, <1>4 DEF Cookies, SignIns

LEMMA JarNext ==
  ASSUME AcctInv, [StoreNext]_vars
  PROVE  jar' \in [Browsers -> JarSet] /\ \A b \in Browsers : CookiesTrue(jar[b])'
<1>0. jar \in [Browsers -> JarSet] /\ \A b \in Browsers : CookiesTrue(jar[b])
  BY DEF AcctInv, TypeInv, TrueInv
<1>1. ASSUME NEW j \in JarSet, CookiesTrue(j)
      PROVE  CookiesTrue(j)'
  BY <1>1, CookiesStayTrue DEF CookiesTrue, Named
<1>2. CASE UNCHANGED jar
  BY <1>0, <1>1, <1>2
<1>3. ASSUME NEW c \in calls, c.at = "back", SetCookies(c)
      PROVE  jar' \in [Browsers -> JarSet] /\ \A b \in Browsers : CookiesTrue(jar[b])'
  <2>1. Cookies(c) \in JarSet /\ CookiesTrue(Cookies(c))
    BY <1>3, CookiesFit
  <2>2. jar' \in [Browsers -> JarSet]
    BY <1>0, <1>3, <2>1 DEF SetCookies
  <2>3. ASSUME NEW b \in Browsers PROVE jar'[b] \in JarSet /\ CookiesTrue(jar'[b])
    BY <1>0, <1>3, <2>1 DEF SetCookies
  <2>4. ASSUME NEW b \in Browsers PROVE CookiesTrue(jar[b])'
    <3> DEFINE j == jar'[b]
    <3>1. j \in JarSet /\ CookiesTrue(j)
      BY <2>3
    <3>2. /\ j.access # None =>
               account'[j.access.user] # None /\ account'[j.access.user].role = j.access.role
          /\ j.refresh # None =>
               account'[j.refresh.user] # None /\ account'[j.refresh.user].role = j.refresh.role
      <4> HIDE DEF j
      <4>. QED BY <3>1, CookiesStayTrue
    <3>. QED BY <3>2 DEF CookiesTrue, Named
  <2>. QED BY <2>2, <2>4
<1>. QED BY <1>2, <1>3, StepsByVariable DEF StepChanges

LEMMA TabFits ==
  ASSUME AcctInv, NEW c \in calls, c.at = "back"
  PROVE  TabAfter(c) \in TabSet /\ NamedAtMost(TabAfter(c).user, TabAfter(c).role)
<1>1. /\ CallFits(c) /\ CallTrue(c) /\ page[c.b] \in TabSet
      /\ NamedAtMost(page[c.b].user, page[c.b].role)
  BY DEF AcctInv, TypeInv, TrueInv, CallFits
<1>2. SignedOut \in TabSet /\ NamedAtMost(SignedOut.user, SignedOut.role)
  BY AccountsAssumption DEF SignedOut, Tab, TabSet, NamedAtMost
<1>3. CASE c.op = "verify"
  <2>1. c.user \in Emails \cup {None} /\ c.role \in Roles \cup {None} /\ NamedAtMost(c.user, c.role)
    BY <1>1 DEF CallFits, CallTrue
  <2>2. Tab(c.user, c.role) \in TabSet /\ NamedAtMost(Tab(c.user, c.role).user, Tab(c.user, c.role).role)
    BY <2>1 DEF Tab, TabSet
  <2>3. TabAfter(c) = Tab(c.user, c.role) \/ TabAfter(c) = SignedOut
    BY <1>3 DEF TabAfter
  <2>. QED BY <1>2, <2>2, <2>3
<1>4. CASE c.op = "adminLogin" /\ c.res = "ok"
  <2> DEFINE t == Tab(c.data.user, c.data.role)
  <2>1. c.data # None /\ c.data \in TokenSet /\ Named(c.data.user, c.data.role)
    BY <1>1, <1>4 DEF CallFits, CallTrue, SignIns
  <2>2. c.data.user \in Emails /\ c.data.role \in Roles /\ c.data.user # None
    BY <2>1, AccountsAssumption DEF TokenSet
  <2>3. t \in TabSet /\ NamedAtMost(t.user, t.role)
    BY <2>1, <2>2 DEF Tab, TabSet, Named, NamedAtMost
  <2>4. TabAfter(c) = t
    BY <1>4 DEF TabAfter
  <2>. QED BY <2>3, <2>4
<1>5. CASE c.op = "me"
  <2> DEFINE t == [page[c.b] EXCEPT !.me = c.user]
  <2>1. t \in TabSet /\ t.user = page[c.b].user /\ t.role = page[c.b].role
    BY <1>1 DEF CallFits, TabSet
  <2>2. TabAfter(c) = t \/ TabAfter(c) = page[c.b]
    BY <1>5 DEF TabAfter
  <2>. QED BY <1>1, <2>1, <2>2
<1>6. CASE c.op = "logout"
  BY <1>2, <1>6 DEF TabAfter
<1>. QED BY <1>1, <1>3, <1>4, <1>5, <1>6 DEF TabAfter

LEMMA PageNext ==
  ASSUME AcctInv, [StoreNext]_vars
  PROVE  page' \in [Browsers -> TabSet] /\ \A b \in Browsers : NamedAtMost(page[b].user, page[b].role)'
<1>0. page \in [Browsers -> TabSet] /\ \A b \in Browsers : NamedAtMost(page[b].user, page[b].role)
  BY DEF AcctInv, TypeInv, TrueInv
<1>1. ASSUME NEW b \in Browsers, NEW t \in TabSet, NamedAtMost(t.user, t.role),
             page' = [page EXCEPT ![b] = t]
      PROVE  page' \in [Browsers -> TabSet] /\ \A x \in Browsers : NamedAtMost(page[x].user, page[x].role)'
  <2>1. page' \in [Browsers -> TabSet]
    BY <1>0, <1>1
  <2>2. ASSUME NEW x \in Browsers
        PROVE  NamedAtMost(page[x].user, page[x].role)'
    <3>1. PICK y \in TabSet : page'[x] = y /\ NamedAtMost(y.user, y.role)
      BY <1>0, <1>1
    <3>2. y.user \in Emails \cup {None}
      BY DEF TabSet
    <3>3. /\ y.user # None => account'[y.user] # None /\ y.role \in {None, account'[y.user].role}
          /\ y.user = None => y.role = None
      BY <3>1, <3>2, StaysTrue
    <3>. QED BY <3>1, <3>3 DEF NamedAtMost
  <2>. QED BY <2>1, <2>2
<1>2. CASE UNCHANGED page
  <2>1. ASSUME NEW x \in Browsers
        PROVE  NamedAtMost(page[x].user, page[x].role)'
    <3>1. PICK y \in TabSet : page[x] = y /\ page'[x] = y /\ NamedAtMost(y.user, y.role)
      BY <1>0, <1>2
    <3>2. y.user \in Emails \cup {None}
      BY DEF TabSet
    <3>3. /\ y.user # None => account'[y.user] # None /\ y.role \in {None, account'[y.user].role}
          /\ y.user = None => y.role = None
      BY <3>1, <3>2, StaysTrue
    <3>. QED BY <3>1, <3>3 DEF NamedAtMost
  <2>. QED BY <1>0, <1>2, <2>1
<1>3. /\ SignedOut \in TabSet /\ NamedAtMost(SignedOut.user, SignedOut.role)
      /\ Loading \in TabSet /\ NamedAtMost(Loading.user, Loading.role)
  BY AccountsAssumption DEF SignedOut, Loading, Tab, TabSet, NamedAtMost
<1>4. ASSUME NEW c \in calls, Arrive(c)
      PROVE  page' \in [Browsers -> TabSet] /\ \A x \in Browsers : NamedAtMost(page[x].user, page[x].role)'
  <2>1. c.b \in Browsers /\ c.at = "back" /\ page' = [page EXCEPT ![c.b] = TabAfter(c)]
    BY <1>4 DEF Arrive, AcctInv, TypeInv, CallFits
  <2>2. TabAfter(c) \in TabSet /\ NamedAtMost(TabAfter(c).user, TabAfter(c).role)
    BY <2>1, TabFits
  <2>. QED BY <1>1, <2>1, <2>2
<1>5. ASSUME NEW c \in calls, NetworkFails(c)
      PROVE  page' \in [Browsers -> TabSet] /\ \A x \in Browsers : NamedAtMost(page[x].user, page[x].role)'
  <2>1. c.b \in Browsers /\ page' = [page EXCEPT ![c.b] = SignedOut]
    BY <1>5 DEF NetworkFails, AcctInv, TypeInv, CallFits
  <2>. QED BY <1>1, <1>3, <2>1
<1>6. ASSUME NEW b \in Browsers, Reload(b) \/ \E e \in Emails : SignInGithub(b, e)
      PROVE  page' \in [Browsers -> TabSet] /\ \A x \in Browsers : NamedAtMost(page[x].user, page[x].role)'
  <2>1. page' = [page EXCEPT ![b] = Loading]
    BY <1>6 DEF Reload, SignInGithub
  <2>. QED BY <1>1, <1>3, <2>1
<1>. QED BY <1>2, <1>4, <1>5, <1>6, StepsByVariable DEF StepChanges

(* A call goes on. *)
LEMMA GoneOnFits ==
  ASSUME AcctInv, [StoreNext]_vars, NEW c \in calls, NEW d, Steps(c, d)
  PROVE  CallFits(d) /\ CallTrue(d)'
<1>1. /\ CallFits(c) /\ CallTrue(c) /\ second \in Nat
      /\ DOMAIN d = Fields /\ d.id = c.id /\ d.b = c.b /\ d.op = c.op /\ d.arg = c.arg
      /\ d.cookies = c.cookies
  BY DEF AcctInv, TypeInv, TrueInv, Steps, Keeps
<1>2. /\ CookiesTrue(c.cookies) /\ NamedAtMost(c.user, c.role) /\ c.cookies \in JarSet
      /\ c.op \in Ops /\ c.at \in StepsOf(c.op) /\ c.user \in Emails \cup {None}
      /\ c.role \in Roles \cup {None} /\ c.seen \in Nat
      /\ (c.at = "back") = (c.res # "none") /\ c.fresh \in BOOLEAN /\ c.lost \in BOOLEAN
      /\ c.fresh => c.cookies.refresh # None
  BY <1>1 DEF CallFits, CallTrue
<1>3. /\ c.at = "gate" /\ c.op # "logout" => c.op \notin SignIns \cup {"picture"} /\ "refresh" \in StepsOf(c.op)
      /\ c.at = "refresh" => c.op \notin SignIns \cup {"picture", "logout"}
      /\ c.at \in {"gate", "refresh"} /\ c.op \notin {"verify", "logout"} => "service" \in StepsOf(c.op)
      /\ c.at \notin {"gate", "refresh", "back"} => c.op # "logout"
      /\ "back" \in StepsOf(c.op)
  BY <1>2 DEF StepsOf, Ops, SignIns, QuestionCalls
<1>4. ASSUME d.at \in StepsOf(c.op), (d.at = "back") = (d.res # "none"),
             d.user \in Emails \cup {None}, d.role \in Roles \cup {None}, d.fresh \in BOOLEAN,
             d.lost \in BOOLEAN, d.seen \in Nat,
             d.fresh \/ d.at = "refresh" => c.cookies.refresh # None,
             c.op = "logout" => d.res \in {"none", "ok"},
             c.op \in SignIns =>
                /\ d.data \in TokenSet \cup {None} /\ (d.data # None) = (d.res = "ok"),
             c.op \in SignIns \cup {"logout"} => d.user = None /\ ~d.fresh,
             c.op = "createAdmin" => d.data = c.data
      PROVE  CallFits(d)
  BY <1>1, <1>4 DEF CallFits
<1>5. ASSUME ~Serves(c, d)
      PROVE  c.op \notin SignIns /\ CallFits(d) /\ NamedAtMost(d.user, d.role)
  <2>9. c.at \in {"gate", "refresh"}
    BY <1>5 DEF Steps, Passes, Refreshes, RefreshBreaks, Denied, Expires, SignsOut
  <2>0. c.op \notin SignIns
    BY <1>2, <2>9 DEF StepsOf, SignIns
  <2>1. /\ d.at \in StepsOf(c.op) /\ ((d.at = "back") = (d.res # "none")) /\ d.data = c.data
        /\ d.seen = c.seen /\ d.lost = c.lost
    BY <1>2, <1>3, <1>5 DEF Steps, Passes, Refreshes, RefreshBreaks, Denied, Expires, SignsOut,
                            Arrived, Bears, Stays, For
  <2>2. \/ d.user = c.user /\ d.role = c.role /\ d.fresh = c.fresh
        \/ /\ c.op # "logout" /\ c.cookies.access # None
           /\ d.user = c.cookies.access.user /\ d.role = c.cookies.access.role /\ d.fresh = FALSE
        \/ /\ c.op # "logout" /\ c.cookies.refresh \in tokens /\ d.fresh = TRUE
           /\ \/ d.user = c.cookies.refresh.user /\ d.role = None
              \/ d.user = c.user /\ d.role = c.role
    BY <1>3, <1>5 DEF Steps, Passes, Refreshes, RefreshBreaks, Denied, Expires, SignsOut, Stays, For
  <2>3. tokens \subseteq TokenSet /\ None \notin TokenSet
    BY AccountsAssumption DEF AcctInv, TypeInv, TokenSet
  <2>4. /\ c.cookies.access # None =>
             c.cookies.access.user \in Emails /\ c.cookies.access.role \in Roles
        /\ c.cookies.refresh # None => c.cookies.refresh.user \in Emails
    BY <1>2 DEF JarSet, AccessSet, TokenSet
  <2>5. /\ d.user \in Emails \cup {None} /\ d.role \in Roles \cup {None} /\ d.fresh \in BOOLEAN
        /\ d.fresh => c.cookies.refresh # None
        /\ c.op = "logout" => d.user = c.user /\ d.fresh = c.fresh
    BY <1>2, <2>2, <2>3, <2>4
  <2>6. c.op = "logout" => d.user = None /\ ~d.fresh
    BY <1>1, <2>5 DEF CallFits
  <2>10. d.at = "refresh" => c.cookies.refresh # None
    BY <1>2, <1>5, <2>9 DEF Steps, Passes, Refreshes, RefreshBreaks, Denied, Expires, SignsOut,
                            Arrived, Bears
  <2>11. c.op = "logout" => d.res \in {"none", "ok"}
    BY <1>3, <1>5 DEF Steps, Passes, Refreshes, RefreshBreaks, Denied, Expires, SignsOut, Bears
  <2>7. CallFits(d)
    BY <1>2, <1>4, <2>0, <2>1, <2>5, <2>6, <2>10, <2>11
  <2>8. NamedAtMost(d.user, d.role)
    <3>1. None \notin Emails
      BY AccountsAssumption
    <3>. QED BY <1>2, <2>2, <2>3, <2>4, <3>1 DEF NamedAtMost, Named, CookiesTrue
  <2>. QED BY <2>0, <2>7, <2>8
<1>6. ASSUME Serves(c, d)
      PROVE  /\ CallFits(d) /\ NamedAtMost(d.user, d.role)
             /\ c.op \in SignIns /\ d.at = "issue" => account'[c.arg] # None
             /\ c.op \in SignIns /\ d.data # None =>
                  d.data.user \in Emails /\ d.data.role = account[d.data.user].role
                  /\ account[d.data.user] # None
  <2>1. /\ d.user = c.user /\ d.role = c.role /\ d.fresh = c.fresh /\ d.lost = c.lost
        /\ d.at \in StepsOf(c.op) /\ ((d.at = "back") = (d.res # "none")) /\ c.at # "back"
        /\ c.op \notin SignIns \cup {"list"} => d.data = c.data
    BY <1>6 DEF Serves, Stays, For
  <2>2. ASSUME c.op \in SignIns
        PROVE  /\ c.arg \in Emails /\ c.data = None /\ c.user = None /\ ~c.fresh
               /\ c.at = "issue" => account[c.arg] # None
    BY <1>1, <2>1, <2>2 DEF CallFits, CallTrue
  <2>3. ASSUME c.op \in SignIns, d.res = "ok"
        PROVE  /\ d.data \in TokenSet /\ d.data # None
               /\ d.data.user = c.arg /\ d.data.role = account[c.arg].role /\ c.at = "issue"
    <3>1. PICK n \in Nat : c.at = "issue" /\ d.data = Token(c.arg, n)
      BY <1>6, <2>3 DEF Serves, SignsIn, Issued
    <3>2. /\ d.data \in TokenSet
          /\ d.data.user = c.arg /\ d.data.role = account[c.arg].role
      BY <2>2, <2>3, <3>1, TokenIs
    <3>. QED BY <3>1, <3>2, AccountsAssumption DEF TokenSet
  <2>4. c.op \in SignIns /\ d.res # "ok" => d.data = None
    BY <1>6, <2>2 DEF Serves, SignsIn
  <2>5. /\ c.op = "logout" => c.user = None /\ ~c.fresh
        /\ d.seen \in Nat
    <3>1. c.op # "picture" => d.seen = c.seen
      BY <1>6 DEF Serves
    <3>2. c.op = "picture" => d.seen = c.seen \/ d.seen = account[c.arg].pic
      BY <1>6 DEF Serves, StoresPicture
    <3>3. c.op = "picture" => account[c.arg].pic \in Nat
      BY <1>1 DEF CallFits, CallTrue, AcctInv, TypeInv, AccountSet
    <3>. QED BY <1>1, <1>2, <3>1, <3>2, <3>3 DEF CallFits
  <2>6. CallFits(d)
    <3>1. c.op \in SignIns =>
            /\ d.data \in TokenSet \cup {None} /\ (d.data # None) = (d.res = "ok")
      BY <2>3, <2>4
    <3>2. c.op \in SignIns \cup {"logout"} => d.user = None /\ ~d.fresh
      BY <2>1, <2>2, <2>5
    <3>3. c.op = "createAdmin" => d.data = c.data
      BY <2>1 DEF SignIns
    <3>4. c.op # "logout" /\ d.at # "refresh"
      BY <1>3, <1>6 DEF Serves
    <3>. QED BY <1>2, <1>4, <2>1, <2>5, <3>1, <3>2, <3>3, <3>4
  <2>7. c.op \in SignIns /\ d.at = "issue" => account'[c.arg] # None
    BY <1>6 DEF Serves, SignsIn
  <2>. QED BY <1>2, <2>1, <2>2, <2>3, <2>4, <2>6, <2>7
<1>7. /\ CallFits(d) /\ NamedAtMost(d.user, d.role)
      /\ d.op \in SignIns /\ d.at = "issue" => account'[d.arg] # None
      /\ d.op \in SignIns /\ d.data # None =>
           Named(d.data.user, d.data.role) /\ d.data.user \in Emails
  BY <1>1, <1>5, <1>6 DEF Named
<1>8. d.user \in Emails \cup {None} /\ None \notin Emails
  BY <1>7, AccountsAssumption DEF CallFits
<1>9. CookiesTrue(d.cookies)'
  BY <1>1, <1>2, CookiesStayTrue DEF CookiesTrue, Named
<1>10. NamedAtMost(d.user, d.role)'
  BY <1>7, <1>8, StaysTrue DEF NamedAtMost
<1>11. d.op \in SignIns /\ d.data # None => Named(d.data.user, d.data.role)'
  BY <1>7, <1>8, StaysTrue DEF Named
<1>12. d.op = "picture" => account'[d.arg] # None
  BY <1>1, AccountsGrow DEF CallFits, CallTrue
<1>. QED BY <1>7, <1>9, <1>10, <1>11, <1>12 DEF CallTrue

LEMMA CallsNextFit ==
  ASSUME AcctInv, [StoreNext]_vars, NEW d \in calls'
  PROVE  CallFits(d) /\ CallTrue(d)'
<1>0. TypeInv /\ None \notin Emails
  BY AccountsAssumption DEF AcctInv
<1>1. ASSUME NEW c \in calls, d = c \/ LostOf(d, c)
      PROVE  CallFits(d) /\ CallTrue(d)'
  <2>1. CallFits(c) /\ CallTrue(c)
    BY DEF AcctInv, TypeInv, TrueInv
  <2>2. /\ DOMAIN d = Fields /\ d.id = c.id /\ d.b = c.b /\ d.op = c.op /\ d.arg = c.arg
        /\ d.cookies = c.cookies /\ d.user = c.user /\ d.role = c.role /\ d.fresh = c.fresh
        /\ d.lost \in BOOLEAN /\ d.at = c.at /\ d.res = c.res /\ d.seen = c.seen /\ d.data = c.data
    BY <1>1, <2>1 DEF LostOf, Keeps, For, Bears, CallFits
  <2>3. CallFits(d)
    BY <2>1, <2>2 DEF CallFits
  <2>4. CookiesTrue(d.cookies)'
    BY <2>1, <2>2, CookiesStayTrue DEF CookiesTrue, Named, CallTrue, CallFits
  <2>5. NamedAtMost(d.user, d.role)'
    BY <2>1, <2>2, StaysTrue DEF NamedAtMost, CallTrue, CallFits
  <2>6. d.op \in SignIns /\ d.at = "issue" => account'[d.arg] # None
    BY <2>1, <2>2, AccountsGrow DEF CallTrue, CallFits
  <2>7. d.op \in SignIns /\ d.data # None => Named(d.data.user, d.data.role)'
    <3>1. d.op \in SignIns /\ d.data # None =>
             d.data.user \in Emails /\ Named(d.data.user, d.data.role)
      BY <2>1, <2>2 DEF CallTrue, CallFits, TokenSet
    <3>. QED BY <1>0, <3>1, StaysTrue DEF Named
  <2>8. d.op = "picture" => account'[d.arg] # None
    BY <2>1, <2>2, AccountsGrow DEF CallTrue, CallFits
  <2>. QED BY <2>3, <2>4, <2>5, <2>6, <2>7, <2>8 DEF CallTrue
<1>2. ASSUME Begun(d)
      PROVE  CallFits(d) /\ CallTrue(d)'
  <2>1. /\ DOMAIN d = Fields /\ d.b \in Browsers /\ d.id \in Nat /\ d.op \in Ops
        /\ d.user = None /\ d.role = None /\ ~d.fresh /\ d.fresh \in BOOLEAN /\ d.lost \in BOOLEAN
        /\ d.res = "none" /\ d.seen = 0
        /\ d.op # "createAdmin" => d.data = None
    BY <1>2 DEF Begun, IsNew, For
  <2>2. d.at \in StepsOf(d.op) /\ d.at \in {"gate", "service"}
    BY <1>2, <2>1 DEF Begun, StepsOf, Ops, SignIns, QuestionCalls
  <2>3. d.cookies \in JarSet /\ CookiesTrue(d.cookies)
    BY <1>2, <2>1, CookiesFit DEF Begun, AcctInv, TypeInv, TrueInv
  <2>4. /\ d.op \in SignIns => d.arg \in Emails
        /\ d.op = "createAdmin" => d.arg \in Emails /\ d.data \in {"ADMIN", "SUPER_ADMIN"}
    BY <1>2 DEF Begun, Asked
  <2>5. d.op = "picture" => d.arg \in Emails /\ account[d.arg] # None
    <3>1. d.op = "picture" => d.arg = page[d.b].user /\ page[d.b].user # None
      BY <1>2 DEF Begun, Asked, ShowsPages, SignIns
    <3>. QED BY <2>1, <3>1 DEF AcctInv, TypeInv, TrueInv, TabSet, NamedAtMost
  <2>6. CallFits(d)
    BY <2>1, <2>2, <2>3, <2>4, <2>5 DEF CallFits, SignIns
  <2>7. CookiesTrue(d.cookies)'
    BY <2>3, CookiesStayTrue DEF CookiesTrue, Named
  <2>. QED BY <2>1, <2>2, <2>5, <2>6, <2>7, AccountsGrow DEF CallTrue, NamedAtMost, SignIns
<1>. QED BY <1>0, <1>1, <1>2, CallsNext, GoneOnFits

LEMMA AcctStep ==
  ASSUME AcctInv, [StoreNext]_vars
  PROVE  AcctInv'
<1>1. acts' \in Nat /\ faults' \in Nat
  BY StepsByVariable DEF StepChanges, AcctInv, TypeInv
<1>2. TypeInv'
  BY <1>1, AccountsGrow, TokensNext, JarNext, PageNext, CallsNextFit DEF TypeInv
<1>3. TrueInv'
  BY TokensNext, JarNext, PageNext, CallsNextFit DEF TrueInv, Named
<1>. QED BY <1>2, <1>3 DEF AcctInv

LEMMA AcctInitially == AccountsInit => AcctInv
<1> SUFFICES ASSUME AccountsInit PROVE AcctInv
  OBVIOUS
<1>0. PICK s \in Starts :
        /\ account = [e \in Emails |-> IF FirstRole[e] = None THEN None
                                       ELSE [role |-> FirstRole[e], pic |-> 0]]
        /\ second = 1 /\ calls = {} /\ acts = 0 /\ faults = 0
        /\ jar = [b \in Browsers |-> IF s[b] = None THEN NoCookies
                    ELSE [access  |-> [user |-> s[b], role |-> FirstRole[s[b]]],
                          refresh |-> Token(s[b], 1)]]
        /\ tokens = {jar[b].refresh : b \in {x \in Browsers : s[x] # None}}
        /\ page = [b \in Browsers |-> IF s[b] = None THEN SignedOut ELSE Tab(s[b], FirstRole[s[b]])]
  BY DEF AccountsInit
<1>1. /\ s \in [Browsers -> Emails \cup {None}] /\ FirstRole \in [Emails -> Roles \cup {None}]
      /\ None \notin Emails /\ None \notin Roles /\ None \notin AccountSet
      /\ None \notin TokenSet /\ None \notin AccessSet
      /\ \A b \in Browsers : s[b] # None => FirstRole[s[b]] # None
  BY AccountsAssumption DEF AccountSet, TokenSet, AccessSet
<1>2. /\ account \in [Emails -> AccountSet \cup {None}]
      /\ \A e \in Emails : FirstRole[e] # None => account[e] # None /\ account[e].role = FirstRole[e]
  BY <1>0, <1>1 DEF AccountSet
<1>3. ASSUME NEW b \in Browsers, s[b] # None
      PROVE  /\ jar[b] \in JarSet /\ jar[b].access # None /\ jar[b].refresh # None
             /\ Named(jar[b].access.user, jar[b].access.role)
             /\ Named(jar[b].refresh.user, jar[b].refresh.role)
             /\ page[b] \in TabSet /\ NamedAtMost(page[b].user, page[b].role)
  <2> DEFINE access == [user |-> s[b], role |-> FirstRole[s[b]]]
  <2>1. /\ s[b] \in Emails /\ FirstRole[s[b]] \in Roles /\ account[s[b]] # None
        /\ account[s[b]].role = FirstRole[s[b]]
    BY <1>1, <1>2, <1>3
  <2>2. access \in AccessSet /\ access.user = s[b] /\ access.role = FirstRole[s[b]]
    BY <2>1 DEF AccessSet
  <2>3. /\ Token(s[b], 1) \in TokenSet /\ Token(s[b], 1).user = s[b]
        /\ Token(s[b], 1).role = FirstRole[s[b]]
    BY <2>1 DEF TokenSet, Token
  <2>4. /\ Tab(s[b], FirstRole[s[b]]) \in TabSet /\ Tab(s[b], FirstRole[s[b]]).user = s[b]
        /\ Tab(s[b], FirstRole[s[b]]).role = FirstRole[s[b]]
    BY <2>1 DEF Tab, TabSet
  <2>5. /\ jar[b] = [access |-> access, refresh |-> Token(s[b], 1)]
        /\ page[b] = Tab(s[b], FirstRole[s[b]])
    BY <1>0, <1>3
  <2> HIDE DEF access
  <2>. QED BY <1>1, <2>1, <2>2, <2>3, <2>4, <2>5 DEF JarSet, Named, NamedAtMost
<1>4. ASSUME NEW b \in Browsers, s[b] = None
      PROVE  /\ jar[b] \in JarSet /\ CookiesTrue(jar[b])
             /\ page[b] \in TabSet /\ NamedAtMost(page[b].user, page[b].role)
  <2>1. jar[b] = NoCookies /\ page[b] = SignedOut
    BY <1>0, <1>4
  <2>. QED BY <1>1, <2>1 DEF NoCookies, JarSet, CookiesTrue, SignedOut, Tab, TabSet, NamedAtMost
<1>5. jar \in [Browsers -> JarSet]
  <2>1. \A b \in Browsers : jar[b] \in JarSet
    BY <1>3, <1>4
  <2>. QED BY <1>0, <2>1
<1>6. page \in [Browsers -> TabSet]
  <2>1. \A b \in Browsers : page[b] \in TabSet
    BY <1>3, <1>4
  <2>. QED BY <1>0, <2>1
<1>7. ASSUME NEW t \in tokens PROVE t \in TokenSet /\ Named(t.user, t.role)
  <2>1. PICK b \in Browsers : s[b] # None /\ t = jar[b].refresh
    BY <1>0
  <2>. QED BY <1>3, <2>1 DEF JarSet
<1>8. TypeInv
  BY <1>0, <1>2, <1>5, <1>6, <1>7 DEF TypeInv
<1>9. TrueInv
  BY <1>0, <1>3, <1>4, <1>7 DEF TrueInv, CookiesTrue
<1>. QED BY <1>8, <1>9 DEF AcctInv

(* What is kept of accounts, cookies, pages and calls is well formed, and    *)
(* whomever they name has an account, with that role.                        *)
THEOREM AccountsAreNamed == StoreSpec => []AcctInv
<1>1. StoreInit => AcctInv
  BY AcctInitially DEF StoreInit
<1>. QED BY <1>1, AcctStep, PTL DEF StoreSpec

(* Accounts, once created, keep their role, whatever first sign-ins and     *)
(* creations of administrators meet.                                        *)
THEOREM AccountsStay == StoreSpec => AccountsAreKept
<1>1. AcctInv /\ [StoreNext]_vars =>
        [\A e \in Emails : account[e] # None =>
            account'[e] # None /\ account'[e].role = account[e].role]_authVars
  BY AccountsGrow
<1>. QED BY <1>1, AccountsAreNamed, PTL DEF StoreSpec, AccountsAreKept

-----------------------------------------------------------------------------
(* A browser that is not astray: cookies, calls and page are of one sign-in. *)

Live(b) == {c \in calls : c.b = b /\ ~c.lost}

JarFits(j) ==
    /\ (j.access = None) = (j.refresh = None)
    /\ j.access # None => j.access.user = j.refresh.user

(* A call of its page acts for the user of the cookies, and fits the page.   *)
Follows(c, b) ==
    /\ JarFits(c.cookies) /\ c.cookies.refresh = jar[b].refresh
    /\ c.user # None => c.cookies.refresh # None /\ c.user = c.cookies.refresh.user
    /\ c.op = "verify" /\ c.res = "ok" => c.user # None
    /\ c.op = "verify" /\ c.res \notin {"none", "ok"} => c.cookies.refresh = None
    /\ (c.op \in {"verify", "github"}) = ~page[b].ready
    /\ page[b].ready => (c.op = "adminLogin") = (page[b].user = None)

(* Nothing else is on its way with a sign-in or the session's check.         *)
Alone(b) ==
    \A c \in Live(b), d \in Live(b) :
        \/ c.op \in SignIns \cup {"verify"}
        \/ c.op = "logout" /\ d.op = "logout"
        => d = c

PageFits(b) ==
    page[b].ready =>
        /\ (page[b].user = None) = (jar[b].refresh = None)
        /\ jar[b].refresh # None => jar[b].refresh.user = page[b].user
        /\ page[b].me \in {None, page[b].user}

BrowserFits(b) ==
    /\ JarFits(jar[b]) /\ PageFits(b) /\ Alone(b)
    /\ \A c \in Live(b) : Follows(c, b)
    /\ \A c \in calls : c.b = b /\ c.lost => c.op \notin SignIns \cup {"logout"}

SessInv == \A b \in Browsers \ astray : BrowserFits(b)

(* No other browser has, or is sent, the refresh token of its sign-in, which *)
(* is there until the sign-out is on its way.                                *)
OnlyHolder(b, t) == \A x \in Browsers \ {b} : ~Holds(x, t)
SignsOff(b) == \E c \in calls : c.b = b /\ c.op = "logout"

Separate(b) ==
    /\ jar[b].refresh # None =>
          SignsOff(b) \/ (jar[b].refresh \in tokens /\ OnlyHolder(b, jar[b].refresh))
    /\ \A c \in Live(b) : c.op \in SignIns /\ c.data # None =>
          c.data \in tokens /\ OnlyHolder(b, c.data)

SepInv == \A b \in Browsers \ astray : Separate(b)

(* Only the cookies, the page and the calls of browser x change.             *)
OnlyOf(x) ==
    \A b \in Browsers \ {x} :
        /\ jar'[b] = jar[b] /\ page'[b] = page[b]
        /\ \A d : d.b = b => (d \in calls') = (d \in calls)

(* Of every step it is one of these. *)
LEMMA StepsByBrowser ==
  ASSUME TypeInv, [StoreNext]_vars
  PROVE  \/ \E c \in calls : \E d : Steps(c, d) /\ UNCHANGED <<jar, page>>
         \/ \E c \in calls : \/ Redirected(c) \/ ArriveLost(c) \/ NetworkFails(c) \/ Answered(c)
                             \/ c.op \notin QuestionCalls /\ Arrive(c)
         \/ \E b \in Browsers : VisitorStep(b) \/ AdminStep(b)
         \/ UNCHANGED <<calls, jar, page, tokens, astray>>
<1>1. ASSUME NEW c \in calls, CallStep(c) \/ QuestionStep(c)
      PROVE  \/ \E d : Steps(c, d) /\ UNCHANGED <<jar, page>>
             \/ Redirected(c) \/ ArriveLost(c) \/ NetworkFails(c)
  <2>1. CASE /\ \/ VerifyGateway(c) \/ Refresh(c) \/ LogoutHandler(c) \/ AdminLogin(c)
                \/ FindAccount(c) \/ CreateAccount(c) \/ Issue(c) \/ ReadAccounts(c)
                \/ ReadPicture(c) \/ UploadPicture(c) \/ RemovePicture(c) \/ WritePicture(c)
                \/ QuestionStep(c)
    <3>1. UNCHANGED <<jar, page>>
      BY <2>1 DEF VerifyGateway, Refresh, LogoutHandler, AdminLogin, FindAccount, CreateAccount,
                  Issue, ReadAccounts, ReadPicture, UploadPicture, RemovePicture, WritePicture,
                  QuestionStep, ListQuestions, Refused, CreateQuestion, UpdateQuestion,
                  DeleteQuestion, MarkCompleted, IncrementMatched
    <3>2. \E d : Steps(c, d)
      BY <2>1, ServiceSteps
    <3>. QED BY <3>1, <3>2
  <2>. QED BY <1>1, <2>1 DEF CallStep
<1>2. Tick \/ (\E S, k : Ask(S, k)) \/ GetCompletedQuestionIds \/ GetAvailableQuestions \/ UNCHANGED vars
      => UNCHANGED <<calls, jar, page, tokens, astray>>
  BY DEF Tick, Ask, GetCompletedQuestionIds, GetAvailableQuestions, vars, authVars
<1>. QED BY <1>1, <1>2 DEF StoreNext

LEMMA OthersFit ==
  ASSUME SessInv, astray \subseteq astray', NEW x, OnlyOf(x), NEW b \in Browsers \ astray', b # x
  PROVE  BrowserFits(b)'
<1>1. BrowserFits(b) /\ jar'[b] = jar[b] /\ page'[b] = page[b] /\ Live(b)' = Live(b)
  BY DEF SessInv, OnlyOf, Live
<1>2. JarFits(jar[b])' /\ PageFits(b)' /\ Alone(b)'
  BY <1>1 DEF BrowserFits, JarFits, PageFits, Alone
<1>3. \A c \in Live(b)' : Follows(c, b)'
  BY <1>1 DEF BrowserFits, Follows, JarFits
<1>4. \A c \in calls' : c.b = b /\ c.lost => c.op \notin SignIns \cup {"logout"}
  BY <1>1 DEF BrowserFits, OnlyOf
<1>. QED BY <1>2, <1>3, <1>4 DEF BrowserFits

(* A call goes on. *)
LEMMA GoneOnFollows ==
  ASSUME AcctInv, SessInv, SepInv, astray \subseteq astray',
         NEW c \in calls, NEW d, Steps(c, d), UNCHANGED <<jar, page>>, c.b \notin astray', ~c.lost
  PROVE  Follows(d, c.b)'
<1> DEFINE b == c.b
<1>1. /\ CallFits(c) /\ b \in Browsers /\ c \in Live(b) /\ b \notin astray /\ BrowserFits(b) /\ Separate(b)
  BY DEF AcctInv, TypeInv, CallFits, Live, SessInv, SepInv
<1>2. Follows(c, b) /\ jar'[b] = jar[b] /\ page'[b] = page[b] /\ c.cookies \in JarSet
  BY <1>1 DEF BrowserFits, CallFits
<1>3. d.op = c.op /\ d.cookies = c.cookies
  BY DEF Steps, Keeps
<1>4. c.op = "verify" => ~Serves(c, d)
  BY <1>1 DEF Serves, CallFits, StepsOf
<1>5. d.user # None => c.cookies.refresh # None /\ d.user = c.cookies.refresh.user
  <2>1. \/ d.user = c.user
        \/ c.cookies.access # None /\ d.user = c.cookies.access.user
        \/ c.cookies.refresh \in tokens /\ d.user = c.cookies.refresh.user
    <3>1. Passes(c, d) => c.cookies.access # None /\ d.user = c.cookies.access.user
      BY DEF Passes, For
    <3>2. Refreshes(c, d) => c.cookies.refresh \in tokens /\ d.user = c.cookies.refresh.user
      BY DEF Refreshes, For
    <3>3. RefreshBreaks(c, d) \/ Stays(d, c) => d.user = c.user
      BY DEF RefreshBreaks, Stays, For
    <3>. QED BY <3>1, <3>2, <3>3 DEF Steps, Denied, Expires, SignsOut, Serves
  <2>2. None \notin tokens
    BY AccountsAssumption DEF AcctInv, TypeInv, TokenSet
  <2>. QED BY <1>2, <2>1, <2>2 DEF Follows, JarFits
<1>6. ASSUME c.op = "verify", d.res = "ok" PROVE d.user # None
  <2>1. c.res = "none"
    BY <1>1, <1>4, <1>6 DEF Steps, Passes, Refreshes, RefreshBreaks, Denied, Expires, SignsOut, CallFits
  <2>2. Passes(c, d) \/ Refreshes(c, d)
    BY <1>4, <1>6, <2>1 DEF Steps, RefreshBreaks, Denied, Expires, SignsOut, Bears
  <2>3. d.user \in Emails
    BY <1>2, <2>2, AccountsAssumption DEF Passes, Refreshes, For, JarSet, AccessSet, TokenSet,
                                          AcctInv, TypeInv
  <2>. QED BY <2>3, AccountsAssumption
<1>7. ASSUME c.op = "verify", d.res \notin {"none", "ok"} PROVE c.cookies.refresh = None
  <2>1. c.res = "none"
    BY <1>1, <1>4, <1>7 DEF Steps, Passes, Refreshes, RefreshBreaks, Denied, Expires, SignsOut, CallFits
  <2>2. Denied(c, d)
    BY <1>4, <1>7, <2>1 DEF Steps, Passes, Refreshes, RefreshBreaks, Arrived, Expires, SignsOut, Bears
  <2>3. ASSUME c.cookies.refresh # None PROVE c.cookies.refresh \in tokens
    <3>1. \A e \in calls : e.b = b => e.op # "logout"
      BY <1>1, <1>7 DEF BrowserFits, Alone, Live
    <3>. QED BY <1>1, <1>2, <2>3, <3>1 DEF Separate, SignsOff, Follows
  <2>. QED BY <2>2, <2>3 DEF Denied
<1>. QED BY <1>2, <1>3, <1>5, <1>6, <1>7 DEF Follows, JarFits

LEMMA GoneOnStays ==
  ASSUME AcctInv, SessInv, SepInv, astray \subseteq astray',
         NEW c \in calls, NEW d, Steps(c, d), UNCHANGED <<jar, page>>
  PROVE  SessInv'
<1> DEFINE b == c.b
<1>1. /\ d.b = b /\ d.op = c.op /\ d.lost = c.lost /\ calls' = (calls \ {c}) \cup {d}
  BY DEF Steps, Keeps, Move, Passes, Refreshes, RefreshBreaks, Denied, Expires, SignsOut, Serves,
         Stays, For
<1>2. OnlyOf(b)
  BY <1>1 DEF OnlyOf
<1>3. ASSUME b \in Browsers \ astray' PROVE BrowserFits(b)'
  <2>1. BrowserFits(b)
    BY <1>3 DEF SessInv
  <2>2. \A e \in Live(b)' : (e = d /\ ~c.lost) \/ (e \in Live(b) /\ e # c)
    BY <1>1 DEF Live
  <2>3. \A e \in Live(b) : Follows(e, b) => Follows(e, b)'
    BY DEF Follows, JarFits
  <2>4. ~c.lost => Follows(d, b)' /\ c \in Live(b)
    BY <1>3, GoneOnFollows DEF Live
  <2>5. \A e \in Live(b)' : Follows(e, b)'
    BY <2>1, <2>2, <2>3, <2>4 DEF BrowserFits
  <2>6. Alone(b)'
    BY <1>1, <2>1, <2>2, <2>4 DEF BrowserFits, Alone
  <2>7. \A e \in calls' : e.b = b /\ e.lost => e.op \notin SignIns \cup {"logout"}
    BY <1>1, <2>1 DEF BrowserFits
  <2>. QED BY <2>1, <2>5, <2>6, <2>7 DEF BrowserFits, JarFits, PageFits
<1>. QED BY <1>2, <1>3, OthersFit DEF SessInv

(* A page starts a call. *)
LEMMA StartedFits ==
  ASSUME AcctInv, SessInv, NEW b \in Browsers \ astray', astray \subseteq astray',
         UNCHANGED <<jar, page>>,
         NEW k, calls' = calls \cup {k}, IsNew(k, b), k.cookies = jar[b],
         \/ ShowsPages(b) /\ k.op \notin SignIns \cup {"verify"}
         \/ ShowsLogin(b) /\ ~Waits(b, "adminLogin") /\ k.op = "adminLogin",
         k.op = "logout" => ~Waits(b, "logout")
  PROVE  BrowserFits(b)'
<1>1. BrowserFits(b) /\ jar[b] \in JarSet /\ page[b] \in TabSet
  BY DEF SessInv, AcctInv, TypeInv
<1>2. /\ page[b].ready = TRUE /\ (k.op = "adminLogin") = (page[b].user = None)
      /\ k.op # "github" /\ k.op # "verify"
  BY <1>1 DEF ShowsPages, ShowsLogin, SignIns, TabSet
<1>3. Live(b)' = Live(b) \cup {k}
  BY DEF Live, IsNew, For
<1>4. ASSUME NEW e \in Live(b)
      PROVE  /\ Follows(e, b)'
             /\ e.op \notin SignIns \cup {"verify"} /\ k.op \notin SignIns
  <2>1. Follows(e, b)
    BY <1>1 DEF BrowserFits
  <2>2. e.op \notin {"verify", "github"} /\ (e.op = "adminLogin") = (page[b].user = None)
    BY <1>2, <2>1 DEF Follows
  <2>3. k.op = "adminLogin" => e.op # "adminLogin"
    BY DEF Waits, Live, ShowsPages, SignIns
  <2>4. Follows(e, b)'
    BY <2>1 DEF Follows, JarFits
  <2>. QED BY <1>2, <2>2, <2>3, <2>4 DEF SignIns
<1>5. Follows(k, b)'
  BY <1>1, <1>2 DEF Follows, JarFits, IsNew, For, BrowserFits
<1>6. k.op = "logout" => \A e \in Live(b) : e.op # "logout"
  BY DEF Waits, Live
<1>7. Alone(b)'
  BY <1>1, <1>2, <1>3, <1>4, <1>6 DEF BrowserFits, Alone, SignIns
<1>8. \A e \in calls' : e.b = b /\ e.lost => e.op \notin SignIns \cup {"logout"}
  BY <1>1 DEF BrowserFits, IsNew, For
<1>. QED BY <1>1, <1>3, <1>4, <1>5, <1>7, <1>8 DEF BrowserFits, JarFits, PageFits

(* It is left or loaded again. *)
LEMMA LoadedFits ==
  ASSUME AcctInv, SessInv, NEW b \in Browsers \ astray', astray \subseteq astray',
         UNCHANGED jar, page' = [page EXCEPT ![b] = Loading],
         NEW k, calls' = Unloaded(b) \cup {k}, IsNew(k, b), k.cookies = jar[b],
         k.op \in {"verify", "github"},
         \A op \in SignIns \cup {"logout"} : ~Waits(b, op)
  PROVE  BrowserFits(b)'
<1>1. BrowserFits(b)
  BY DEF SessInv
<1>2. page'[b] = Loading /\ Loading.ready = FALSE
  BY DEF AcctInv, TypeInv, Loading, SignedOut, Tab
<1>3. ASSUME NEW e \in calls', e.b = b, e # k
      PROVE  e.lost = TRUE /\ e.op \notin SignIns \cup {"logout"}
  <2>1. PICK c \in calls : e = IF c.b = b THEN [c EXCEPT !.lost = TRUE] ELSE c
    BY <1>3 DEF Unloaded
  <2>2. DOMAIN c = Fields
    BY DEF AcctInv, TypeInv, CallFits
  <2>3. c.b = b
    BY <1>3, <2>1
  <2>4. e.lost = TRUE /\ e.op = c.op
    BY <2>1, <2>2, <2>3, Given DEF Keeps, For
  <2>5. c.op \notin SignIns \cup {"logout"}
    <3>1. CASE c.lost
      BY <1>1, <2>3, <3>1 DEF BrowserFits
    <3>2. CASE ~c.lost
      BY <2>3, <3>2 DEF Waits
    <3>. QED BY <3>1, <3>2
  <2>. QED BY <2>4, <2>5
<1>4. Live(b)' = {k}
  BY <1>3 DEF Live, IsNew, For
<1>5. Follows(k, b)'
  BY <1>1, <1>2 DEF Follows, JarFits, IsNew, For, BrowserFits
<1>6. Alone(b)'
  BY <1>4 DEF Alone
<1>7. JarFits(jar[b])' /\ PageFits(b)'
  BY <1>1, <1>2 DEF BrowserFits, JarFits, PageFits
<1>8. \A e \in calls' : e.b = b /\ e.lost => e.op \notin SignIns \cup {"logout"}
  BY <1>3 DEF IsNew, For
<1>. QED BY <1>4, <1>5, <1>6, <1>7, <1>8 DEF BrowserFits

LEMMA StartIs ==
  ASSUME TypeInv, NEW b, NEW op, NEW arg, NEW at, Start(b, op, arg, at)
  PROVE  \E k : /\ calls' = calls \cup {k} /\ IsNew(k, b)
                /\ k.op = op /\ k.arg = arg /\ k.at = at /\ k.cookies = jar[b] /\ k.data = None
                /\ k.id = acts + 1
<1> DEFINE k == [Call(acts + 1, b, op, arg) EXCEPT !.at = at]
<1>0. acts + 1 \in Nat
  BY DEF TypeInv
<1>1. /\ IsNew(k, b) /\ k.op = op /\ k.arg = arg /\ k.at = at
      /\ k.data = None /\ k.cookies = jar[b] /\ k.id = acts + 1
  BY <1>0 DEF Call, IsNew, For, Fields
<1>2. calls' = calls \cup {k}
  BY DEF Start
<1>. QED BY <1>1, <1>2

LEMMA PeopleStay ==
  ASSUME AcctInv, SessInv, astray \subseteq astray', NEW b \in Browsers, VisitorStep(b) \/ AdminStep(b)
  PROVE  SessInv'
<1>0. TypeInv /\ acts + 1 \in Nat
  BY DEF AcctInv, TypeInv
<1>1. ASSUME NEW k, calls' = calls \cup {k} \/ calls' = Unloaded(b) \cup {k}, IsNew(k, b),
             UNCHANGED jar, UNCHANGED page \/ page' = [page EXCEPT ![b] = Loading],
             b \notin astray' => BrowserFits(b)'
      PROVE  SessInv'
  <2>1. \A e : e.b # b => (e \in Unloaded(b)) = (e \in calls)
    <3>1. ASSUME NEW c \in calls, c.b = b PROVE [c EXCEPT !.lost = TRUE].b = b
      <4>1. DOMAIN c = Fields
        BY <1>0 DEF TypeInv, CallFits
      <4>. QED BY <3>1, <4>1 DEF Fields
    <3>2. ASSUME NEW e \in Unloaded(b), e.b # b PROVE e \in calls
      <4>1. PICK c \in calls : e = IF c.b = b THEN [c EXCEPT !.lost = TRUE] ELSE c
        BY DEF Unloaded
      <4>2. c.b # b
        BY <3>1, <3>2, <4>1
      <4>. QED BY <4>1, <4>2
    <3>3. ASSUME NEW e \in calls, e.b # b PROVE e \in Unloaded(b)
      <4>1. e = IF e.b = b THEN [e EXCEPT !.lost = TRUE] ELSE e
        BY <3>3
      <4>. QED BY <4>1 DEF Unloaded
    <3>. QED BY <3>2, <3>3
  <2>2. OnlyOf(b)
    BY <1>1, <2>1 DEF OnlyOf, IsNew, AcctInv, TypeInv
  <2>. QED BY <1>1, <2>2, OthersFit DEF SessInv
<1>2. ASSUME NEW op, NEW arg, NEW at, Start(b, op, arg, at), op = "logout" => ~Waits(b, "logout"),
             \/ ShowsPages(b) /\ op \notin SignIns \cup {"verify"}
             \/ ShowsLogin(b) /\ ~Waits(b, "adminLogin") /\ op = "adminLogin"
      PROVE  SessInv'
  <2>1. PICK k : calls' = calls \cup {k} /\ IsNew(k, b) /\ k.op = op /\ k.cookies = jar[b]
    BY <1>0, <1>2, StartIs
  <2>2. UNCHANGED <<jar, page>>
    BY <1>2 DEF Start
  <2>3. b \notin astray' => BrowserFits(b)'
    BY <1>2, <2>1, <2>2, StartedFits
  <2>. QED BY <1>1, <2>1, <2>2, <2>3
<1>3. ASSUME NEW e \in Emails, SignInAdmin(b, e) PROVE SessInv'
  BY <1>2, <1>3 DEF SignInAdmin
<1>4. ASSUME NEW e \in Emails, SignInGithub(b, e) PROVE SessInv'
  <2> DEFINE k == [Call(acts + 1, b, "github", e) EXCEPT !.at = "service"]
  <2>1. IsNew(k, b) /\ k.op = "github" /\ k.cookies = jar[b]
    BY <1>0 DEF Call, IsNew, For, Fields
  <2>2. /\ calls' = Unloaded(b) \cup {k} /\ UNCHANGED jar
        /\ ShowsLogin(b) /\ ~Waits(b, "adminLogin") /\ page' = [page EXCEPT ![b] = Loading]
    BY <1>4 DEF SignInGithub
  <2> HIDE DEF k
  <2>3. ASSUME b \notin astray' PROVE BrowserFits(b)'
    <3>1. BrowserFits(b) /\ page[b].ready = TRUE /\ page[b].user = None
      BY <1>0, <2>2, <2>3 DEF SessInv, ShowsLogin, TypeInv, TabSet
    <3>2. \A c \in Live(b) : c.op = "adminLogin"
      BY <3>1 DEF BrowserFits, Follows
    <3>3. \A op \in SignIns \cup {"logout"} : ~Waits(b, op)
      BY <2>2, <3>2 DEF Waits, Live
    <3>. QED BY <2>1, <2>2, <2>3, <3>3, LoadedFits
  <2>. QED BY <1>1, <2>1, <2>2, <2>3
<1>5. CASE Reload(b)
  <2> DEFINE k == VerifyOf(b, jar[b])
  <2>1. IsNew(k, b) /\ k.op = "verify" /\ k.cookies = jar[b]
    BY DEF VerifyOf, Call, IsNew, For, Fields
  <2>2. /\ calls' = Unloaded(b) \cup {k} /\ UNCHANGED jar /\ page' = [page EXCEPT ![b] = Loading]
        /\ b \notin astray' => \A op \in SignIns \cup {"logout"} : ~Waits(b, op)
    BY <1>5 DEF Reload, SignIns
  <2> HIDE DEF k
  <2>3. b \notin astray' => BrowserFits(b)'
    BY <2>1, <2>2, LoadedFits
  <2>. QED BY <1>1, <2>1, <2>2, <2>3
<1>6. ASSUME NEW e \in Emails, NEW role, CreateAdmin(b, e, role) PROVE SessInv'
  <2> DEFINE k == [Call(acts + 1, b, "createAdmin", e) EXCEPT !.data = role]
  <2>1. IsNew(k, b) /\ k.op = "createAdmin" /\ k.cookies = jar[b]
    BY <1>0 DEF Call, IsNew, For, Fields
  <2>2. calls' = calls \cup {k} /\ UNCHANGED <<jar, page>> /\ ShowsPages(b)
    BY <1>6 DEF CreateAdmin, ShowsAdmins
  <2> HIDE DEF k
  <2>3. b \notin astray' => BrowserFits(b)'
    BY <2>1, <2>2, StartedFits DEF SignIns
  <2>. QED BY <1>1, <2>1, <2>2, <2>3
<1>7. CASE SignOut(b) \/ ShowProfile(b) \/ ChangePicture(b) \/ ListUsers(b) \/ ListAdmins(b)
  BY <1>2, <1>7 DEF SignOut, ShowProfile, ChangePicture, ListUsers, ListAdmins, ShowsAdmin,
                    ShowsAdmins, SignIns
<1>8. CASE VisitorStep(b)
  BY <1>3, <1>4, <1>5, <1>6, <1>7, <1>8 DEF VisitorStep
<1>9. ASSUME NEW q, NEW k, SaveQuestion(b, q, k) PROVE SessInv'
  BY <1>2, <1>9 DEF SaveQuestion, ShowsAdmin, SignIns
<1>10. ASSUME NEW q, NEW peer, ConfirmDelete(b, q) \/ EndSession(b, peer, q) PROVE SessInv'
  BY <1>2, <1>10 DEF ConfirmDelete, EndSession, ShowsAdmin, SignIns
<1>11. LoadQuestions(b) => SessInv'
  BY <1>2 DEF LoadQuestions, SignIns
<1>12. CASE AdminStep(b)
  BY <1>9, <1>10, <1>11, <1>12 DEF AdminStep
<1>. QED BY <1>8, <1>12

(* The cookies after an answer to a call of the page. *)
LEMMA CookiesFollow ==
  ASSUME AcctInv, NEW b \in Browsers, BrowserFits(b), NEW c \in Live(b), c.at = "back"
  PROVE  /\ JarFits(Cookies(c))
         /\ IF c.op \in SignIns /\ c.res = "ok"
            THEN /\ c.data # None /\ Cookies(c).refresh = c.data
                 /\ c.data.user # None
            ELSE Cookies(c).refresh = IF c.op = "logout" THEN None ELSE jar[b].refresh
<1>1. /\ c.b = b /\ CallFits(c) /\ jar[b] \in JarSet /\ JarFits(jar[b]) /\ Follows(c, b)
      /\ None \notin Emails /\ None \notin AccessSet
  BY AccountsAssumption DEF Live, AcctInv, TypeInv, BrowserFits, AccessSet
<1>2. CASE c.op = "logout"
  <2>1. ~c.fresh /\ c.op \notin SignIns /\ c.res = "ok"
    BY <1>1, <1>2 DEF CallFits, SignIns
  <2>2. Cookies(c) = NoCookies
    BY <1>2, <2>1 DEF Cookies, SignIns
  <2>. QED BY <1>2, <2>1, <2>2 DEF NoCookies, JarFits
<1>3. CASE c.op \in SignIns /\ c.res = "ok"
  <2> DEFINE access == [user |-> c.data.user, role |-> c.data.role]
  <2>1. c.data # None /\ c.data \in TokenSet /\ ~c.fresh /\ c.op # "logout"
    BY <1>1, <1>3 DEF CallFits, SignIns
  <2>2. access \in AccessSet /\ access.user = c.data.user /\ c.data.user # None
    BY <1>1, <2>1 DEF TokenSet, AccessSet
  <2>3. Cookies(c) = [access |-> access, refresh |-> c.data]
    BY <1>3, <2>1 DEF Cookies, SignIns
  <2> HIDE DEF access
  <2>. QED BY <1>1, <1>3, <2>1, <2>2, <2>3 DEF JarFits
<1>4. CASE c.op # "logout" /\ ~(c.op \in SignIns /\ c.res = "ok") /\ c.fresh
  <2> DEFINE access == [user |-> c.cookies.refresh.user, role |-> c.cookies.refresh.role]
  <2>1. c.cookies.refresh # None /\ c.cookies.refresh \in TokenSet /\ c.cookies.refresh = jar[b].refresh
    BY <1>1, <1>4 DEF CallFits, Follows, JarSet
  <2>2. access \in AccessSet /\ access.user = c.cookies.refresh.user
    BY <2>1 DEF TokenSet, AccessSet
  <2>3. Cookies(c) = [jar[b] EXCEPT !.access = access]
    BY <1>1, <1>4 DEF Cookies, SignIns
  <2> HIDE DEF access
  <2>4. Cookies(c).access = access /\ Cookies(c).refresh = jar[b].refresh
    BY <1>1, <2>3 DEF JarSet
  <2>. QED BY <1>1, <1>4, <2>1, <2>2, <2>4 DEF JarFits
<1>5. CASE c.op # "logout" /\ ~(c.op \in SignIns /\ c.res = "ok") /\ ~c.fresh
  <2>1. Cookies(c) = jar[b]
    BY <1>1, <1>5 DEF Cookies, SignIns
  <2>. QED BY <1>1, <1>5, <2>1
<1>. QED BY <1>2, <1>3, <1>4, <1>5

(* An answer arrives at the page that asked. *)
LEMMA ArrivedFits ==
  ASSUME AcctInv, SessInv, astray \subseteq astray', NEW c \in calls,
         Answered(c) \/ (c.op \notin QuestionCalls /\ Arrive(c)), c.b \notin astray'
  PROVE  BrowserFits(c.b)'
<1> DEFINE b == c.b
<1>1. /\ CallFits(c) /\ b \in Browsers /\ BrowserFits(b) /\ c \in Live(b) /\ c.at = "back"
      /\ jar[b] \in JarSet /\ page[b] \in TabSet /\ c.res # "none"
  BY DEF AcctInv, TypeInv, CallFits, Live, SessInv, Arrive, Answered
<1>2. Follows(c, b) /\ JarFits(jar[b]) /\ PageFits(b) /\ Alone(b)
  BY <1>1 DEF BrowserFits
<1>3. jar'[b] = Cookies(c) /\ JarFits(Cookies(c))
  BY <1>1, CookiesFollow DEF Arrive, Answered, SetCookies, AcctInv, TypeInv
<1>4. CASE Arrive(c) /\ c.op = "logout"
  <2>1. /\ jar'[b].refresh = None /\ page'[b] = SignedOut
        /\ calls' = Unloaded(b) \ {[c EXCEPT !.lost = TRUE]}
    <3>1. c.op \notin SignIns
      BY <1>4 DEF SignIns
    <3>2. Cookies(c).refresh = None
      BY <1>1, <1>4, <3>1, CookiesFollow
    <3>3. TabAfter(c) = SignedOut
      BY <1>4 DEF TabAfter
    <3>. QED BY <1>1, <1>3, <1>4, <3>2, <3>3 DEF Arrive, Remaining, AcctInv, TypeInv
  <2>2. SignedOut.ready = TRUE /\ SignedOut.user = None /\ SignedOut.me = None
    BY DEF SignedOut, Tab
  <2>3. ASSUME NEW e \in calls', e.b = b
        PROVE  e.lost = TRUE /\ e.op \notin SignIns \cup {"logout"}
    <3>1. PICK k \in calls : e = IF k.b = b THEN [k EXCEPT !.lost = TRUE] ELSE k
      BY <2>1 DEF Unloaded
    <3>2. DOMAIN k = Fields /\ k.b = b
      BY <2>3, <3>1 DEF AcctInv, TypeInv, CallFits
    <3>3. e.lost = TRUE /\ e.op = k.op /\ e = [k EXCEPT !.lost = TRUE]
      BY <3>1, <3>2 DEF Fields
    <3>4. k # c
      BY <2>1, <3>3
    <3>5. CASE k.lost
      BY <1>1, <3>2, <3>3, <3>5 DEF BrowserFits
    <3>6. CASE ~k.lost
      <4>1. k \in Live(b)
        BY <3>2, <3>6 DEF Live
      <4>2. k.op # "logout"
        BY <1>1, <1>2, <1>4, <3>4, <4>1 DEF Alone
      <4>3. k.op \notin SignIns \cup {"verify"}
        BY <1>1, <1>2, <3>4, <4>1 DEF Alone
      <4>. QED BY <3>3, <4>2, <4>3
    <3>. QED BY <3>5, <3>6
  <2>4. Live(b)' = {}
    BY <2>3 DEF Live
  <2>5. JarFits(jar[b])' /\ PageFits(b)' /\ Alone(b)'
    BY <1>3, <2>1, <2>2, <2>4 DEF JarFits, PageFits, Alone
  <2>. QED BY <2>3, <2>4, <2>5 DEF BrowserFits
<1>5. CASE Arrive(c) /\ c.op \in {"verify", "adminLogin"}
  <2>1. /\ calls' = calls \ {c} /\ page'[b] = TabAfter(c) /\ c.op # "logout" /\ c.op # "me"
    BY <1>1, <1>5 DEF Arrive, Remaining, AcctInv, TypeInv
  <2>2. Live(b)' = {}
    BY <1>1, <1>2, <1>5, <2>1 DEF Live, Alone, SignIns
  <2>3. PageFits(b)'
    <3>1. CASE c.op = "verify"
      <4>1. Cookies(c).refresh = jar[b].refresh
        BY <1>1, <3>1, CookiesFollow DEF SignIns
      <4>2. CASE c.res = "ok"
        <5>1. TabAfter(c) = Tab(c.user, c.role)
          BY <3>1, <4>2 DEF TabAfter
        <5>2. TabAfter(c).user = c.user /\ TabAfter(c).me = None
          BY <5>1 DEF Tab
        <5>3. c.user # None /\ jar[b].refresh # None /\ jar[b].refresh.user = c.user
          BY <1>2, <3>1, <4>2 DEF Follows
        <5>. QED BY <1>3, <2>1, <4>1, <5>2, <5>3 DEF PageFits
      <4>3. CASE c.res # "ok"
        <5>1. TabAfter(c) = SignedOut /\ SignedOut.user = None /\ SignedOut.me = None
          BY <3>1, <4>3 DEF TabAfter, SignedOut, Tab
        <5>2. jar[b].refresh = None
          BY <1>1, <1>2, <3>1, <4>3 DEF Follows
        <5>. QED BY <1>3, <2>1, <4>1, <5>1, <5>2 DEF PageFits
      <4>. QED BY <4>2, <4>3
    <3>2. CASE c.op = "adminLogin" /\ c.res = "ok"
      <4>1. c.data # None /\ Cookies(c).refresh = c.data /\ c.data.user # None
        BY <1>1, <3>2, CookiesFollow DEF SignIns
      <4>2. TabAfter(c) = Tab(c.data.user, c.data.role)
        BY <3>2 DEF TabAfter
      <4>3. TabAfter(c).user = c.data.user /\ TabAfter(c).me = None
        BY <4>2 DEF Tab
      <4>. QED BY <1>3, <2>1, <4>1, <4>3 DEF PageFits
    <3>3. CASE c.op = "adminLogin" /\ c.res # "ok"
      <4>1. Cookies(c).refresh = jar[b].refresh
        BY <1>1, <3>3, CookiesFollow
      <4>2. TabAfter(c) = page[b]
        BY <3>3 DEF TabAfter
      <4>. QED BY <1>2, <1>3, <2>1, <4>1, <4>2 DEF PageFits
    <3>. QED BY <1>5, <3>1, <3>2, <3>3
  <2>4. \A e \in calls' : e.b = b /\ e.lost => e.op \notin SignIns \cup {"logout"}
    BY <1>1, <2>1 DEF BrowserFits
  <2>. QED BY <1>3, <2>2, <2>3, <2>4 DEF BrowserFits, JarFits, Alone
<1>6. CASE c.op \notin {"verify", "adminLogin", "logout"}
  <2>1. c.op # "github" /\ c.op \notin SignIns /\ Cookies(c).refresh = jar[b].refresh
    <3>1. c.op # "github"
      BY <1>6 DEF Arrive, Answered, QuestionCalls
    <3>2. c.op \notin SignIns
      BY <1>6, <3>1 DEF SignIns
    <3>. QED BY <1>1, <1>6, <3>1, <3>2, CookiesFollow
  <2>2. page[b].ready = TRUE /\ page[b].user # None
    BY <1>1, <1>2, <1>6, <2>1 DEF Follows, TabSet
  <2>3. /\ page'[b].ready = TRUE /\ page'[b].user = page[b].user
        /\ page'[b].me \in {page[b].me, c.user}
    <3>1. CASE Answered(c)
      BY <2>2, <3>1 DEF Answered
    <3>2. CASE Arrive(c) /\ c.op = "me"
      <4>1. page'[b] = page[b] \/ page'[b] = [page[b] EXCEPT !.me = c.user]
        BY <1>1, <3>2 DEF Arrive, TabAfter, AcctInv, TypeInv
      <4>. QED BY <1>1, <2>2, <4>1 DEF TabSet
    <3>3. CASE Arrive(c) /\ c.op # "me"
      <4>1. page'[b] = page[b]
        BY <1>1, <1>6, <3>3 DEF Arrive, TabAfter, AcctInv, TypeInv
      <4>. QED BY <2>2, <4>1
    <3>. QED BY <3>1, <3>2, <3>3
  <2>4. PageFits(b)'
    BY <1>2, <1>3, <2>1, <2>2, <2>3 DEF PageFits, Follows
  <2>5. \/ calls' = calls \ {c}
        \/ \E k : /\ IsNew(k, b) /\ k.op = "list" /\ k.cookies = Cookies(c)
                  /\ calls' = (calls \ {c}) \cup {k}
    <3>1. CASE Arrive(c)
      BY <1>6, <3>1 DEF Arrive, Remaining
    <3>2. CASE Answered(c)
      <4> DEFINE k == [Call(0, b, "list", None) EXCEPT !.cookies = Cookies(c)]
      <4>1. IsNew(k, b) /\ k.op = "list" /\ k.cookies = Cookies(c)
        BY DEF Call, IsNew, For, Fields
      <4>2. calls' = calls \ {c} \/ calls' = (calls \ {c}) \cup {k}
        BY <3>2 DEF Answered
      <4>. QED BY <4>1, <4>2
    <3>. QED BY <3>1, <3>2
  <2>6. \A e \in Live(b)' :
           \/ e \in Live(b)
           \/ IsNew(e, b) /\ e.op = "list" /\ e.cookies = Cookies(c)
    BY <2>5 DEF Live
  <2>7. \A e \in Live(b)' : Follows(e, b)' /\ e.op \notin SignIns \cup {"verify"}
    <3>1. ASSUME NEW e \in Live(b)
          PROVE  Follows(e, b)' /\ e.op \notin SignIns \cup {"verify"}
      <4>1. Follows(e, b)
        BY <1>1 DEF BrowserFits
      <4>2. e.op \notin SignIns \cup {"verify"}
        BY <2>2, <4>1 DEF Follows, SignIns
      <4>3. Follows(e, b)'
        BY <1>3, <2>1, <2>2, <2>3, <4>1 DEF Follows, JarFits
      <4>. QED BY <4>2, <4>3
    <3>2. ASSUME NEW e, IsNew(e, b), e.op = "list", e.cookies = Cookies(c)
          PROVE  Follows(e, b)' /\ e.op \notin SignIns \cup {"verify"}
      <4>1. e.user = None /\ e.res = "none" /\ JarFits(e.cookies) /\ e.cookies.refresh = jar'[b].refresh
        BY <1>3, <3>2 DEF IsNew, For
      <4>2. Follows(e, b)'
        BY <2>2, <2>3, <3>2, <4>1 DEF Follows, JarFits
      <4>. QED BY <3>2, <4>2 DEF SignIns
    <3>. QED BY <2>6, <3>1, <3>2
  <2>8. Alone(b)'
    BY <1>2, <2>6, <2>7 DEF Alone
  <2>9. \A e \in calls' : e.b = b /\ e.lost => e.op \notin SignIns \cup {"logout"}
    BY <1>1, <2>5 DEF BrowserFits, IsNew, For
  <2>. QED BY <1>3, <2>4, <2>7, <2>8, <2>9 DEF BrowserFits, JarFits
<1>7. Answered(c) => c.op \notin {"verify", "adminLogin", "logout"}
  BY DEF Answered, QuestionCalls
<1>. QED BY <1>4, <1>5, <1>6, <1>7

LEMMA ArrivalsStay ==
  ASSUME AcctInv, SessInv, astray \subseteq astray', NEW c \in calls,
         \/ Redirected(c) \/ ArriveLost(c) \/ NetworkFails(c) \/ Answered(c)
         \/ c.op \notin QuestionCalls /\ Arrive(c)
  PROVE  SessInv'
<1> DEFINE b == c.b
<1>0. /\ CallFits(c) /\ b \in Browsers /\ DOMAIN c = Fields
      /\ jar \in [Browsers -> JarSet] /\ page \in [Browsers -> TabSet]
      /\ \A e \in calls : CallFits(e)
  BY DEF AcctInv, TypeInv, CallFits
<1>1. /\ \A x \in Browsers \ {b} : jar'[x] = jar[x] /\ page'[x] = page[x]
      /\ \/ calls' = calls \ {c} \/ calls' = Unloaded(b) \ {[c EXCEPT !.lost = TRUE]}
         \/ \E k : IsNew(k, b) /\ calls' = (calls \ {c}) \cup {k}
  <2>1. CASE Redirected(c)
    <3> DEFINE k == VerifyOf(b, Cookies(c))
    <3>1. IsNew(k, b)
      BY DEF VerifyOf, Call, IsNew, For, Fields
    <3>2. calls' = (calls \ {c}) \cup {k}
      BY <2>1 DEF Redirected
    <3> HIDE DEF k
    <3>3. \A x \in Browsers \ {b} : jar'[x] = jar[x] /\ page'[x] = page[x]
      BY <1>0, <2>1 DEF Redirected, SetCookies
    <3>. QED BY <3>1, <3>2, <3>3
  <2>2. CASE Answered(c)
    <3> DEFINE k == [Call(0, b, "list", None) EXCEPT !.cookies = Cookies(c)]
    <3>1. IsNew(k, b)
      BY DEF Call, IsNew, For, Fields
    <3>2. calls' = calls \ {c} \/ calls' = (calls \ {c}) \cup {k}
      BY <2>2 DEF Answered
    <3> HIDE DEF k
    <3>3. \A x \in Browsers \ {b} : jar'[x] = jar[x] /\ page'[x] = page[x]
      BY <1>0, <2>2 DEF Answered, SetCookies
    <3>. QED BY <3>1, <3>2, <3>3
  <2>3. CASE ArriveLost(c)
    BY <1>0, <2>3 DEF ArriveLost, SetCookies
  <2>4. CASE NetworkFails(c)
    BY <1>0, <2>4 DEF NetworkFails, Remaining
  <2>5. CASE Arrive(c)
    BY <1>0, <2>5 DEF Arrive, SetCookies, Remaining
  <2>. QED BY <2>1, <2>2, <2>3, <2>4, <2>5
<1>2. OnlyOf(b)
  <2>1. ASSUME NEW e, e.b # b PROVE (e \in Unloaded(b)) = (e \in calls)
    <3>1. ASSUME NEW k \in calls, k.b = b PROVE [k EXCEPT !.lost = TRUE].b = b
      BY <1>0, <3>1 DEF CallFits, Fields
    <3>2. ASSUME e \in Unloaded(b) PROVE e \in calls
      <4>1. PICK k \in calls : e = IF k.b = b THEN [k EXCEPT !.lost = TRUE] ELSE k
        BY <3>2 DEF Unloaded
      <4>2. k.b # b
        BY <2>1, <3>1, <4>1
      <4>. QED BY <4>1, <4>2
    <3>3. ASSUME e \in calls PROVE e \in Unloaded(b)
      <4>1. e = IF e.b = b THEN [e EXCEPT !.lost = TRUE] ELSE e
        BY <2>1
      <4>. QED BY <3>3, <4>1 DEF Unloaded
    <3>. QED BY <3>2, <3>3
  <2>2. [c EXCEPT !.lost = TRUE].b = b
    BY <1>0 DEF Fields
  <2>3. ASSUME NEW e, e.b # b PROVE (e \in calls') = (e \in calls)
    <3>1. CASE calls' = calls \ {c}
      BY <2>3, <3>1
    <3>2. CASE calls' = Unloaded(b) \ {[c EXCEPT !.lost = TRUE]}
      <4> DEFINE k == [c EXCEPT !.lost = TRUE]
      <4>1. e # k
        BY <2>2, <2>3
      <4> HIDE DEF k
      <4>2. calls' = Unloaded(b) \ {k}
        BY <3>2 DEF k
      <4>. QED BY <2>1, <2>3, <4>1, <4>2
    <3>3. CASE \E k : IsNew(k, b) /\ calls' = (calls \ {c}) \cup {k}
      BY <2>3, <3>3 DEF IsNew
    <3>. QED BY <1>1, <3>1, <3>2, <3>3
  <2>. QED BY <1>1, <2>3 DEF OnlyOf
<1>3. ASSUME b \notin astray' PROVE BrowserFits(b)'
  <2>1. BrowserFits(b)
    BY <1>0, <1>3 DEF SessInv
  <2>2. CASE Answered(c) \/ (c.op \notin QuestionCalls /\ Arrive(c))
    BY <1>3, <2>2, ArrivedFits
  <2>3. CASE NetworkFails(c)
    BY <1>3, <2>3 DEF NetworkFails
  <2>4. CASE ArriveLost(c)
    <3>1. c.lost /\ ~c.fresh /\ calls' = calls \ {c} /\ page' = page
      BY <1>3, <2>4 DEF ArriveLost
    <3>2. c.op \notin SignIns \cup {"logout"}
      BY <2>1, <3>1 DEF BrowserFits
    <3>3. Cookies(c) = jar[b]
      BY <3>1, <3>2 DEF Cookies, SignIns
    <3>4. jar'[b] = jar[b]
      BY <1>0, <2>4, <3>3 DEF ArriveLost, SetCookies
    <3>5. Live(b)' = Live(b)
      BY <3>1 DEF Live
    <3>6. \A e \in Live(b)' : Follows(e, b)'
      BY <2>1, <3>1, <3>4, <3>5 DEF BrowserFits, Follows, JarFits
    <3>. QED BY <2>1, <3>1, <3>4, <3>5, <3>6 DEF BrowserFits, Alone, PageFits, JarFits
  <2>5. CASE Redirected(c)
    <3>0. VerifyOf(b, Cookies(c)).op = "verify" /\ VerifyOf(b, Cookies(c)).cookies = Cookies(c)
      BY DEF VerifyOf, Call
    <3>1. PICK k : k = VerifyOf(b, Cookies(c)) /\ IsNew(k, b) /\ k.op = "verify" /\ k.cookies = Cookies(c)
      BY <3>0 DEF VerifyOf, Call, IsNew, For, Fields
    <3>2. /\ calls' = (calls \ {c}) \cup {k} /\ page' = page
          /\ c.op = "github" /\ c.res = "ok" /\ ~c.lost /\ c.at = "back"
      BY <2>5, <3>1 DEF Redirected
    <3>3. c \in Live(b) /\ Follows(c, b) /\ Alone(b)
      BY <2>1, <3>2 DEF Live, BrowserFits
    <3>4. page[b].ready = FALSE
      BY <1>0, <3>2, <3>3 DEF Follows, TabSet
    <3>5. Live(b)' = {k}
      BY <3>1, <3>2, <3>3 DEF Live, Alone, SignIns, IsNew, For
    <3>6. jar'[b] = Cookies(c) /\ JarFits(Cookies(c))
      <4>1. jar'[b] = Cookies(c)
        BY <1>0, <2>5 DEF Redirected, SetCookies
      <4>2. b \in Browsers /\ c.at = "back"
        BY <1>0, <3>2
      <4>3. JarFits(Cookies(c))
        BY <2>1, <3>3, <4>2, CookiesFollow
      <4>. QED BY <4>1, <4>3
    <3>7. Follows(k, b)'
      BY <3>1, <3>2, <3>4, <3>6 DEF Follows, JarFits, IsNew, For
    <3>8. \A e \in calls' : e.b = b /\ e.lost => e.op \notin SignIns \cup {"logout"}
      BY <2>1, <3>1, <3>2 DEF BrowserFits, IsNew, For
    <3>9. Alone(b)'
      BY <3>5 DEF Alone
    <3>10. PageFits(b)' /\ JarFits(jar[b])'
      BY <3>2, <3>4, <3>6 DEF PageFits, JarFits
    <3>11. \A e \in Live(b)' : Follows(e, b)'
      BY <3>5, <3>7
    <3>. QED BY <3>8, <3>9, <3>10, <3>11 DEF BrowserFits
  <2>. QED BY <2>2, <2>3, <2>4, <2>5
<1>. QED BY <1>2, <1>3, OthersFit DEF SessInv

LEMMA SessionsStay ==
  ASSUME AcctInv, SessInv, SepInv, [StoreNext]_vars
  PROVE  SessInv'
<1>0. astray \subseteq astray' /\ TypeInv
  BY StepsByVariable DEF StepChanges, AcctInv
<1>1. CASE UNCHANGED <<calls, jar, page, tokens, astray>>
  <2>1. \A b \in Browsers : BrowserFits(b) => BrowserFits(b)'
    BY <1>1 DEF BrowserFits, Live, Follows, Alone, PageFits, JarFits
  <2>. QED BY <1>1, <2>1 DEF SessInv
<1>2. ASSUME NEW c \in calls, NEW d, Steps(c, d), UNCHANGED <<jar, page>>
      PROVE  SessInv'
  BY <1>0, <1>2, GoneOnStays
<1>. QED BY <1>0, <1>1, <1>2, StepsByBrowser, ArrivalsStay, PeopleStay

(* Only a sign-in brings another refresh token. *)
LEMMA SignedInBy ==
  ASSUME NEW c, CallFits(c), jar[c.b] \in JarSet, Cookies(c).refresh # None,
         Cookies(c).refresh # jar[c.b].refresh
  PROVE  c.op \in SignIns /\ c.res = "ok" /\ c.data = Cookies(c).refresh
<1>1. CASE c.op = "logout" /\ c.res = "ok"
  <2>1. ~c.fresh /\ c.op \notin SignIns
    BY <1>1 DEF CallFits, SignIns
  <2>2. Cookies(c) = NoCookies
    BY <1>1, <2>1 DEF Cookies, SignIns
  <2>. QED BY <2>2 DEF NoCookies
<1>2. CASE c.op \in SignIns /\ c.res = "ok"
  <2> DEFINE access == [user |-> c.data.user, role |-> c.data.role]
  <2>1. ~c.fresh /\ c.op # "logout"
    BY <1>2 DEF CallFits, SignIns
  <2>2. Cookies(c) = [access |-> access, refresh |-> c.data]
    BY <1>2, <2>1 DEF Cookies, SignIns
  <2> HIDE DEF access
  <2>. QED BY <1>2, <2>2
<1>3. CASE ~(c.op = "logout" /\ c.res = "ok") /\ ~(c.op \in SignIns /\ c.res = "ok")
  <2> DEFINE access == [user |-> c.cookies.refresh.user, role |-> c.cookies.refresh.role]
  <2>1. Cookies(c) = jar[c.b] \/ Cookies(c) = [jar[c.b] EXCEPT !.access = access]
    BY <1>3 DEF Cookies, SignIns, CallFits
  <2> HIDE DEF access
  <2>. QED BY <2>1 DEF JarSet
<1>. QED BY <1>1, <1>2, <1>3

(* What a browser comes to hold it held before, or was given just now.       *)
LEMMA HeldBefore ==
  ASSUME AcctInv, [StoreNext]_vars, NEW x \in Browsers, NEW t, t # None,
         \/ jar'[x].refresh = t
         \/ \E d \in calls' : d.b = x /\ (d.cookies.refresh = t \/ (d.op \in SignIns /\ d.data = t))
  PROVE  \/ Holds(x, t)
         \/ \E c \in calls : \E d : Steps(c, d) /\ c.b = x /\ d.data = t /\ Issued(c, d)
<1>0. TypeInv /\ \A c \in calls : CallFits(c)
  BY DEF AcctInv, TypeInv
<1>1. ASSUME NEW c \in calls, c.at = "back", Cookies(c).refresh = t
      PROVE  Holds(c.b, t)
  <2>1. CallFits(c) /\ jar[c.b] \in JarSet
    BY <1>0 DEF TypeInv, CallFits
  <2>. QED BY <1>1, <2>1, SignedInBy DEF Holds
<1>2. CASE jar'[x].refresh = t
  <2>1. CASE UNCHANGED jar
    BY <1>2, <2>1 DEF Holds
  <2>2. ASSUME NEW c \in calls, c.at = "back", SetCookies(c) PROVE Holds(x, t)
    <3>1. CASE c.b = x
      <4>1. jar'[x] = Cookies(c)
        BY <2>2, <3>1 DEF SetCookies, AcctInv, TypeInv
      <4>. QED BY <1>1, <1>2, <2>2, <3>1, <4>1
    <3>2. CASE c.b # x
      <4>1. jar'[x] = jar[x]
        BY <2>2, <3>2 DEF SetCookies, AcctInv, TypeInv
      <4>. QED BY <1>2, <4>1 DEF Holds
    <3>. QED BY <3>1, <3>2
  <2>. QED BY <2>1, <2>2, StepsByVariable DEF StepChanges
<1>3. ASSUME NEW d \in calls', d.b = x, d.cookies.refresh = t \/ (d.op \in SignIns /\ d.data = t)
      PROVE  \/ Holds(x, t)
             \/ \E c \in calls : \E e : Steps(c, e) /\ c.b = x /\ e.data = t /\ Issued(c, e)
  <2>1. CASE d \in calls
    BY <1>3, <2>1 DEF Holds
  <2>2. ASSUME NEW c \in calls, LostOf(d, c) PROVE Holds(x, t)
    BY <1>3, <2>2 DEF LostOf, Keeps, For, Bears, Holds
  <2>3. CASE Begun(d)
    <3>1. d.cookies.refresh = t
      BY <1>3, <2>3 DEF Begun, SignIns
    <3>. QED BY <1>1, <1>3, <2>3, <3>1 DEF Begun, Holds
  <2>4. ASSUME NEW c \in calls, Steps(c, d)
        PROVE  Holds(x, t) \/ (d.data = t /\ Issued(c, d) /\ c.b = x)
    <3>1. c.b = x /\ c.op = d.op /\ c.cookies = d.cookies
      BY <1>3, <2>4 DEF Steps, Keeps
    <3>2. CASE d.cookies.refresh = t
      BY <3>1, <3>2 DEF Holds
    <3>3. CASE d.op \in SignIns /\ d.data = t /\ ~Serves(c, d)
      <4>1. d.data = c.data
        BY <2>4, <3>3 DEF Steps, Passes, Refreshes, RefreshBreaks, Denied, Expires, SignsOut,
                          Arrived, Bears
      <4>. QED BY <3>1, <3>3, <4>1 DEF Holds
    <3>4. CASE d.op \in SignIns /\ d.data = t /\ Serves(c, d)
      <4>1. d.data = c.data \/ Issued(c, d)
        BY <3>1, <3>4 DEF Serves, SignsIn
      <4>. QED BY <3>1, <3>4, <4>1 DEF Holds
    <3>. QED BY <1>3, <3>2, <3>3, <3>4
  <2>. QED BY <1>0, <2>1, <2>2, <2>3, <2>4, CallsNext
<1>. QED BY <1>2, <1>3

(* A token that is no other browser's stays, and stays its own. *)
LEMMA OwnToken ==
  ASSUME AcctInv, SessInv, [StoreNext]_vars, NEW b \in Browsers \ astray',
         NEW t \in tokens, OnlyHolder(b, t)
  PROVE  /\ OnlyHolder(b, t)'
         /\ \/ t \in tokens'
            \/ \E c \in Live(b) : \E d : Steps(c, d) /\ c.op = "logout" /\ c.cookies.refresh = t
<1>0. t # None /\ astray \subseteq astray' /\ TypeInv
  BY StepsByVariable, AccountsAssumption DEF StepChanges, AcctInv, TypeInv, TokenSet
<1>1. ASSUME NEW x \in Browsers \ {b}, Holds(x, t)' PROVE FALSE
  <2>1. \/ jar'[x].refresh = t
        \/ \E d \in calls' : d.b = x /\ (d.cookies.refresh = t \/ (d.op \in SignIns /\ d.data = t))
    BY <1>1 DEF Holds
  <2>2. \/ Holds(x, t)
        \/ \E c \in calls : \E d : Steps(c, d) /\ c.b = x /\ d.data = t /\ Issued(c, d)
    BY <1>0, <2>1, HeldBefore
  <2>. QED BY <2>2 DEF OnlyHolder, Issued
<1>2. OnlyHolder(b, t)'
  BY <1>1 DEF OnlyHolder
<1>3. ASSUME t \notin tokens'
      PROVE  \E c \in Live(b) : \E d : Steps(c, d) /\ c.op = "logout" /\ c.cookies.refresh = t
  <2>1. PICK c \in calls : LogoutHandler(c) /\ c.cookies.refresh = t
    <3>1. \A c \in calls : Issue(c) => tokens \subseteq tokens'
      BY DEF Issue
    <3>2. \A c \in calls : LogoutHandler(c) => tokens' = tokens \ {c.cookies.refresh} \/ tokens' = tokens
      BY DEF LogoutHandler
    <3>. QED BY <1>3, <3>1, <3>2, StepsByVariable DEF StepChanges
  <2>2. c.op = "logout" /\ c.b \in Browsers
    BY <1>0, <2>1 DEF LogoutHandler, TypeInv, CallFits
  <2>3. c.b = b
    BY <2>1, <2>2 DEF OnlyHolder, Holds
  <2>4. ~c.lost
    BY <1>0, <2>2, <2>3 DEF SessInv, BrowserFits
  <2>5. PICK d : Steps(c, d)
    BY <1>0, <2>1, ServiceSteps
  <2>. QED BY <2>1, <2>2, <2>3, <2>4, <2>5 DEF Live
<1>. QED BY <1>2, <1>3

LEMMA SignOffStays ==
  ASSUME AcctInv, SessInv, [StoreNext]_vars, NEW b \in Browsers \ astray', SignsOff(b)
  PROVE  SignsOff(b)' \/ jar'[b].refresh = None
<1>0. TypeInv /\ astray \subseteq astray'
  BY StepsByVariable DEF StepChanges, AcctInv
<1>1. PICK c \in calls : c.b = b /\ c.op = "logout"
  BY DEF SignsOff
<1>2. BrowserFits(b) /\ ~c.lost /\ c \in Live(b)
  BY <1>0, <1>1 DEF SessInv, BrowserFits, Live
<1>3. CASE c \in calls'
  BY <1>1, <1>3 DEF SignsOff
<1>4. CASE c \notin calls'
  <2>1. ASSUME NEW e \in calls, NEW d, Steps(e, d) PROVE SignsOff(b)'
    <3>1. e = c /\ d \in calls' /\ d.b = b /\ d.op = "logout"
      BY <1>1, <1>4, <2>1 DEF Steps, Move, Keeps
    <3>. QED BY <3>1 DEF SignsOff
  <2>2. ASSUME NEW e \in calls, \/ Redirected(e) \/ ArriveLost(e) \/ NetworkFails(e) \/ Answered(e)
                                \/ e.op \notin QuestionCalls /\ Arrive(e)
        PROVE  jar'[b].refresh = None
    <3>1. CASE Redirected(e) \/ ArriveLost(e) \/ Answered(e)
      <4>1. e = c
        BY <1>1, <1>4, <3>1 DEF Redirected, ArriveLost, Answered
      <4>. QED BY <1>1, <1>2, <3>1, <4>1 DEF Redirected, ArriveLost, Answered, QuestionCalls
    <3>2. CASE NetworkFails(e) \/ (Arrive(e) /\ e.op = "logout")
      <4>1. e.b = b
        <5>1. ASSUME e.b # b PROVE c \in calls'
          <6>1. c = IF c.b = e.b THEN [c EXCEPT !.lost = TRUE] ELSE c
            BY <1>1, <5>1
          <6>2. c \in Unloaded(e.b)
            BY <6>1 DEF Unloaded
          <6>3. [e EXCEPT !.lost = TRUE].b = e.b
            BY <1>0 DEF TypeInv, CallFits, Fields
          <6>4. c # [e EXCEPT !.lost = TRUE] /\ c # e
            BY <1>1, <5>1, <6>3
          <6>. QED BY <3>2, <6>2, <6>4 DEF NetworkFails, Arrive, Remaining
        <5>. QED BY <1>4, <5>1
      <4>2. Arrive(e) /\ e.op = "logout"
        BY <3>2, <4>1 DEF NetworkFails
      <4>3. e \in Live(b) /\ e.at = "back" /\ e.op \notin SignIns
        BY <4>1, <4>2 DEF Arrive, Live, SignIns
      <4>4. Cookies(e).refresh = None
        BY <1>2, <4>2, <4>3, CookiesFollow
      <4>5. jar'[b] = Cookies(e)
        BY <4>1, <4>2 DEF Arrive, SetCookies, AcctInv, TypeInv
      <4>. QED BY <4>4, <4>5
    <3>3. CASE Arrive(e) /\ e.op # "logout"
      BY <1>1, <1>4, <3>3 DEF Arrive, Remaining
    <3>. QED BY <2>2, <3>1, <3>2, <3>3
  <2>3. ASSUME NEW x \in Browsers, VisitorStep(x) \/ AdminStep(x) PROVE FALSE
    <3>1. CASE calls \subseteq calls'
      BY <1>4, <3>1
    <3>2. CASE Reload(x) \/ \E e \in Emails : SignInGithub(x, e)
      <4>1. x # b
        <5>1. ~Reload(b)
          BY <1>1, <1>2 DEF Reload, Waits
        <5>2. ~ShowsLogin(b)
          BY <1>1, <1>2 DEF ShowsLogin, BrowserFits, Follows
        <5>. QED BY <3>2, <5>1, <5>2 DEF SignInGithub
      <4>2. c = IF c.b = x THEN [c EXCEPT !.lost = TRUE] ELSE c
        BY <1>1, <4>1
      <4>3. c \in Unloaded(x)
        BY <4>2 DEF Unloaded
      <4>. QED BY <1>4, <3>2, <4>3 DEF Reload, SignInGithub
    <3>3. \/ calls \subseteq calls'
          \/ Reload(x) \/ \E e \in Emails : SignInGithub(x, e)
      BY <2>3 DEF VisitorStep, AdminStep, Start, SignInAdmin, SignOut,
                  ShowProfile, ChangePicture, ListUsers, ListAdmins, CreateAdmin, LoadQuestions,
                  SaveQuestion, ConfirmDelete, EndSession
    <3>. QED BY <3>1, <3>2, <3>3
  <2>. QED BY <1>0, <1>4, <2>1, <2>2, <2>3, StepsByBrowser
<1>. QED BY <1>3, <1>4

LEMMA SeparateStays ==
  ASSUME AcctInv, SessInv, SepInv, [StoreNext]_vars
  PROVE  SepInv'
<1>0. /\ astray \subseteq astray' /\ TypeInv /\ jar \in [Browsers -> JarSet]
      /\ \A c \in calls : CallFits(c)
  BY StepsByVariable DEF StepChanges, AcctInv, TypeInv
<1> SUFFICES ASSUME NEW b \in Browsers \ astray' PROVE Separate(b)'
  BY DEF SepInv
<1>1. BrowserFits(b) /\ Separate(b)
  BY <1>0 DEF SessInv, SepInv
<1>2. ASSUME jar'[b].refresh # None, ~SignsOff(b)'
      PROVE  jar'[b].refresh \in tokens' /\ OnlyHolder(b, jar[b].refresh)'
  <2>1. PICK t : t = jar'[b].refresh
    OBVIOUS
  <2>2. ~SignsOff(b)
    BY <1>2, SignOffStays
  <2>3. t \in tokens /\ OnlyHolder(b, t)
    <3>1. CASE jar'[b].refresh = jar[b].refresh
      BY <1>1, <1>2, <2>1, <2>2, <3>1 DEF Separate
    <3>2. CASE jar'[b].refresh # jar[b].refresh
      <4>1. PICK c \in calls : c.at = "back" /\ SetCookies(c) /\ c.b = b
        BY <1>0, <3>2, StepsByVariable DEF StepChanges, SetCookies
      <4>2. jar'[b] = Cookies(c)
        BY <1>0, <4>1 DEF SetCookies
      <4>4. c.op \in SignIns /\ c.res = "ok" /\ c.data = t
        BY <1>0, <1>2, <2>1, <3>2, <4>1, <4>2, SignedInBy
      <4>5. ~c.lost /\ c.data # None
        BY <1>0, <1>1, <1>2, <2>1, <4>1, <4>4 DEF BrowserFits
      <4>. QED BY <1>1, <4>1, <4>4, <4>5 DEF Separate, Live
    <3>. QED BY <3>1, <3>2
  <2>4. t \in tokens'
    <3>1. \A c \in Live(b) : c.op # "logout"
      BY <2>2 DEF SignsOff, Live
    <3>. QED BY <2>3, <3>1, OwnToken
  <2>5. OnlyHolder(b, t)'
    BY <2>3, OwnToken
  <2>. QED BY <2>1, <2>4, <2>5 DEF OnlyHolder, Holds
<1>3. ASSUME NEW d \in Live(b)', d.op \in SignIns, d.data # None
      PROVE  d.data \in tokens' /\ OnlyHolder(b, d.data)'
  <2>0. PICK t : t = d.data
    OBVIOUS
  <2>1. d \in calls' /\ d.b = b /\ ~d.lost
    BY <1>3 DEF Live
  <2>2. ASSUME d \in calls
        PROVE  t \in tokens /\ t \in tokens' /\ OnlyHolder(b, t)'
    <3>1. d \in Live(b) /\ t \in tokens /\ OnlyHolder(b, t)
      BY <1>1, <1>3, <2>0, <2>1, <2>2 DEF Live, Separate
    <3>2. \A c \in Live(b) : c.op # "logout"
      BY <1>1, <1>3, <3>1 DEF BrowserFits, Alone, SignIns
    <3>. QED BY <3>1, <3>2, OwnToken
  <2>3. ASSUME d \notin calls, NEW c \in calls, Steps(c, d)
        PROVE  t \in tokens' /\ OnlyHolder(b, t)'
    <3>1. c.b = b /\ c.op = d.op /\ calls' = (calls \ {c}) \cup {d}
      BY <2>1, <2>3 DEF Steps, Keeps, Move
    <3>2. Issued(c, d)
      <4>1. c.at \notin {"gate", "refresh"} /\ (c.data # None => c.at = "back")
        BY <1>0, <1>3, <3>1 DEF CallFits, StepsOf, SignIns
      <4>2. Serves(c, d)
        BY <2>3, <4>1 DEF Steps, Passes, Refreshes, RefreshBreaks, Denied, Expires, SignsOut
      <4>3. d.data = c.data \/ Issued(c, d)
        BY <1>3, <3>1, <4>2 DEF Serves, SignsIn
      <4>. QED BY <1>3, <4>1, <4>2, <4>3 DEF Serves
    <3>3. t \in tokens' /\ t \notin tokens /\ OnlyHolder(b, t)
      BY <2>0, <3>1, <3>2 DEF Issued, OnlyHolder
    <3>4. ASSUME NEW x \in Browsers \ {b}, Holds(x, t)' PROVE FALSE
      <4>1. \/ jar'[x].refresh = t
            \/ \E e \in calls' : e.b = x /\ (e.cookies.refresh = t \/ (e.op \in SignIns /\ e.data = t))
        BY <3>4 DEF Holds
      <4>2. PICK e \in calls : \E k : Steps(e, k) /\ e.b = x
        BY <1>3, <2>0, <3>3, <4>1, HeldBefore DEF OnlyHolder
      <4>3. PICK k : Steps(e, k)
        BY <4>2
      <4>4. k.b = x /\ calls' = (calls \ {e}) \cup {k}
        BY <4>2, <4>3 DEF Steps, Keeps, Move
      <4>. QED BY <2>1, <2>3, <3>4, <4>4
    <3>. QED BY <3>3, <3>4 DEF OnlyHolder
  <2>4. t \in tokens' /\ OnlyHolder(b, t)'
    <3>1. (\E c \in calls : LostOf(d, c)) => d.lost
      BY DEF LostOf, For
    <3>2. ~Begun(d)
      BY <1>3 DEF Begun, SignIns
    <3>. QED BY <1>0, <2>1, <2>2, <2>3, <3>1, <3>2, CallsNext
  <2>. QED BY <2>0, <2>4 DEF OnlyHolder, Holds
<1>. QED BY <1>2, <1>3 DEF Separate

LEMMA SessionsInitially == AccountsInit => SessInv /\ SepInv
<1> SUFFICES ASSUME AccountsInit PROVE SessInv /\ SepInv
  OBVIOUS
<1>1. PICK s \in Starts :
        /\ calls = {}
        /\ jar = [b \in Browsers |-> IF s[b] = None THEN NoCookies
                    ELSE [access  |-> [user |-> s[b], role |-> FirstRole[s[b]]],
                          refresh |-> Token(s[b], 1)]]
        /\ tokens = {jar[b].refresh : b \in {x \in Browsers : s[x] # None}}
        /\ page = [b \in Browsers |-> IF s[b] = None THEN SignedOut ELSE Tab(s[b], FirstRole[s[b]])]
  BY DEF AccountsInit
<1>2. /\ s \in [Browsers -> Emails \cup {None}]
      /\ \A a \in Browsers, b \in Browsers : s[a] # None /\ a # b => s[b] # s[a]
      /\ None \notin TokenSet /\ None \notin AccessSet
  BY AccountsAssumption DEF TokenSet, AccessSet
<1>3. ASSUME NEW b \in Browsers, s[b] = None
      PROVE  /\ jar[b].access = None /\ jar[b].refresh = None
             /\ page[b].user = None /\ page[b].me = None
  <2>1. jar[b] = NoCookies /\ page[b] = SignedOut
    BY <1>1, <1>3
  <2>. QED BY <2>1 DEF NoCookies, SignedOut, Tab
<1>4. ASSUME NEW b \in Browsers, s[b] # None
      PROVE  /\ jar[b].access # None /\ jar[b].refresh # None
             /\ jar[b].access.user = s[b] /\ jar[b].refresh.user = s[b]
             /\ page[b].user = s[b] /\ page[b].me = None
             /\ jar[b].refresh \in tokens
  <2>1. jar[b] \in JarSet /\ AcctInv
    BY AcctInitially DEF AcctInv, TypeInv
  <2>2. /\ jar[b] = [access  |-> [user |-> s[b], role |-> FirstRole[s[b]]], refresh |-> Token(s[b], 1)]
        /\ page[b] = Tab(s[b], FirstRole[s[b]])
    BY <1>1, <1>4
  <2>3. /\ jar[b].access = [user |-> s[b], role |-> FirstRole[s[b]]]
        /\ jar[b].refresh = Token(s[b], 1)
    BY <2>2
  <2>4. /\ jar[b].access.user = s[b] /\ jar[b].refresh.user = s[b]
        /\ DOMAIN jar[b].access = {"user", "role"} /\ DOMAIN jar[b].refresh = {"user", "role", "at"}
    BY <2>3 DEF Token
  <2>5. FirstRole[s[b]] \in Roles /\ account[s[b]].role \in Roles /\ s[b] \in Emails
    <3>1. s[b] \in Emails /\ FirstRole[s[b]] # None
      BY <1>2, <1>4, AccountsAssumption
    <3>2. account[s[b]] = [role |-> FirstRole[s[b]], pic |-> 0]
      BY <3>1 DEF AccountsInit
    <3>. QED BY <3>1, <3>2, AccountsAssumption
  <2>6. jar[b].access \in AccessSet /\ jar[b].refresh \in TokenSet
    BY <2>3, <2>5 DEF AccessSet, TokenSet, Token
  <2>7. page[b].user = s[b] /\ page[b].me = None
    BY <2>2 DEF Tab
  <2>8. jar[b].refresh \in tokens
    BY <1>1, <1>4
  <2>. QED BY <1>2, <2>4, <2>6, <2>7, <2>8
<1>5. ASSUME NEW b \in Browsers PROVE BrowserFits(b)
  <2>1. Live(b) = {} /\ calls = {}
    BY <1>1 DEF Live
  <2>2. JarFits(jar[b]) /\ PageFits(b)
    BY <1>2, <1>3, <1>4 DEF JarFits, PageFits
  <2>. QED BY <2>1, <2>2 DEF BrowserFits, Alone
<1>6. ASSUME NEW b \in Browsers PROVE Separate(b)
  <2>1. Live(b) = {}
    BY <1>1 DEF Live
  <2>2. ASSUME jar[b].refresh # None
        PROVE  jar[b].refresh \in tokens /\ OnlyHolder(b, jar[b].refresh)
    <3>1. s[b] # None /\ jar[b].refresh.user = s[b] /\ jar[b].refresh \in tokens
      BY <1>3, <1>4, <2>2
    <3>2. ASSUME NEW x \in Browsers \ {b}, Holds(x, jar[b].refresh) PROVE FALSE
      <4>1. jar[x].refresh = jar[b].refresh
        BY <1>1, <3>2 DEF Holds
      <4>2. s[x] # None /\ jar[x].refresh.user = s[x]
        BY <1>3, <1>4, <2>2, <4>1
      <4>. QED BY <1>2, <3>1, <3>2, <4>1, <4>2
    <3>. QED BY <3>1, <3>2 DEF OnlyHolder
  <2>. QED BY <2>1, <2>2 DEF Separate
<1>. QED BY <1>5, <1>6 DEF SessInv, SepInv

(* Cookies, calls and page of a browser that is not astray are of one sign-in*)
(* whose refresh token nobody else has.                                      *)
THEOREM SessionsFit == StoreSpec => [](SessInv /\ SepInv)
<1>1. StoreInit => SessInv /\ SepInv
  BY SessionsInitially DEF StoreInit
<1>2. AcctInv /\ SessInv /\ SepInv /\ [StoreNext]_vars => SessInv' /\ SepInv'
  BY SessionsStay, SeparateStays
<1>. QED BY <1>1, <1>2, AccountsAreNamed, PTL DEF StoreSpec

(* The page of a browser shows the user its requests act for, for any number *)
(* of browsers and calls and however they cross.                             *)
THEOREM RequestsAreOfThePage == StoreSpec => []BrowserActsForPage
<1>1. AcctInv /\ SessInv => BrowserActsForPage
  <2> SUFFICES ASSUME AcctInv, SessInv, NEW b \in Browsers, page[b].ready, b \notin astray
               PROVE  /\ (page[b].user = None) = (jar[b] = NoCookies)
                      /\ jar[b].refresh # None => jar[b].refresh.user = page[b].user
                      /\ jar[b].access # None => jar[b].access.user = page[b].user
                      /\ page[b].me \in {None, page[b].user}
    BY DEF BrowserActsForPage
  <2>1. JarFits(jar[b]) /\ PageFits(b) /\ jar[b] \in JarSet
    BY DEF SessInv, BrowserFits, AcctInv, TypeInv
  <2>2. (jar[b].refresh = None) = (jar[b] = NoCookies)
    BY <2>1 DEF JarFits, JarSet, NoCookies
  <2>. QED BY <2>1, <2>2 DEF JarFits, PageFits
<1>. QED BY <1>1, AccountsAreNamed, SessionsFit, PTL

(* A sign-in ends by its own sign-out only, for any number of browsers that  *)
(* are signed in as the same user.                                           *)
THEOREM OthersStaySignedIn == StoreSpec => []SignInsAreSeparate
<1>1. SepInv => SignInsAreSeparate
  BY DEF SepInv, Separate, SignsOff, SignInsAreSeparate
<1>. QED BY <1>1, SessionsFit, PTL

-----------------------------------------------------------------------------
(* What a page offers. *)

(* Past the gateway, a call that was not refreshed has the role of its access*)
(* token, and a page asks only what that role may.                           *)
OfferFits(c) ==
    /\ c.op \notin SignIns \cup {"picture"} /\ ~c.fresh /\ c.at \notin {"gate", "refresh", "back"} =>
          c.cookies.access # None /\ c.role = c.cookies.access.role
    /\ c.b \notin astray /\ c.cookies.access # None => Allowed(c.op, c.cookies.access.role)
    /\ c.res = "forbidden" => c.fresh \/ c.b \in astray

OfferInv == \A c \in calls : OfferFits(c)

LEMMA OffersStay ==
  ASSUME AcctInv, SessInv, OfferInv, [StoreNext]_vars
  PROVE  OfferInv'
<1>0. /\ astray \subseteq astray' /\ TypeInv /\ \A c \in calls : CallFits(c) /\ OfferFits(c)
  BY StepsByVariable DEF StepChanges, AcctInv, TypeInv, OfferInv
<1> SUFFICES ASSUME NEW d \in calls' PROVE OfferFits(d)'
  BY DEF OfferInv
<1>1. CASE d \in calls
  BY <1>0, <1>1 DEF OfferFits
<1>2. ASSUME NEW c \in calls, LostOf(d, c) PROVE OfferFits(d)'
  BY <1>0, <1>2 DEF LostOf, Keeps, For, Bears, OfferFits
<1>3. CASE Begun(d)
  <2>1. /\ d.b \in Browsers /\ d.op \in Ops /\ d.res = "none"
        /\ d.at = IF d.op \in SignIns \cup {"picture"} THEN "service" ELSE "gate"
    BY <1>3 DEF Begun, IsNew
  <2>2. ASSUME d.b \notin astray', d.cookies.access # None
        PROVE  Allowed(d.op, d.cookies.access.role)
    <3>1. CASE d.op \in SignIns \cup {"verify", "list"}
      BY <3>1 DEF Allowed, SignIns
    <3>2. CASE d.op \notin SignIns \cup {"verify", "list"}
      <4>1. d.cookies = jar[d.b] /\ ShowsPages(d.b) /\ Allowed(d.op, page[d.b].role)
        BY <1>3, <3>2 DEF Begun, Asked
      <4>2. /\ PageFits(d.b) /\ JarFits(jar[d.b]) /\ jar[d.b] \in JarSet /\ CookiesTrue(jar[d.b])
            /\ page[d.b] \in TabSet /\ NamedAtMost(page[d.b].user, page[d.b].role)
        BY <1>0, <2>1, <2>2 DEF SessInv, BrowserFits, AcctInv, TypeInv, TrueInv
      <4>3. page[d.b].ready = TRUE /\ page[d.b].user # None
        BY <4>1, <4>2 DEF ShowsPages, TabSet
      <4>4. jar[d.b].access.user = page[d.b].user
        BY <2>2, <4>1, <4>2, <4>3 DEF PageFits, JarFits
      <4>5. page[d.b].role \in {None, jar[d.b].access.role}
        BY <2>2, <4>1, <4>2, <4>3, <4>4 DEF CookiesTrue, Named, NamedAtMost
      <4>6. None \notin Roles
        BY AccountsAssumption
      <4>. QED BY <4>1, <4>5, <4>6 DEF Allowed, Roles
    <3>. QED BY <3>1, <3>2
  <2>. QED BY <2>1, <2>2 DEF OfferFits
<1>4. ASSUME NEW c \in calls, Steps(c, d) PROVE OfferFits(d)'
  <2>1. /\ CallFits(c) /\ OfferFits(c)
        /\ d.op = c.op /\ d.b = c.b /\ d.cookies = c.cookies
        /\ (c.at = "back") = (c.res # "none")
    BY <1>0, <1>4 DEF Steps, Keeps, CallFits
  <2>2. CASE Passes(c, d)
    BY <1>0, <2>1, <2>2 DEF Passes, Arrived, Bears, For, OfferFits
  <2>3. CASE Refreshes(c, d) \/ RefreshBreaks(c, d)
    BY <1>0, <2>1, <2>3 DEF Refreshes, RefreshBreaks, Arrived, Bears, For, OfferFits
  <2>4. CASE Denied(c, d) \/ Expires(c, d) \/ SignsOut(c, d)
    BY <1>0, <2>1, <2>4 DEF Denied, Expires, SignsOut, Bears, Stays, For, OfferFits
  <2>5. CASE Serves(c, d)
    <3>1. /\ c.at \notin {"gate", "refresh", "back"} /\ d.role = c.role /\ d.fresh = c.fresh
          /\ d.res = "forbidden" => ~Allowed(c.op, c.role)
      BY <2>5 DEF Serves, Stays, For
    <3>2. c.op \in SignIns \cup {"picture"} => Allowed(c.op, c.role)
      BY DEF Allowed, SignIns
    <3>. QED BY <1>0, <2>1, <3>1, <3>2 DEF OfferFits
  <2>. QED BY <1>4, <2>2, <2>3, <2>4, <2>5 DEF Steps
<1>. QED BY <1>0, <1>1, <1>2, <1>3, <1>4, CallsNext

(* What a page offers is not refused, whoever uses how many browsers, except *)
(* when the access token was refreshed on the way.                           *)
THEOREM OffersAreServed == StoreSpec => []NoOfferIsRefused
<1>1. StoreInit => OfferInv
  BY DEF StoreInit, AccountsInit, OfferInv
<1>2. AcctInv /\ SessInv /\ OfferInv /\ [StoreNext]_vars => OfferInv'
  BY OffersStay
<1>3. OfferInv => NoOfferIsRefused
  BY DEF OfferInv, OfferFits, NoOfferIsRefused
<1>. QED BY <1>1, <1>2, <1>3, AccountsAreNamed, SessionsFit, PTL DEF StoreSpec

-----------------------------------------------------------------------------
(* Pictures. *)

Pics == {c \in calls : c.op = "picture"}

PicsBounded ==
    /\ \A c \in Pics : 0 < c.id /\ c.id <= acts /\ c.seen <= acts
    /\ \A c \in Pics, d \in Pics : c.id = d.id => c = d
    /\ \A e \in Emails : account[e] # None => account[e].pic <= acts

(* The name of an upload is nobody's before it is written. *)
Unwritten ==
    \A c \in Pics : c.at # "back" =>
        /\ \A d \in Pics : d.seen # c.id
        /\ \A e \in Emails : account[e] # None => account[e].pic # c.id

(* What it will remove is nobody else's. *)
OwnSeen ==
    /\ \A e \in Emails, f \in Emails :
          account[e] # None /\ account[f] # None /\ account[e].pic = account[f].pic =>
              account[e].pic = 0 \/ e = f
    /\ \A c \in Pics, e \in Emails :
          c.at \in {"upload", "remove"} /\ c.seen # 0 /\ account[e] # None /\ account[e].pic = c.seen =>
              e = c.arg

Uploaded == \A c \in Pics : c.at \in {"remove", "write"} => c.id \in files

PicInv == PicsBounded /\ Unwritten /\ OwnSeen /\ Uploaded /\ PictureIsStored

(* Steps that do not serve an upload: the page of x may be gone, what has    *)
(* been answered may be dropped, something new may be asked.                 *)
PicturesKept ==
    \E x, K, G :
        /\ \/ calls' = (calls \ G) \cup K
           \/ calls' = (Unloaded(x) \ G) \cup K
        /\ \A g \in G : g.op = "picture" => g.at = "back"
        /\ \A k \in K : k.op = "picture" =>
              /\ K = {k} /\ k.at = "service" /\ k.seen = 0
              /\ k.id = acts + 1 /\ acts' = acts + 1

LEMMA PeopleStart ==
  ASSUME TypeInv, NEW b \in Browsers, VisitorStep(b) \/ AdminStep(b)
  PROVE  PicturesKept /\ UNCHANGED <<account, files>>
<1>0. acts + 1 \in Nat
  BY DEF TypeInv
<1>1. ASSUME NEW k, calls' = calls \cup {k} \/ calls' = Unloaded(b) \cup {k},
             k.op = "picture" => /\ k.at = "service" /\ k.seen = 0
                                 /\ k.id = acts + 1 /\ acts' = acts + 1
      PROVE  PicturesKept
  <2> DEFINE K == {k}
             G == {}
  <2>1. /\ calls' = (calls \ G) \cup K \/ calls' = (Unloaded(b) \ G) \cup K
        /\ \A g \in G : g.op = "picture" => g.at = "back"
        /\ \A l \in K : l.op = "picture" => /\ K = {l} /\ l.at = "service" /\ l.seen = 0
                                            /\ l.id = acts + 1 /\ acts' = acts + 1
    BY <1>1
  <2> HIDE DEF K, G
  <2>. QED BY <2>1 DEF PicturesKept
<1>2. ASSUME NEW op, NEW arg, NEW at, Start(b, op, arg, at), op = "picture" => at = "service"
      PROVE  PicturesKept /\ UNCHANGED <<account, files>>
  <2>1. PICK k : calls' = calls \cup {k} /\ IsNew(k, b) /\ k.op = op /\ k.at = at /\ k.id = acts + 1
    BY <1>2, StartIs
  <2>2. acts' = acts + 1 /\ UNCHANGED <<account, files>>
    BY <1>2 DEF Start
  <2>. QED BY <1>1, <1>2, <2>1, <2>2 DEF IsNew
<1>3. ASSUME NEW e, SignInAdmin(b, e) PROVE PicturesKept /\ UNCHANGED <<account, files>>
  BY <1>2, <1>3 DEF SignInAdmin
<1>4. ASSUME NEW e, SignInGithub(b, e) PROVE PicturesKept /\ UNCHANGED <<account, files>>
  <2>1. PICK k : k = [Call(acts + 1, b, "github", e) EXCEPT !.at = "service"]
    OBVIOUS
  <2>2. k.op = "github"
    BY <2>1 DEF Call
  <2>. QED BY <1>1, <1>4, <2>1, <2>2 DEF SignInGithub
<1>5. CASE Reload(b)
  <2>1. PICK k : k = VerifyOf(b, jar[b])
    OBVIOUS
  <2>2. k.op = "verify"
    BY <2>1 DEF VerifyOf, Call
  <2>. QED BY <1>1, <1>5, <2>1, <2>2 DEF Reload
<1>6. ASSUME NEW e, NEW role, CreateAdmin(b, e, role) PROVE PicturesKept /\ UNCHANGED <<account, files>>
  <2>1. PICK k : k = [Call(acts + 1, b, "createAdmin", e) EXCEPT !.data = role]
    OBVIOUS
  <2>2. k.op = "createAdmin"
    BY <2>1 DEF Call
  <2>. QED BY <1>1, <1>6, <2>1, <2>2 DEF CreateAdmin
<1>7. CASE SignOut(b) \/ ShowProfile(b) \/ ChangePicture(b) \/ ListUsers(b) \/ ListAdmins(b)
  BY <1>2, <1>7 DEF SignOut, ShowProfile, ChangePicture, ListUsers, ListAdmins
<1>8. CASE VisitorStep(b)
  BY <1>3, <1>4, <1>5, <1>6, <1>7, <1>8 DEF VisitorStep
<1>9. ASSUME NEW q, NEW k, SaveQuestion(b, q, k) PROVE PicturesKept /\ UNCHANGED <<account, files>>
  BY <1>2, <1>9 DEF SaveQuestion
<1>10. ASSUME NEW q, NEW peer, ConfirmDelete(b, q) \/ EndSession(b, peer, q)
       PROVE  PicturesKept /\ UNCHANGED <<account, files>>
  BY <1>2, <1>10 DEF ConfirmDelete, EndSession
<1>11. LoadQuestions(b) => PicturesKept /\ UNCHANGED <<account, files>>
  BY <1>2 DEF LoadQuestions
<1>12. CASE AdminStep(b)
  BY <1>9, <1>10, <1>11, <1>12 DEF AdminStep
<1>. QED BY <1>8, <1>12

LEMMA ArrivalKeeps ==
  ASSUME TypeInv, NEW c \in calls,
         Redirected(c) \/ ArriveLost(c) \/ NetworkFails(c) \/ Answered(c) \/ Arrive(c)
  PROVE  PicturesKept /\ UNCHANGED <<account, files>>
<1>1. UNCHANGED <<account, files>>
  BY DEF Redirected, ArriveLost, NetworkFails, Answered, Arrive, storeVars
<1>2. ASSUME NEW K, NEW G,
             calls' = (calls \ G) \cup K \/ calls' = (Unloaded(c.b) \ G) \cup K,
             \A g \in G : g.op = "picture" => g.at = "back", \A k \in K : k.op # "picture"
      PROVE  PicturesKept
  BY <1>2 DEF PicturesKept
<1>3. CASE Redirected(c)
  <2>1. PICK k : k = VerifyOf(c.b, Cookies(c))
    OBVIOUS
  <2>2. k.op = "verify" /\ calls' = (calls \ {c}) \cup {k} /\ c.at = "back"
    BY <1>3, <2>1 DEF Redirected, VerifyOf, Call
  <2>3. PICK K, G : K = {k} /\ G = {c}
    OBVIOUS
  <2>4. /\ calls' = (calls \ G) \cup K /\ \A l \in K : l.op # "picture"
        /\ \A g \in G : g.op = "picture" => g.at = "back"
    BY <2>2, <2>3
  <2>. QED BY <1>1, <1>2, <2>4
<1>4. CASE Answered(c)
  <2>1. PICK k : k = [Call(0, c.b, "list", None) EXCEPT !.cookies = Cookies(c)]
    OBVIOUS
  <2>2. k.op = "list"
    BY <2>1 DEF Call
  <2>3. c.at = "back" /\ (calls' = (calls \ {c}) \cup {} \/ calls' = (calls \ {c}) \cup {k})
    BY <1>4, <2>1 DEF Answered
  <2>4. PICK K \in {{}, {k}} : calls' = (calls \ {c}) \cup K
    BY <2>3
  <2>5. PICK G : G = {c}
    OBVIOUS
  <2>6. /\ calls' = (calls \ G) \cup K /\ \A l \in K : l.op # "picture"
        /\ \A g \in G : g.op = "picture" => g.at = "back"
    BY <2>2, <2>3, <2>4, <2>5
  <2>. QED BY <1>1, <1>2, <2>6
<1>5. CASE ArriveLost(c) \/ ((NetworkFails(c) \/ Arrive(c)) /\ c.op # "logout")
  <2>1. calls' = (calls \ {c}) \cup {} /\ (c.op = "picture" => c.at = "back")
    BY <1>5 DEF ArriveLost, NetworkFails, Arrive, Remaining
  <2>2. PICK K, G : K = {} /\ G = {c}
    OBVIOUS
  <2>3. /\ calls' = (calls \ G) \cup K /\ \A l \in K : l.op # "picture"
        /\ \A k \in G : k.op = "picture" => k.at = "back"
    BY <2>1, <2>2
  <2>. QED BY <1>1, <1>2, <2>3
<1>6. CASE (NetworkFails(c) \/ Arrive(c)) /\ c.op = "logout"
  <2>1. PICK g : g = [c EXCEPT !.lost = TRUE]
    OBVIOUS
  <2>2. g.op = "logout"
    BY <1>6, <2>1 DEF TypeInv, CallFits, Fields
  <2>3. calls' = (Unloaded(c.b) \ {g}) \cup {}
    BY <1>6, <2>1 DEF NetworkFails, Arrive, Remaining
  <2>4. PICK K, G : K = {} /\ G = {g}
    OBVIOUS
  <2>5. /\ calls' = (Unloaded(c.b) \ G) \cup K /\ \A l \in K : l.op # "picture"
        /\ \A k \in G : k.op = "picture" => k.at = "back"
    BY <2>2, <2>3, <2>4
  <2>. QED BY <1>1, <1>2, <2>5
<1>. QED BY <1>3, <1>4, <1>5, <1>6

LEMMA StepsByPicture ==
  ASSUME TypeInv, [StoreNext]_vars
  PROVE  \/ \E c \in Pics : \E d : Steps(c, d)
         \/ /\ UNCHANGED files
            /\ UNCHANGED account \/ \E c \in calls : CreateAccount(c)
            /\ \/ \E c \in calls : \E d : Steps(c, d) /\ c.op # "picture"
               \/ PicturesKept
<1>1. ASSUME NEW c \in calls, CallStep(c) \/ QuestionStep(c)
      PROVE  \/ \E d : Steps(c, d) /\ (\/ c.op = "picture"
                                       \/ /\ UNCHANGED files
                                          /\ UNCHANGED account \/ CreateAccount(c))
             \/ Redirected(c) \/ ArriveLost(c) \/ NetworkFails(c)
  <2>1. CASE \/ VerifyGateway(c) \/ Refresh(c) \/ LogoutHandler(c) \/ AdminLogin(c)
             \/ FindAccount(c) \/ CreateAccount(c) \/ Issue(c) \/ ReadAccounts(c)
             \/ ReadPicture(c) \/ UploadPicture(c) \/ RemovePicture(c) \/ WritePicture(c)
             \/ QuestionStep(c)
    <3>1. \/ c.op = "picture"
          \/ UNCHANGED files /\ (UNCHANGED account \/ CreateAccount(c))
      BY <2>1 DEF VerifyGateway, Refresh, LogoutHandler, AdminLogin, FindAccount, CreateAccount,
                  Issue, ReadAccounts, ReadPicture, UploadPicture, RemovePicture, WritePicture,
                  QuestionStep, ListQuestions, Refused, CreateQuestion, UpdateQuestion,
                  DeleteQuestion, MarkCompleted, IncrementMatched
    <3>2. \E d : Steps(c, d)
      BY <2>1, ServiceSteps
    <3>. QED BY <3>1, <3>2
  <2>. QED BY <1>1, <2>1 DEF CallStep
<1>2. CASE Tick \/ (\E S, k : Ask(S, k)) \/ GetCompletedQuestionIds \/ GetAvailableQuestions \/ UNCHANGED vars
  <2>1. UNCHANGED <<calls, account, files>>
    BY <1>2 DEF Tick, Ask, GetCompletedQuestionIds, GetAvailableQuestions, vars, authVars
  <2>2. PICK K, G : K = {} /\ G = {}
    OBVIOUS
  <2>3. /\ calls' = (calls \ G) \cup K
        /\ \A g \in G : g.op = "picture" => g.at = "back"
        /\ \A k \in K : k.op # "picture"
    BY <2>1, <2>2
  <2>. QED BY <2>1, <2>3 DEF PicturesKept
<1>3. ASSUME NEW c \in calls, Redirected(c) \/ ArriveLost(c) \/ NetworkFails(c) \/ Answered(c) \/ Arrive(c)
      PROVE  PicturesKept /\ UNCHANGED <<account, files>>
  BY <1>3, ArrivalKeeps
<1>4. ASSUME NEW b \in Browsers, VisitorStep(b) \/ AdminStep(b)
      PROVE  PicturesKept /\ UNCHANGED <<account, files>>
  BY <1>4, PeopleStart
<1>5. \/ \E c \in calls : CallStep(c) \/ QuestionStep(c) \/ Answered(c) \/ Arrive(c)
      \/ \E b \in Browsers : VisitorStep(b) \/ AdminStep(b)
      \/ Tick \/ (\E S, k : Ask(S, k)) \/ GetCompletedQuestionIds \/ GetAvailableQuestions \/ UNCHANGED vars
  BY DEF StoreNext
<1>. QED BY <1>1, <1>2, <1>3, <1>4, <1>5 DEF Pics

SamePicture(e, c) == e.op = c.op /\ e.id = c.id /\ e.arg = c.arg /\ e.at = c.at /\ e.seen = c.seen
NewPicture(e) == e.id = acts + 1 /\ acts' = acts + 1 /\ e.at = "service" /\ e.seen = 0

LEMMA LostPicture ==
  ASSUME TypeInv, NEW x, NEW e \in Unloaded(x)
  PROVE  \E c \in calls : SamePicture(e, c) /\ e = IF c.b = x THEN [c EXCEPT !.lost = TRUE] ELSE c
<1>1. PICK c \in calls : e = IF c.b = x THEN [c EXCEPT !.lost = TRUE] ELSE c
  BY DEF Unloaded
<1>2. DOMAIN c = Fields
  BY DEF TypeInv, CallFits
<1>3. SamePicture(e, c)
  BY <1>1, <1>2 DEF SamePicture, Fields
<1>. QED BY <1>1, <1>3

LEMMA PicsAfter ==
  ASSUME TypeInv, PicsBounded, PicturesKept
  PROVE  /\ \A e \in Pics' : (\E c \in Pics : SamePicture(e, c)) \/ NewPicture(e)
         /\ \A e \in Pics', f \in Pics' : e.id = f.id => e = f
         /\ \A c \in Pics : c.at # "back" => \E e \in Pics' : SamePicture(e, c)
<1>0. acts \in Nat /\ \A c \in calls : c.id \in Nat
  BY DEF TypeInv, CallFits
<1>1. PICK x, K, G :
        /\ \/ calls' = (calls \ G) \cup K
           \/ calls' = (Unloaded(x) \ G) \cup K
        /\ \A g \in G : g.op = "picture" => g.at = "back"
        /\ \A k \in K : k.op = "picture" => /\ K = {k} /\ k.at = "service" /\ k.seen = 0
                                            /\ k.id = acts + 1 /\ acts' = acts + 1
  BY DEF PicturesKept
<1>2. CASE calls' = (calls \ G) \cup K
  <2>1. \A e \in Pics' : e \in Pics \/ (e \in K /\ NewPicture(e) /\ K = {e})
    BY <1>1, <1>2 DEF Pics, NewPicture
  <2>2. \A e \in Pics', f \in Pics' : e.id = f.id => e = f
    BY <1>0, <2>1 DEF PicsBounded, NewPicture, Pics
  <2>3. \A c \in Pics : c.at # "back" => c \in Pics'
    BY <1>1, <1>2 DEF Pics
  <2>4. \A c : SamePicture(c, c)
    BY DEF SamePicture
  <2>. QED BY <2>1, <2>2, <2>3, <2>4
<1>3. CASE calls' = (Unloaded(x) \ G) \cup K
  <2>1. ASSUME NEW e \in Pics'
        PROVE  \/ \E c \in Pics : /\ SamePicture(e, c)
                                  /\ e = IF c.b = x THEN [c EXCEPT !.lost = TRUE] ELSE c
               \/ NewPicture(e) /\ K = {e}
    <3>1. CASE e \in K
      BY <1>1, <2>1, <3>1 DEF Pics, NewPicture
    <3>2. CASE e \in Unloaded(x)
      BY <2>1, <3>2, LostPicture DEF Pics, SamePicture
    <3>. QED BY <1>3, <2>1, <3>1, <3>2 DEF Pics
  <2>2. ASSUME NEW e \in Pics', NEW f \in Pics', e.id = f.id PROVE e = f
    <3>1. CASE NewPicture(e) /\ K = {e}
      <4>1. ~\E c \in Pics : SamePicture(f, c)
        BY <1>0, <2>2, <3>1 DEF NewPicture, PicsBounded, SamePicture, Pics
      <4>. QED BY <2>1, <3>1, <4>1
    <3>2. CASE NewPicture(f) /\ K = {f}
      <4>1. ~\E c \in Pics : SamePicture(e, c)
        BY <1>0, <2>2, <3>2 DEF NewPicture, PicsBounded, SamePicture, Pics
      <4>. QED BY <2>1, <3>2, <4>1
    <3>3. CASE ~(NewPicture(e) /\ K = {e}) /\ ~(NewPicture(f) /\ K = {f})
      <4>1. PICK c \in Pics : SamePicture(e, c) /\ e = IF c.b = x THEN [c EXCEPT !.lost = TRUE] ELSE c
        BY <2>1, <3>3
      <4>2. PICK d \in Pics : SamePicture(f, d) /\ f = IF d.b = x THEN [d EXCEPT !.lost = TRUE] ELSE d
        BY <2>1, <3>3
      <4>3. c = d
        BY <2>2, <4>1, <4>2 DEF SamePicture, PicsBounded
      <4>. QED BY <4>1, <4>2, <4>3
    <3>. QED BY <3>1, <3>2, <3>3
  <2>3. ASSUME NEW c \in Pics, c.at # "back" PROVE \E e \in Pics' : SamePicture(e, c)
    <3>1. PICK e : e = IF c.b = x THEN [c EXCEPT !.lost = TRUE] ELSE c
      OBVIOUS
    <3>2. e \in Unloaded(x) /\ DOMAIN c = Fields
      BY <3>1 DEF Unloaded, Pics, TypeInv, CallFits
    <3>3. SamePicture(e, c)
      BY <3>1, <3>2 DEF SamePicture, Fields
    <3>4. e \notin G
      BY <1>1, <2>3, <3>3 DEF SamePicture, Pics
    <3>. QED BY <1>3, <3>2, <3>3, <3>4 DEF Pics, SamePicture
  <2>. QED BY <2>1, <2>2, <2>3
<1>. QED BY <1>1, <1>2, <1>3

LEMMA AccountsPictured ==
  ASSUME AcctInv, NEW e \in Emails, account[e] # None
  PROVE  account[e].pic \in Nat
  BY DEF AcctInv, TypeInv, AccountSet

(* Pictures when nothing is uploaded. *)
LEMMA PicturesElsewhere ==
  ASSUME AcctInv, PicInv, [StoreNext]_vars, UNCHANGED files,
         UNCHANGED account \/ \E c \in calls : CreateAccount(c),
         \A e \in Pics' : (\E c \in Pics : SamePicture(e, c)) \/ NewPicture(e),
         \A e \in Pics', f \in Pics' : e.id = f.id => e = f,
         \A c \in Pics : c.at # "back" => \E e \in Pics' : SamePicture(e, c)
  PROVE  PicInv'
<1>0. /\ acts \in Nat /\ faults \in Nat
      /\ acts' = acts \/ acts' = acts + 1
      /\ faults' = faults \/ faults' = faults + 1
      /\ \A c \in Pics : c.id \in Nat /\ c.seen \in Nat
      /\ \A e \in Emails : account[e] # None => account[e].pic \in Nat
  BY StepsByVariable, AccountsPictured DEF StepChanges, AcctInv, TypeInv, CallFits, Pics
<1>1. ASSUME NEW e \in Emails, account'[e] # None
      PROVE  account'[e].pic = 0 \/ (account[e] # None /\ account'[e].pic = account[e].pic)
  <2>1. CASE UNCHANGED account
    BY <1>1, <2>1
  <2>2. ASSUME NEW c \in calls, CreateAccount(c), ~UNCHANGED account
        PROVE  account'[e].pic = 0 \/ (account[e] # None /\ account'[e].pic = account[e].pic)
    <3> DEFINE a == [role |-> RoleAsked(c), pic |-> 0]
    <3>1. account' = [account EXCEPT ![c.arg] = a] /\ a.pic = 0
      BY <2>2 DEF CreateAccount
    <3> HIDE DEF a
    <3>. QED BY <1>1, <3>1 DEF AcctInv, TypeInv
  <2>. QED BY <2>1, <2>2
<1>2. /\ PicsBounded /\ Unwritten /\ OwnSeen /\ Uploaded /\ PictureIsStored
  BY DEF PicInv
<1>3. PicsBounded'
  <2>1. \A e \in Pics' : 0 < e.id /\ e.id <= acts' /\ e.seen <= acts'
    BY <1>0, <1>2 DEF PicsBounded, SamePicture, NewPicture
  <2>2. \A e \in Emails : account'[e] # None => account'[e].pic <= acts'
    BY <1>0, <1>1, <1>2 DEF PicsBounded
  <2>. QED BY <2>1, <2>2 DEF PicsBounded
<1>4. Unwritten'
  <2>1. ASSUME NEW c \in Pics', c.at # "back", NEW d \in Pics', d.seen = c.id PROVE FALSE
    BY <1>0, <1>2, <2>1 DEF Unwritten, PicsBounded, SamePicture, NewPicture
  <2>2. ASSUME NEW c \in Pics', c.at # "back", NEW e \in Emails, account'[e] # None, account'[e].pic = c.id
        PROVE  FALSE
    BY <1>0, <1>1, <1>2, <2>2 DEF Unwritten, PicsBounded, SamePicture, NewPicture
  <2>. QED BY <2>1, <2>2 DEF Unwritten
<1>5. OwnSeen'
  <2>1. \A e \in Emails, f \in Emails :
          account'[e] # None /\ account'[f] # None /\ account'[e].pic = account'[f].pic =>
              account'[e].pic = 0 \/ e = f
    BY <1>1, <1>2 DEF OwnSeen
  <2>2. ASSUME NEW c \in Pics', NEW e \in Emails, c.at \in {"upload", "remove"}, c.seen # 0,
               account'[e] # None, account'[e].pic = c.seen
        PROVE  e = c.arg
    <3>1. PICK k \in Pics : SamePicture(c, k)
      BY <2>2 DEF NewPicture
    <3>. QED BY <1>1, <1>2, <2>2, <3>1 DEF OwnSeen, SamePicture
  <2>. QED BY <2>1, <2>2 DEF OwnSeen
<1>6. Uploaded'
  BY <1>2 DEF Uploaded, SamePicture, NewPicture
<1>7. PictureIsStored'
  <2>1. CASE faults > 0
    BY <1>0, <2>1 DEF PictureIsStored
  <2>2. ASSUME faults = 0, NEW e \in Emails, account'[e] # None, account'[e].pic # 0
        PROVE  \/ account'[e].pic \in files'
               \/ \E d \in calls' : d.op = "picture" /\ d.at = "write" /\ d.arg = e
    <3>1. account[e] # None /\ account'[e].pic = account[e].pic
      BY <1>1, <2>2
    <3>2. CASE account[e].pic \in files
      BY <3>1, <3>2
    <3>3. CASE account[e].pic \notin files
      <4>1. PICK c \in Pics : c.at = "write" /\ c.arg = e
        BY <1>2, <2>2, <3>1, <3>3 DEF PictureIsStored, Pics
      <4>2. PICK d \in Pics' : SamePicture(d, c)
        BY <4>1
      <4>. QED BY <4>1, <4>2 DEF SamePicture, Pics
    <3>. QED BY <3>2, <3>3
  <2>. QED BY <1>0, <2>1, <2>2 DEF PictureIsStored
<1>. QED BY <1>3, <1>4, <1>5, <1>6, <1>7 DEF PicInv

(* A statement of an upload. *)
LEMMA UploadStep ==
  ASSUME AcctInv, PicInv, [StoreNext]_vars, NEW c \in Pics, NEW d, Steps(c, d)
  PROVE  PicInv'
<1>0. /\ acts \in Nat /\ faults \in Nat
      /\ acts' = acts \/ acts' = acts + 1
      /\ faults' = faults \/ faults' = faults + 1
      /\ \A k \in Pics : k.id \in Nat /\ k.seen \in Nat
      /\ \A e \in Emails : account[e] # None => account[e].pic \in Nat
      /\ c \in calls /\ CallFits(c) /\ c.op = "picture" /\ c.arg \in Emails /\ account[c.arg] # None
  BY StepsByVariable, AccountsPictured DEF StepChanges, AcctInv, TypeInv, TrueInv, CallTrue, CallFits, Pics
<1>1. PicsBounded /\ Unwritten /\ OwnSeen /\ Uploaded /\ PictureIsStored
  BY DEF PicInv
<1>2. d.id = c.id /\ d.arg = c.arg /\ d.op = "picture" /\ Pics' = (Pics \ {c}) \cup {d}
  BY <1>0 DEF Steps, Keeps, Move, Pics
<1>3. StoresPicture(c, d) /\ c.at # "back"
  <2>1. c.at \notin {"gate", "refresh"}
    BY <1>0 DEF CallFits, StepsOf
  <2>2. Serves(c, d)
    BY <2>1 DEF Steps, Passes, Refreshes, RefreshBreaks, Denied, Expires, SignsOut
  <2>. QED BY <2>2 DEF Serves
<1> DEFINE Reads  == c.at = "service" /\ d.at = "upload" /\ d.seen = account[c.arg].pic
                     /\ UNCHANGED <<account, files>>
           Puts   == c.at = "upload" /\ d.at = "remove" /\ d.seen = c.seen
                     /\ files' = files \cup {c.id} /\ UNCHANGED account
           Clears == c.at = "remove" /\ d.at = "write" /\ d.seen = c.seen
                     /\ (files' = files \ {c.seen} \/ files' = files) /\ UNCHANGED account
           Writes == c.at = "write" /\ d.at = "back" /\ d.seen = c.seen
                     /\ account' = [account EXCEPT ![c.arg].pic = c.id] /\ UNCHANGED files
           Fails  == d.at = "back" /\ d.seen = c.seen /\ faults' = faults + 1
                     /\ UNCHANGED <<account, files>>
<1>4. Reads \/ Puts \/ Clears \/ Writes \/ Fails
  BY <1>0, <1>3 DEF StoresPicture
<1>5. d.seen = c.seen \/ (Reads /\ d.seen = account[c.arg].pic)
  BY <1>4
<1>6. ASSUME NEW e \in Emails, account'[e] # None
      PROVE  /\ account[e] # None
             /\ account'[e].pic = account[e].pic \/ (Writes /\ e = c.arg /\ account'[e].pic = c.id)
  <2>1. CASE Writes
    <3> DEFINE a == [account[c.arg] EXCEPT !.pic = c.id]
    <3>1. account' = [account EXCEPT ![c.arg] = a]
      BY <2>1
    <3>2. a.pic = c.id
      BY <1>0 DEF AcctInv, TypeInv, AccountSet
    <3> HIDE DEF a
    <3>3. account'[e] = IF e = c.arg THEN a ELSE account[e]
      BY <3>1 DEF AcctInv, TypeInv
    <3>. QED BY <1>0, <1>6, <2>1, <3>2, <3>3
  <2>2. CASE ~Writes
    BY <1>4, <1>6, <2>2
  <2>. QED BY <2>1, <2>2
<1>7. Writes => \A e \in Emails \ {c.arg} : account'[e] = account[e]
  BY DEF AcctInv, TypeInv
<1> HIDE DEF Reads, Puts, Clears, Writes, Fails
<1>8. PicsBounded'
  <2>1. \A e \in Pics' : 0 < e.id /\ e.id <= acts' /\ e.seen <= acts'
    BY <1>0, <1>1, <1>2, <1>5 DEF PicsBounded
  <2>2. \A e \in Pics', f \in Pics' : e.id = f.id => e = f
    BY <1>1, <1>2 DEF PicsBounded
  <2>3. \A e \in Emails : account'[e] # None => account'[e].pic <= acts'
    BY <1>0, <1>1, <1>6 DEF PicsBounded
  <2>. QED BY <2>1, <2>2, <2>3 DEF PicsBounded
<1>9. Unwritten'
  <2>1. ASSUME NEW k \in Pics', k.at # "back", NEW f \in Pics', f.seen = k.id PROVE FALSE
    <3>1. PICK g \in Pics : g.id = k.id /\ g.at # "back"
      BY <1>2, <1>3, <2>1
    <3>2. f \in Pics \/ f.seen = c.seen \/ f.seen = account[c.arg].pic
      BY <1>2, <1>5
    <3>. QED BY <1>0, <1>1, <2>1, <3>1, <3>2 DEF Unwritten
  <2>2. ASSUME NEW k \in Pics', k.at # "back", NEW e \in Emails, account'[e] # None, account'[e].pic = k.id
        PROVE  FALSE
    <3>1. PICK g \in Pics : g.id = k.id /\ g.at # "back" /\ (g = k \/ (g = c /\ k = d))
      BY <1>2, <1>3, <2>2
    <3>2. CASE account'[e].pic = account[e].pic
      BY <1>1, <1>6, <2>2, <3>1, <3>2 DEF Unwritten
    <3>3. CASE Writes /\ account'[e].pic = c.id
      <4>1. g = c
        BY <1>1, <2>2, <3>1, <3>3 DEF PicsBounded
      <4>2. k = d
        BY <1>2, <3>1, <4>1
      <4>. QED BY <2>2, <3>3, <4>2 DEF Writes
    <3>. QED BY <1>6, <2>2, <3>2, <3>3
  <2>. QED BY <2>1, <2>2 DEF Unwritten
<1>10. OwnSeen'
  <2>1. ASSUME NEW e \in Emails, NEW f \in Emails, account'[e] # None, account'[f] # None,
               account'[e].pic = account'[f].pic, account'[e].pic # 0
        PROVE  e = f
    BY <1>1, <1>3, <1>6, <2>1 DEF OwnSeen, Unwritten
  <2>2. ASSUME NEW k \in Pics', NEW e \in Emails, k.at \in {"upload", "remove"}, k.seen # 0,
               account'[e] # None, account'[e].pic = k.seen
        PROVE  e = k.arg
    <3>1. account[e] # None /\ account'[e].pic = account[e].pic
      <4>1. ASSUME Writes, account'[e].pic = c.id PROVE FALSE
        <5>1. k \in Pics /\ k.seen = c.id
          BY <1>2, <2>2, <4>1 DEF Writes
        <5>. QED BY <1>1, <1>3, <5>1 DEF Unwritten
      <4>. QED BY <1>6, <2>2, <4>1
    <3>2. CASE k \in Pics
      BY <1>1, <2>2, <3>1, <3>2 DEF OwnSeen
    <3>3. CASE k = d /\ Reads
      BY <1>0, <1>1, <1>2, <2>2, <3>1, <3>3 DEF OwnSeen, Reads
    <3>4. CASE k = d /\ ~Reads
      <4>1. c.at = "upload" /\ d.seen = c.seen
        BY <1>4, <2>2, <3>4 DEF Puts, Clears, Writes, Fails
      <4>. QED BY <1>1, <1>2, <2>2, <3>1, <3>4, <4>1 DEF OwnSeen
    <3>. QED BY <1>2, <2>2, <3>2, <3>3, <3>4
  <2>. QED BY <2>1, <2>2 DEF OwnSeen
<1>11. Uploaded'
  <2>1. ASSUME NEW k \in Pics', k.at \in {"remove", "write"} PROVE k.id \in files'
    <3>1. \A g \in Pics : g.at # "back" /\ g.id \in files => g.id \in files'
      BY <1>1, <1>4 DEF Unwritten, Reads, Puts, Clears, Writes, Fails
    <3>2. CASE k \in Pics
      BY <1>1, <2>1, <3>1, <3>2 DEF Uploaded
    <3>3. CASE k = d
      <4>1. Puts \/ (Clears /\ c.at = "remove")
        BY <1>4, <2>1, <3>3 DEF Reads, Clears, Writes, Fails
      <4>2. Puts => k.id \in files'
        BY <1>2, <3>3 DEF Puts
      <4>. QED BY <1>1, <1>2, <1>3, <3>1, <3>3, <4>1, <4>2 DEF Uploaded
    <3>. QED BY <1>2, <2>1, <3>2, <3>3
  <2>. QED BY <2>1 DEF Uploaded
<1>12. PictureIsStored'
  <2>1. CASE faults > 0 \/ Fails
    BY <1>0, <2>1 DEF PictureIsStored, Fails
  <2>2. ASSUME ~(faults > 0), ~Fails, NEW e \in Emails, account'[e] # None, account'[e].pic # 0
        PROVE  \/ account'[e].pic \in files'
               \/ \E k \in calls' : k.op = "picture" /\ k.at = "write" /\ k.arg = e
    <3>1. CASE Writes /\ account'[e].pic = c.id
      BY <1>1, <3>1 DEF Uploaded, Writes
    <3>2. CASE account'[e].pic = account[e].pic /\ account[e].pic \in files
      <4>1. CASE account[e].pic \in files'
        BY <3>2, <4>1
      <4>2. CASE account[e].pic \notin files'
        <5>1. Clears /\ account[e].pic = c.seen
          BY <1>4, <2>2, <3>2, <4>2 DEF Reads, Puts, Clears, Writes, Fails
        <5>2. e = c.arg
          BY <1>1, <1>6, <2>2, <3>2, <5>1 DEF OwnSeen, Clears
        <5>3. d \in Pics' /\ d.at = "write" /\ d.arg = e
          BY <1>2, <5>1, <5>2 DEF Clears
        <5>. QED BY <5>3 DEF Pics
      <4>. QED BY <4>1, <4>2
    <3>3. CASE account'[e].pic = account[e].pic /\ account[e].pic \notin files
      <4>1. PICK k \in Pics : k.at = "write" /\ k.arg = e
        BY <1>1, <1>6, <2>2, <3>3 DEF PictureIsStored, Pics
      <4>2. CASE k # c
        BY <1>2, <4>1, <4>2 DEF Pics
      <4>3. CASE k = c
        <5>1. Writes /\ c.arg = e
          BY <1>4, <2>2, <4>1, <4>3 DEF Reads, Puts, Clears
        <5>2. account'[e].pic = c.id
          BY <1>0, <5>1 DEF Writes, AcctInv, TypeInv, AccountSet
        <5>. QED BY <1>1, <4>1, <4>3, <5>1, <5>2 DEF Uploaded, Writes
      <4>. QED BY <4>2, <4>3
    <3>. QED BY <1>6, <2>2, <3>1, <3>2, <3>3
  <2>. QED BY <1>0, <2>1, <2>2 DEF PictureIsStored
<1>. QED BY <1>8, <1>9, <1>10, <1>11, <1>12 DEF PicInv

LEMMA PicturesStay ==
  ASSUME AcctInv, PicInv, [StoreNext]_vars
  PROVE  PicInv'
<1>0. TypeInv /\ PicsBounded
  BY DEF AcctInv, PicInv
<1>1. ASSUME NEW c \in calls, NEW d, Steps(c, d), c.op # "picture"
      PROVE  /\ \A e \in Pics' : (\E k \in Pics : SamePicture(e, k)) \/ NewPicture(e)
             /\ \A e \in Pics', f \in Pics' : e.id = f.id => e = f
             /\ \A k \in Pics : k.at # "back" => \E e \in Pics' : SamePicture(e, k)
  <2>1. Pics' = Pics
    BY <1>1 DEF Pics, Steps, Move, Keeps
  <2>2. \A e : SamePicture(e, e)
    BY DEF SamePicture
  <2>. QED BY <1>0, <2>1, <2>2 DEF PicsBounded
<1>. QED BY <1>0, <1>1, StepsByPicture, PicsAfter, UploadStep, PicturesElsewhere

(* However uploads overlap, the picture of an account is in the storage,     *)
(* except between the statements of an upload, and when one failed.          *)
THEOREM PicturesAreStored == StoreSpec => []PictureIsStored
<1>1. StoreInit => PicInv
  <2> SUFFICES ASSUME StoreInit PROVE PicInv
    OBVIOUS
  <2>1. Pics = {} /\ acts = 0
    BY DEF StoreInit, AccountsInit, Pics
  <2>2. ASSUME NEW e \in Emails, account[e] # None PROVE account[e].pic = 0
    BY <2>2 DEF StoreInit, AccountsInit
  <2>. QED BY <2>1, <2>2 DEF PicInv, PicsBounded, Unwritten, OwnSeen, Uploaded, PictureIsStored
<1>2. PicInv => PictureIsStored
  BY DEF PicInv
<1>. QED BY <1>1, <1>2, PicturesStay, AccountsAreNamed, PTL DEF StoreSpec

-----------------------------------------------------------------------------
(* What is stored. *)

(* What an administrator saves; who ended a session, and with which question. *)
SentFits(c) ==
    /\ c.op = "save" => c.arg.kind \in Kinds
    /\ c.op = "completed" => c.arg.user \in Emails /\ c.arg.peer \in Emails /\ c.arg.q \in Known

(* What the call that ends a session has written when it is at a statement. *)
Marked(c) ==
    c.op = "completed" =>
        /\ c.at \in {"peer", "count"} \/ c.res = "ok" => <<c.arg.user, c.arg.q>> \in completed
        /\ c.at = "count" \/ c.res = "ok" => <<c.arg.peer, c.arg.q>> \in completed

KindsFit == \A q \in Questions : docs[q] # None => q \in used /\ docs[q].kind \in Kinds

(* left tells times that have been. *)
LeftFits ==
    /\ now \in Nat /\ left \in [Questions \X Kinds -> Nat \cup {None}]
    /\ \A x \in Questions \X Kinds : left[x] # None => left[x] <= now

(* A question of the table is still there as it was, or left just now. *)
KindsKept ==
    \A q \in Questions : docs[q] # None =>
        \/ docs'[q] # None /\ docs'[q].kind = docs[q].kind
        \/ left'[<<q, docs[q].kind>>] = now

LeftGrows == \A x \in Questions \X Kinds : left[x] # None => left'[x] # None /\ left'[x] >= left[x]

LEMMA QuestionWritten ==
  ASSUME DocsInv, UsedInv, KindsFit, LeftFits, NEW q, NEW d, NEW k \in Kinds,
         docs' = [docs EXCEPT ![q] = d], UNCHANGED <<used, now>>,
         docs[q] # None, d # None => d.kind = k,
         left' = [left EXCEPT ![<<q, docs[q].kind>>] = now]
  PROVE  KindsFit' /\ LeftFits' /\ KindsKept /\ LeftGrows
<1>1. CASE q \notin Questions
  <2>1. docs' = docs
    BY <1>1 DEF DocsInv
  <2>2. left' = left
    BY <1>1 DEF LeftFits
  <2>3. \A x \in Questions \X Kinds : left[x] # None => left[x] \in Nat
    BY DEF LeftFits
  <2>4. KindsFit' /\ KindsKept
    BY <2>1 DEF KindsFit, KindsKept
  <2>5. LeftFits'
    BY <2>2 DEF LeftFits
  <2>6. LeftGrows
    BY <2>2, <2>3 DEF LeftGrows
  <2>. QED BY <2>4, <2>5, <2>6
<1>2. CASE q \in Questions
  <2>1. \A p \in Questions : docs'[p] = IF p = q THEN d ELSE docs[p]
    BY <1>2 DEF DocsInv
  <2>2. PICK x : x = <<q, docs[q].kind>>
    OBVIOUS
  <2>3. x \in Questions \X Kinds /\ left' = [left EXCEPT ![x] = now]
    BY <1>2, <2>2 DEF KindsFit
  <2>4. \A y \in Questions \X Kinds : left'[y] = IF y = x THEN now ELSE left[y]
    BY <2>3 DEF LeftFits
  <2>5. LeftFits'
    <3>1. left' \in [Questions \X Kinds -> Nat \cup {None}] /\ now' = now /\ now \in Nat
      BY <2>3 DEF LeftFits
    <3>. QED BY <2>4, <3>1 DEF LeftFits
  <2>6. LeftGrows
    <3>1. None \notin Nat
      BY StoreAssumption
    <3>2. \A y \in Questions \X Kinds : left[y] # None => left[y] \in Nat /\ left[y] <= now
      BY DEF LeftFits
    <3>. QED BY <2>4, <3>1, <3>2 DEF LeftFits, LeftGrows
  <2>7. KindsKept
    BY <2>1, <2>2, <2>3, <2>4 DEF KindsKept
  <2>. QED BY <1>2, <2>1, <2>5, <2>6, <2>7 DEF KindsFit
<1>. QED BY <1>1, <1>2

(* The kind of no question is changed. *)
LEMMA KindsUnwritten ==
  ASSUME DocsInv, KindsFit, LeftFits, UNCHANGED left, used \subseteq used',
         now' = now \/ now' = now + 1,
         \A q \in Questions : docs[q] # None => docs'[q] # None /\ docs'[q].kind = docs[q].kind,
         \A q \in Questions : docs[q] = None /\ docs'[q] # None => q \in used' /\ docs'[q].kind \in Kinds
  PROVE  KindsFit' /\ LeftFits' /\ KindsKept /\ LeftGrows
<1>1. KindsFit' /\ KindsKept
  BY DEF KindsFit, KindsKept
<1>2. \A x \in Questions \X Kinds : left[x] # None => left[x] \in Nat /\ left[x] <= now
  BY DEF LeftFits
<1>3. LeftFits' /\ LeftGrows
  BY <1>2 DEF LeftFits, LeftGrows
<1>. QED BY <1>1, <1>3

LEMMA KindsStay ==
  ASSUME DocsInv, UsedInv, KindsFit, LeftFits, \A c \in calls : SentFits(c), [StoreNext]_vars
  PROVE  /\ KindsFit' /\ LeftFits' /\ KindsKept /\ LeftGrows
         /\ used \subseteq used'
<1>1. ASSUME NEW c \in calls, CreateQuestion(c), ~UNCHANGED <<docs, used, left>>
      PROVE  KindsFit' /\ LeftFits' /\ KindsKept /\ LeftGrows /\ used \subseteq used'
  <2>1. PICK q \in Questions \ used :
             docs' = [docs EXCEPT ![q] = Doc(c.arg.kind, 0)] /\ used' = used \cup {q}
    BY <1>1 DEF CreateQuestion
  <2>2. Doc(c.arg.kind, 0).kind \in Kinds
    BY <1>1 DEF CreateQuestion, SentFits, Doc
  <2>3. docs[q] = None
    BY <2>1 DEF KindsFit
  <2>4. \A p \in Questions : docs'[p] = IF p = q THEN Doc(c.arg.kind, 0) ELSE docs[p]
    BY <2>1 DEF DocsInv
  <2>5. UNCHANGED <<left, now>> /\ used \subseteq used' /\ q \in used'
    BY <1>1, <2>1 DEF CreateQuestion
  <2>. QED BY <2>2, <2>3, <2>4, <2>5, KindsUnwritten
<1>2. ASSUME NEW c \in calls, UpdateQuestion(c), ~UNCHANGED <<docs, used, left>>
      PROVE  KindsFit' /\ LeftFits' /\ KindsKept /\ LeftGrows /\ used \subseteq used'
  <2> DEFINE q == c.arg.q
             d == Updated(q, c.arg)
  <2>1. /\ docs[q] # None /\ docs' = [docs EXCEPT ![q] = d] /\ UNCHANGED <<used, now>>
        /\ left' = [left EXCEPT ![<<q, docs[q].kind>>] = now]
        /\ c.arg.kind \in Kinds
    BY <1>2 DEF UpdateQuestion, Leaves, SentFits, Present
  <2>2. CASE q \in Questions
    <3>1. d.kind = c.arg.kind
      BY <2>1, <2>2 DEF DocsInv, Updated, Doc
    <3> HIDE DEF d, q
    <3>. QED BY <2>1, <3>1, QuestionWritten
  <2>3. CASE q \notin Questions
    <3>1. docs' = docs
      BY <2>1, <2>3 DEF DocsInv
    <3>2. left' = left
      BY <2>1, <2>3 DEF LeftFits
    <3>. QED BY <1>2, <2>1, <3>1, <3>2
  <2>. QED BY <2>2, <2>3
<1>3. ASSUME NEW c \in calls, DeleteQuestion(c), ~UNCHANGED <<docs, used, left>>
      PROVE  KindsFit' /\ LeftFits' /\ KindsKept /\ LeftGrows /\ used \subseteq used'
  <2>1. /\ docs[c.arg] # None /\ docs' = [docs EXCEPT ![c.arg] = None] /\ UNCHANGED <<used, now>>
        /\ left' = [left EXCEPT ![<<c.arg, docs[c.arg].kind>>] = now]
    BY <1>3 DEF DeleteQuestion, Leaves, Present
  <2>2. CASE c.arg \in Questions
    BY <2>1, <2>2, QuestionWritten DEF KindsFit
  <2>3. CASE c.arg \notin Questions
    <3>1. docs' = docs
      BY <2>1, <2>3 DEF DocsInv
    <3>2. left' = left
      BY <2>1, <2>3 DEF LeftFits
    <3>. QED BY <1>3, <2>1, <3>1, <3>2
  <2>. QED BY <2>2, <2>3
<1>4. ASSUME NEW c \in calls, IncrementMatched(c), ~UNCHANGED <<docs, used, left>>
      PROVE  KindsFit' /\ LeftFits' /\ KindsKept /\ LeftGrows /\ used \subseteq used'
  <2>1. PICK q : q = c.arg.q /\ docs[q] # None /\ q \in Questions
    BY <1>4 DEF IncrementMatched, Present
  <2> DEFINE d == [docs[q] EXCEPT !.matched = @ + 1]
  <2>2. docs' = [docs EXCEPT ![q] = d] /\ UNCHANGED <<used, now, left>>
    BY <1>4, <2>1 DEF IncrementMatched
  <2>3. d = Doc(docs[q].kind, docs[q].matched + 1)
    BY <2>1 DEF DocsInv, Doc
  <2>4. d.kind = docs[q].kind
    BY <2>3 DEF Doc
  <2>5. d # None
    BY <2>1, <2>3, StoreAssumption DEF Doc, DocsInv, KindsFit
  <2> HIDE DEF d
  <2>6. \A p \in Questions : docs'[p] = IF p = q THEN d ELSE docs[p]
    BY <2>1, <2>2 DEF DocsInv
  <2>. QED BY <2>1, <2>2, <2>4, <2>5, <2>6, KindsUnwritten
<1>5. CASE UNCHANGED <<docs, used, left>> /\ (now' = now \/ now' = now + 1)
  BY <1>5, KindsUnwritten DEF KindsFit
<1>6. \/ UNCHANGED <<docs, used, left>> /\ (now' = now \/ now' = now + 1)
      \/ \E c \in calls : /\ CreateQuestion(c) \/ UpdateQuestion(c) \/ DeleteQuestion(c) \/ IncrementMatched(c)
                          /\ ~UNCHANGED <<docs, used, left>>
  <2>1. ASSUME NEW c \in calls, QuestionStep(c)
        PROVE  \/ UNCHANGED <<docs, used, left>> /\ now' = now
               \/ /\ CreateQuestion(c) \/ UpdateQuestion(c) \/ DeleteQuestion(c) \/ IncrementMatched(c)
                  /\ ~UNCHANGED <<docs, used, left>>
    BY <2>1 DEF QuestionStep, ListQuestions, Refused, CreateQuestion, UpdateQuestion, DeleteQuestion,
                MarkCompleted, IncrementMatched, storeVars
  <2>2. \/ \E c \in calls : QuestionStep(c)
        \/ UNCHANGED <<docs, used, left>> /\ (now' = now \/ now' = now + 1)
    BY DEF StoreNext, vars, storeVars, Tick, Ask, GetCompletedQuestionIds, GetAvailableQuestions
  <2>. QED BY <2>1, <2>2
<1>. QED BY <1>1, <1>2, <1>3, <1>4, <1>5, <1>6

(* A copy of the table: what it holds is there so, or left no longer ago.   *)
CacheFits ==
    cache # None =>
        /\ DOMAIN cache.rows \subseteq used /\ cache.at \in 0..now
        /\ Cardinality(DOMAIN cache.rows) <= Top
        /\ \A q \in DOMAIN cache.rows :
              /\ cache.rows[q] \in Kinds
              /\ \/ docs[q] # None /\ docs[q].kind = cache.rows[q]
                 \/ /\ left[<<q, cache.rows[q]>>] # None
                    /\ left[<<q, cache.rows[q]>>] >= cache.at

StoredInv ==
    /\ DocsInv /\ UsedInv /\ KindsFit /\ LeftFits /\ CacheFits
    /\ completed \subseteq Emails \X Known
    /\ \A c \in calls : SentFits(c) /\ Marked(c)

LEMMA CacheStays ==
  ASSUME StoredInv, [StoreNext]_vars
  PROVE  CacheFits'
<1>0. DocsInv /\ UsedInv /\ KindsFit /\ LeftFits /\ CacheFits /\ now \in Nat
  BY DEF StoredInv, LeftFits
<1>1. KindsKept /\ LeftGrows /\ used \subseteq used'
  BY <1>0, KindsStay DEF StoredInv
<1>2. CASE UNCHANGED cache /\ (now' = now \/ now' = now + 1)
  <2> SUFFICES ASSUME cache # None PROVE CacheFits'
    BY <1>2 DEF CacheFits
  <2>1. /\ DOMAIN cache.rows \subseteq used' /\ cache.at \in 0..now'
        /\ Cardinality(DOMAIN cache.rows) <= Top
    BY <1>0, <1>1, <1>2 DEF CacheFits
  <2>2. ASSUME NEW q \in DOMAIN cache.rows
        PROVE  /\ cache.rows[q] \in Kinds
               /\ \/ docs'[q] # None /\ docs'[q].kind = cache.rows[q]
                  \/ /\ left'[<<q, cache.rows[q]>>] # None
                     /\ left'[<<q, cache.rows[q]>>] >= cache.at
    <3> DEFINE y == <<q, cache.rows[q]>>
    <3>0. y \in Questions \X Kinds
      BY <1>0 DEF CacheFits, UsedInv
    <3>1. PICK x : x = y /\ x \in Questions \X Kinds
      <4> HIDE DEF y
      <4>. QED BY <3>0
    <3>2. cache.at \in Nat /\ cache.at <= now
      BY <1>0 DEF CacheFits
    <3>3. CASE docs[q] # None /\ docs[q].kind = cache.rows[q]
      <4>1. (docs'[q] # None /\ docs'[q].kind = cache.rows[q]) \/ left'[x] = now
        BY <1>1, <3>1, <3>3 DEF KindsKept
      <4>2. now # None
        BY <1>0, StoreAssumption
      <4>. QED BY <1>0, <3>1, <3>2, <4>1, <4>2 DEF CacheFits
    <3>4. CASE left[x] # None /\ left[x] >= cache.at
      <4>1. left[x] \in Nat /\ left'[x] # None /\ left'[x] >= left[x]
        BY <1>0, <1>1, <3>1, <3>4 DEF LeftFits, LeftGrows
      <4>2. left'[x] \in Nat
        BY <1>0, <1>1, <3>1, <4>1, KindsStay DEF LeftFits, StoredInv
      <4>3. left'[x] >= cache.at
        BY <3>2, <3>4, <4>1, <4>2
      <4>. QED BY <1>0, <3>1, <4>1, <4>3 DEF CacheFits
    <3>. QED BY <1>0, <3>1, <3>3, <3>4 DEF CacheFits
  <2>. QED BY <1>2, <2>1, <2>2 DEF CacheFits
<1>3. ASSUME Tick, NEW S \in TopMatched, cache' = Cached(S) PROVE CacheFits'
  <2>1. /\ S \subseteq Present /\ Cardinality(S) <= Top
        /\ UNCHANGED <<docs, used>> /\ now' \in Nat
    BY <1>0, <1>3 DEF TopMatched, Tick
  <2>2. cache'.rows = [q \in S |-> docs[q].kind] /\ cache'.at = now'
    BY <1>3 DEF Cached
  <2>3. DOMAIN cache'.rows = S /\ \A q \in S : cache'.rows[q] = docs[q].kind
    BY <2>2
  <2>4. \A q \in S : q \in used /\ docs[q] # None /\ docs[q].kind \in Kinds
    BY <1>0, <2>1 DEF Present, KindsFit
  <2>5. cache'.at \in 0..now'
    BY <2>1, <2>2
  <2>. QED BY <2>1, <2>3, <2>4, <2>5 DEF CacheFits
<1>4. \/ UNCHANGED cache /\ (now' = now \/ now' = now + 1)
      \/ \E S \in TopMatched : Tick /\ cache' = Cached(S)
  <2>1. ASSUME NEW c \in calls, QuestionStep(c) PROVE UNCHANGED cache /\ now' = now
    BY <2>1 DEF QuestionStep, ListQuestions, Refused, CreateQuestion, UpdateQuestion, DeleteQuestion,
                MarkCompleted, IncrementMatched, storeVars
  <2>2. Tick => \/ UNCHANGED cache /\ now' = now + 1
                \/ \E S \in TopMatched : cache' = Cached(S)
    BY DEF Tick, CacheTop5Matched
  <2>3. (\E c \in calls : QuestionStep(c)) \/ Tick \/ UNCHANGED <<cache, now>>
    BY DEF StoreNext, vars, storeVars, Ask, GetCompletedQuestionIds, GetAvailableQuestions
  <2>. QED BY <2>1, <2>2, <2>3
<1>. QED BY <1>2, <1>3, <1>4

LEMMA CompletedGrows ==
  ASSUME StoredInv, [StoreNext]_vars
  PROVE  completed \subseteq completed' /\ completed' \subseteq Emails \X Known'
<1>1. Known \subseteq Known' /\ completed \subseteq Emails \X Known
  BY KindsStay DEF StoredInv, Known
<1>2. ASSUME NEW c \in calls, MarkCompleted(c), ~UNCHANGED completed
      PROVE  completed \subseteq completed' /\ completed' \subseteq Emails \X Known'
  <2>1. PICK u : /\ u \in {c.arg.user, c.arg.peer}
                 /\ completed' = completed \cup {<<u, c.arg.q>>}
    BY <1>2 DEF MarkCompleted
  <2>2. u \in Emails /\ c.arg.q \in Known
    BY <1>2, <2>1 DEF MarkCompleted, StoredInv, SentFits
  <2>. QED BY <1>1, <2>1, <2>2
<1>3. UNCHANGED completed \/ \E c \in calls : MarkCompleted(c)
  <2>1. ASSUME NEW c \in calls, QuestionStep(c) PROVE UNCHANGED completed \/ MarkCompleted(c)
    BY <2>1 DEF QuestionStep, ListQuestions, Refused, CreateQuestion, UpdateQuestion, DeleteQuestion,
                IncrementMatched, storeVars
  <2>2. (\E c \in calls : QuestionStep(c)) \/ UNCHANGED completed
    BY DEF StoreNext, vars, storeVars, Tick, Ask, GetCompletedQuestionIds, GetAvailableQuestions
  <2>. QED BY <2>1, <2>2
<1>. QED BY <1>1, <1>2, <1>3

(* A statement at a time, both users get their completion. *)
LEMMA MarkingStays ==
  ASSUME AcctInv, StoredInv, [StoreNext]_vars, NEW d \in calls'
  PROVE  SentFits(d)' /\ Marked(d)'
<1>0. /\ Known \subseteq Known' /\ completed \subseteq completed'
      /\ \A c \in calls : SentFits(c) /\ Marked(c) /\ CallFits(c)
      /\ TypeInv
  BY KindsStay, CompletedGrows DEF StoredInv, AcctInv, TypeInv, Known
<1>1. CASE d \in calls
  BY <1>0, <1>1 DEF SentFits, Marked
<1>2. ASSUME NEW c \in calls, LostOf(d, c) PROVE SentFits(d)' /\ Marked(d)'
  BY <1>0, <1>2 DEF SentFits, Marked, LostOf, Keeps, Bears
<1>3. ASSUME NEW c \in calls, Steps(c, d) PROVE SentFits(d)' /\ Marked(d)'
  <2>1. d.op = c.op /\ d.arg = c.arg
    BY <1>3 DEF Steps, Keeps
  <2>2. SentFits(d)'
    BY <1>0, <2>1 DEF SentFits
  <2> SUFFICES ASSUME c.op = "completed" PROVE Marked(d)'
    BY <2>1, <2>2 DEF Marked
  <2>3. CASE d.at \notin {"peer", "count"} /\ d.res # "ok"
    BY <2>3 DEF Marked
  <2>4. CASE Serves(c, d) /\ ~(d.at \notin {"peer", "count"} /\ d.res # "ok")
    <3>1. (d.at = "back") = (d.res # "none")
      BY <2>4 DEF Serves
    <3>2. MarksBoth(c, d)
      BY <2>4 DEF Serves
    <3>3. CASE c.at = "service" /\ d.at = "peer" /\ <<c.arg.user, c.arg.q>> \in completed'
      BY <2>1, <3>1, <3>3 DEF Marked
    <3>4. CASE c.at = "peer" /\ d.at = "count" /\ <<c.arg.peer, c.arg.q>> \in completed'
      BY <1>0, <2>1, <3>1, <3>4 DEF Marked
    <3>5. CASE c.at = "count" /\ d.at = "back"
      BY <1>0, <2>1, <3>5 DEF Marked
    <3>. QED BY <2>4, <3>2, <3>3, <3>4, <3>5 DEF MarksBoth
  <2>5. CASE ~Serves(c, d)
    <3>1. CallFits(c)
      BY <1>0
    <3>2. d.at \notin {"peer", "count"} /\ d.res # "ok"
      BY <1>3, <2>5, <3>1 DEF Steps, Passes, Refreshes, RefreshBreaks, Denied, Expires, SignsOut, Arrived,
                              Bears, CallFits
    <3>. QED BY <2>3, <3>2
  <2>. QED BY <2>3, <2>4, <2>5
<1>4. CASE Begun(d)
  <2>1. Asked(d) /\ d.b \in Browsers /\ d.at \in {"gate", "service"} /\ d.res = "none"
    BY <1>4 DEF Begun, IsNew
  <2>2. d.op = "completed" => d.arg.user \in Emails /\ d.arg.peer \in Emails /\ d.arg.q \in Known
    BY <1>0, <2>1 DEF Asked, TypeInv, TabSet, ShowsPages, SignIns
  <2>3. d.op = "save" => d.arg.kind \in Kinds
    BY <2>1 DEF Asked
  <2>. QED BY <1>0, <2>1, <2>2, <2>3 DEF SentFits, Marked
<1>. QED BY <1>0, <1>1, <1>2, <1>3, <1>4, CallsNext

LEMMA StoredStays ==
  ASSUME AcctInv, StoredInv, [StoreNext]_vars
  PROVE  StoredInv'
<1>1. DocsInv' /\ UsedInv'
  BY HistoryStep DEF StoredInv
<1>2. KindsFit' /\ LeftFits'
  BY KindsStay DEF StoredInv
<1>. QED BY <1>1, <1>2, CacheStays, CompletedGrows, MarkingStays DEF StoredInv

LEMMA StoredInitially == StoreInit => StoredInv
<1>1. SUFFICES ASSUME StoreInit PROVE StoredInv
  OBVIOUS
<1>2. PICK q \in Questions, k \in Kinds :
           /\ docs = [NoDocs EXCEPT ![q] = Doc(k, 0)] /\ used = {q}
           /\ cache \in {None, [rows |-> [p \in {q} |-> k], at |-> 0]}
  BY <1>1 DEF StoreInit
<1>3. /\ completed = {} /\ now = 0 /\ calls = {}
      /\ left = [x \in Questions \X Kinds |-> None]
  BY <1>1 DEF StoreInit, AccountsInit
<1>4. \A p \in Questions : docs[p] = IF p = q THEN Doc(k, 0) ELSE None
  BY <1>2 DEF NoDocs
<1>5. docs[q] # None /\ docs[q].kind = k
  BY <1>4, StoreAssumption DEF Doc
<1>6. KindsFit /\ LeftFits
  BY <1>2, <1>3, <1>4, <1>5 DEF KindsFit, LeftFits
<1>7. CacheFits
  <2> SUFFICES ASSUME cache # None PROVE CacheFits
    BY DEF CacheFits
  <2>1. cache.at = 0 /\ DOMAIN cache.rows = {q} /\ cache.rows[q] = k
    BY <1>2
  <2>2. Cardinality({q}) = 1
    BY FS_Singleton
  <2>. QED BY <1>2, <1>3, <1>5, <2>1, <2>2, StoreAssumption DEF CacheFits
<1>. QED BY <1>1, <1>3, <1>6, <1>7, DocsInitially DEF StoredInv

(* What is stored has its shape, and the end of a session that was answered *)
(* well is completed for both users.                                        *)
THEOREM StoreIsKept == StoreSpec => []StoreInv
<1>1. ASSUME StoredInv PROVE StoreInv
  <2>1. StoreTypeOK
    BY <1>1 DEF StoredInv, StoreTypeOK, DocsInv, UsedInv, KindsFit, CacheFits
  <2>2. MarkedTogether
    BY <1>1 DEF StoredInv, Marked, MarkedTogether
  <2>. QED BY <2>1, <2>2 DEF StoreInv
<1>2. StoredInv => StoreInv
  BY <1>1
<1>. QED BY <1>2, StoredInitially, StoredStays, AccountsAreNamed, PTL DEF StoreSpec

-----------------------------------------------------------------------------
(* An available question. *)

(* What the request has read so far is at least what had been completed.    *)
AskFits ==
    /\ DOMAIN offer = {"users", "kind", "at", "before", "exclude", "got"}
    /\ offer.at \in {"asked", "read"} => offer.got = {} /\ offer.before \subseteq completed
    /\ offer.at = "read" =>
          \A u \in offer.users, q \in Questions : <<u, q>> \in offer.before => q \in offer.exclude

(* Of the cache or the table. *)
SoundlyOffered(o) ==
    /\ \A u \in offer.users : <<u, o[1]>> \notin offer.before
    /\ \/ docs[o[1]] # None /\ docs[o[1]].kind = o[2]
       \/ left[o] # None /\ now - left[o] < CacheTTL

OfferSound ==
    \A o \in offer'.got : offer.at = "read" =>
        \/ o \in FallbackRows /\ faults' > faults
        \/ SoundlyOffered(o)

LEMMA OfferedSoundly ==
  ASSUME StoredInv, AskFits, faults \in Nat, GetAvailableQuestions
  PROVE  OfferSound
<1> SUFFICES ASSUME NEW o \in offer'.got
             PROVE  (o \in FallbackRows /\ faults' > faults) \/ SoundlyOffered(o)
  BY DEF OfferSound
<1>1. offer.at = "read" /\ used \subseteq Questions
  BY DEF GetAvailableQuestions, StoredInv, UsedInv
<1>2. \A q \in Questions \ offer.exclude : \A u \in offer.users : <<u, q>> \notin offer.before
  BY <1>1 DEF AskFits
<1>3. ASSUME NEW q \in Filtered, offer' = Offered({<<q, cache.rows[q]>>}) PROVE SoundlyOffered(o)
  <2>1. o = <<q, cache.rows[q]>>
    BY <1>3 DEF Offered
  <2>2. /\ cache # None /\ now - cache.at < CacheTTL /\ q \in DOMAIN cache.rows \ offer.exclude
        /\ now \in Nat /\ cache.at \in Nat
    BY StoreAssumption DEF Filtered, Gone, StoredInv, LeftFits, CacheFits
  <2>3. q \in Questions \ offer.exclude /\ o[1] = q /\ o[2] = cache.rows[q]
    BY <1>1, <2>1, <2>2 DEF StoredInv, CacheFits
  <2>4. CASE docs[q] # None /\ docs[q].kind = cache.rows[q]
    BY <1>2, <2>3, <2>4 DEF SoundlyOffered
  <2>5. CASE left[o] # None /\ left[o] >= cache.at
    <3>1. o \in Questions \X Kinds
      BY <2>1, <2>2, <2>3 DEF StoredInv, CacheFits
    <3>2. left[o] \in Nat
      BY <2>5, <3>1 DEF StoredInv, LeftFits
    <3>3. now - left[o] < CacheTTL
      BY <2>2, <2>5, <3>2, StoreAssumption
    <3>. QED BY <1>2, <2>3, <2>5, <3>3 DEF SoundlyOffered
  <2>. QED BY <2>1, <2>2, <2>4, <2>5 DEF StoredInv, CacheFits
<1>4. ASSUME offer' = Offered({<<q, docs[q].kind>> :
                                 q \in {p \in Present \ offer.exclude : Wanted(docs[p].kind)}})
      PROVE  SoundlyOffered(o)
  <2>1. PICK q \in Present \ offer.exclude : o = <<q, docs[q].kind>>
    BY <1>4 DEF Offered
  <2>2. q \in Questions \ offer.exclude /\ docs[q] # None /\ o[1] = q /\ o[2] = docs[q].kind
    BY <2>1 DEF Present
  <2>. QED BY <1>2, <2>2 DEF SoundlyOffered
<1>5. ASSUME Fault, offer' = Offered(FallbackRows) PROVE o \in FallbackRows /\ faults' > faults
  BY <1>5 DEF Offered, Fault
<1>. QED BY <1>3, <1>4, <1>5 DEF GetAvailableQuestions

LEMMA OfferStep ==
  ASSUME StoredInv, AskFits, faults \in Nat, [StoreNext]_vars
  PROVE  AskFits' /\ OfferSound
<1>1. completed \subseteq completed'
  BY CompletedGrows
<1>2. CASE UNCHANGED offer
  BY <1>1, <1>2 DEF AskFits, OfferSound
<1>3. ASSUME NEW S, NEW k, Ask(S, k) PROVE AskFits' /\ OfferSound
  BY <1>3 DEF Ask, AskFits, OfferSound, storeVars
<1>4. CASE GetCompletedQuestionIds /\ offer' # Offered({})
  <2>1. PICK X : /\ offer' = [offer EXCEPT !.at = "read", !.exclude = X]
                 /\ X = {q \in Ids : \E u \in offer.users : <<u, q>> \in completed}
    BY <1>4 DEF GetCompletedQuestionIds
  <2>2. /\ DOMAIN offer' = DOMAIN offer /\ offer'.at = "read" /\ offer'.exclude = X
        /\ offer'.users = offer.users /\ offer'.before = offer.before /\ offer'.got = offer.got
    BY <2>1 DEF AskFits
  <2>3. offer.at = "asked"
    BY <1>4 DEF GetCompletedQuestionIds
  <2>4. Questions \subseteq Ids
    BY DEF Ids
  <2>. QED BY <1>1, <2>1, <2>2, <2>3, <2>4 DEF AskFits, OfferSound
<1>7. CASE GetCompletedQuestionIds /\ offer' = Offered({})
  BY <1>7 DEF Offered, AskFits, OfferSound
<1>5. CASE GetAvailableQuestions
  <2>1. \E got : offer' = Offered(got)
    BY <1>5 DEF GetAvailableQuestions
  <2>2. AskFits'
    BY <2>1 DEF Offered, AskFits
  <2>. QED BY <1>5, <2>2, OfferedSoundly
<1>6. \/ UNCHANGED offer \/ GetCompletedQuestionIds \/ GetAvailableQuestions
      \/ \E S, k : Ask(S, k)
  BY DEF StoreNext, Tick, vars
<1>. QED BY <1>2, <1>3, <1>4, <1>5, <1>6, <1>7

(* What the cache or the table offers was completed by neither user when it *)
(* was asked for, and is in the table or left it less than CacheTTL ago.    *)
(* Only a request that fails to read the table is answered otherwise, with  *)
(* the fixed rows.                                                          *)
THEOREM OffersAreSound == StoreSpec => OfferIsSound
<1>1. StoreInit => AskFits
  BY DEF StoreInit, Offered, AskFits
<1>0. AcctInv => faults \in Nat
  BY DEF AcctInv, TypeInv
<1>2. AcctInv /\ StoredInv /\ AskFits /\ [StoreNext]_vars => AskFits' /\ [OfferSound]_vars
  BY <1>0, OfferStep
<1>3. StoreSpec => [][OfferSound]_vars
  BY <1>1, <1>2, StoredInitially, StoredStays, AccountsAreNamed, PTL DEF StoreSpec
<1>. QED BY <1>3 DEF OfferIsSound, OfferSound, SoundlyOffered
=============================================================================
