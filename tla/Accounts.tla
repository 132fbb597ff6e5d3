------------------------------ MODULE Accounts ------------------------------
(***************************************************************************)
(* Signing in and out: browsers with cookies, the gateway that verifies and *)
(* refreshes access tokens, the user service with its accounts, refresh     *)
(* tokens and profile pictures. Every request of a page is a call that      *)
(* passes the gateway, is served statement by statement and comes back.     *)
(***************************************************************************)
EXTENDS Naturals, FiniteSets

CONSTANTS
    Emails,     \* accounts that may exist, by their e-mail
    FirstRole,  \* of an e-mail: the role of its account at first, or None
    Browsers,   \* each with one tab
    Starts,     \* who may be signed in at first, of every browser
    MaxActs,    \* bound: acts of users
    MaxFaults,  \* bound: failures
    None

Roles == {"USER", "ADMIN", "SUPER_ADMIN"}

ASSUME AccountsAssumption ==
    /\ MaxActs \in Nat /\ MaxFaults \in Nat
    /\ None \notin Emails \cup Roles \cup [role : Roles, pic : Nat]
    /\ None \notin [user : Emails, role : Roles] \cup [user : Emails, role : Roles, at : Nat]
    /\ FirstRole \in [Emails -> Roles \cup {None}]
    /\ Starts \subseteq [Browsers -> Emails \cup {None}]
    /\ \A s \in Starts, a \in Browsers :   \* different accounts that are there
          s[a] # None => /\ FirstRole[s[a]] # None
                         /\ \A b \in Browsers \ {a} : s[b] # s[a]

VARIABLES
    account, \* of an e-mail: None, or its role and profile picture (0: none)
    tokens,  \* rows of user_refresh_token
    second,  \* the last second in which a refresh token was signed
    files,   \* pictures in the storage
    jar,     \* cookies of a browser
    page,    \* AuthContext of its tab, and the profile that is cached there
    calls,   \* calls on their way
    acts, faults,
    astray   \* browsers whose page and cookies may disagree: a call failed, or an
             \* answer to a call of an earlier page or sign-in set cookies; or which
             \* were given a refresh token that another browser still has

authVars == <<account, tokens, second, files, jar, page, calls, acts, faults, astray>>

Token(e, n) == [user |-> e, role |-> account[e].role, at |-> n]
NoCookies == [access |-> None, refresh |-> None]
Tab(e, role) == [user |-> e, role |-> role, me |-> None, ready |-> TRUE]
SignedOut == Tab(None, None)
Loading == [SignedOut EXCEPT !.ready = FALSE]

(* isAdminRole and ProtectedRoute: what the tab shows. *)
ShowsLogin(b) == page[b].ready /\ page[b].user = None
ShowsPages(b) == page[b].ready /\ page[b].user # None
ShowsAdmin(b) == ShowsPages(b) /\ page[b].role \in {"ADMIN", "SUPER_ADMIN"}

(* Mutant of ShowsAdmins: to any administrator. *)
ShowsAdminsToAll(b) == ShowsAdmin(b)

ShowsAdmins(b) == ShowsPages(b) /\ page[b].role = "SUPER_ADMIN"

(* ------------------------------- calls --------------------------------- *)

(* A call leaves with the cookies the browser has then. *)
Call(n, b, op, arg) ==
    [id |-> n, b |-> b, op |-> op, arg |-> arg, at |-> "gate", cookies |-> jar[b],
     user |-> None, role |-> None, fresh |-> FALSE, seen |-> 0, data |-> None,
     res |-> "none", lost |-> FALSE]

Waits(b, op) == \E c \in calls : c.b = b /\ c.op = op /\ ~c.lost
Move(c, d) == calls' = (calls \ {c}) \cup {d}
Goes(c, step) == Move(c, [c EXCEPT !.at = step])
Answer(c, res) == Move(c, [c EXCEPT !.at = "back", !.res = res])
Unloaded(b) == {IF c.b = b THEN [c EXCEPT !.lost = TRUE] ELSE c : c \in calls}

Fault == faults < MaxFaults /\ faults' = faults + 1

Start(b, op, arg, first) ==
    /\ acts < MaxActs /\ acts' = acts + 1
    /\ calls' = calls \cup {[Call(acts + 1, b, op, arg) EXCEPT !.at = first]}
    /\ UNCHANGED <<account, tokens, second, files, jar, page, faults, astray>>

(* ------------------------------ the gateway ---------------------------- *)

Verified(c, u, role, fresh) ==
    LET d == [c EXCEPT !.user = u, !.role = role, !.fresh = fresh]
    IN  Move(c, IF c.op = "verify" THEN [d EXCEPT !.at = "back", !.res = "ok"]
                ELSE [d EXCEPT !.at = "service"])

Expired(c) ==
    IF c.cookies.refresh = None THEN Answer(c, "unauthorized") ELSE Goes(c, "refresh")

(* verifyGateway: an access token is good for 15 minutes, so that any may   *)
(* have expired on the way.                                                 *)
VerifyGateway(c) ==
    /\ c.at = "gate" /\ c.op # "logout"
    /\ \/ c.cookies.access # None /\ Verified(c, c.cookies.access.user, c.cookies.access.role, FALSE)
       \/ Expired(c)
    /\ UNCHANGED <<account, tokens, second, files, jar, page, acts, faults, astray>>

(* The answer of /auth/refresh holds the user but no role, and the request  *)
(* goes on without one, or the proxy refuses to send a header without value.*)
Refresh(c) ==
    /\ c.at = "refresh"
    /\ \/ /\ c.cookies.refresh \in tokens
          /\ \/ Verified(c, c.cookies.refresh.user, None, TRUE)
             \/ /\ c.op # "verify"
                /\ Move(c, [c EXCEPT !.at = "back", !.res = "error", !.fresh = TRUE])
          /\ UNCHANGED <<faults, astray>>
       \/ /\ c.cookies.refresh \notin tokens /\ Answer(c, "unauthorized")
          /\ UNCHANGED <<faults, astray>>
       \/ Fault /\ Answer(c, "unauthorized") /\ astray' = astray \cup {c.b}
    /\ UNCHANGED <<account, tokens, second, files, jar, page, acts>>

(* Mutant of LogoutHandler: gives up when the user service fails. *)
LogoutHandlerGivingUp(c) ==
    /\ c.op = "logout" /\ c.at = "gate"
    /\ \/ tokens' = tokens \ {c.cookies.refresh} /\ Answer(c, "ok") /\ UNCHANGED faults
       \/ Fault /\ c.cookies.refresh # None /\ Answer(c, "error") /\ UNCHANGED tokens
    /\ UNCHANGED <<account, second, files, jar, page, acts, astray>>

(* POST /api/auth/logout: the cookies are cleared even if the row is not. *)
LogoutHandler(c) ==
    /\ c.op = "logout" /\ c.at = "gate"
    /\ \/ tokens' = tokens \ {c.cookies.refresh} /\ UNCHANGED faults
       \/ Fault /\ UNCHANGED tokens
    /\ Answer(c, "ok")
    /\ UNCHANGED <<account, second, files, jar, page, acts, astray>>

(* ---------------------------- the user service ------------------------- *)

(* Mutant of Issue: a token that is there already is not inserted again. *)
IssueSharing(c) ==
    /\ c.at = "issue"
    /\ \E n \in {second, second + 1} :
          /\ second' = n /\ tokens' = tokens \cup {Token(c.arg, n)}
          /\ Move(c, [c EXCEPT !.at = "back", !.res = "ok", !.data = Token(c.arg, n)])
    /\ UNCHANGED <<account, files, jar, page, acts, faults, astray>>

(* A refresh token that a browser has, or is sent, or sent.                 *)
SignIns == {"adminLogin", "github"}
Holds(b, t) ==
    \/ jar[b].refresh = t
    \/ \E c \in calls : c.b = b /\ (c.cookies.refresh = t \/ (c.op \in SignIns /\ c.data = t))

(* Both sign-ins end so: the tokens are signed, and the hash of the refresh *)
(* token is inserted. A token of the same account signed in the same second *)
(* is the same token, and token_hash is unique; when the row went with a    *)
(* sign-out in that second, the other browser may still have the token.     *)
Issue(c) ==
    /\ c.at = "issue"
    /\ \E n \in {second, second + 1} :
          LET t == Token(c.arg, n) IN
          /\ second' = n
          /\ IF t \in tokens THEN Answer(c, "error") /\ UNCHANGED <<tokens, astray>>
             ELSE /\ tokens' = tokens \cup {t}
                  /\ Move(c, [c EXCEPT !.at = "back", !.res = "ok", !.data = t])
                  /\ astray' = astray \cup
                        IF \E b \in Browsers \ {c.b} : Holds(b, t) THEN {c.b} ELSE {}
    /\ UNCHANGED <<account, files, jar, page, acts, faults>>

(* POST /user/admin/login, with the right password. *)
AdminLogin(c) ==
    /\ c.op = "adminLogin" /\ c.at = "service"
    /\ IF account[c.arg] # None /\ account[c.arg].role # "USER"
       THEN Goes(c, "issue") ELSE Answer(c, "unauthorized")
    /\ UNCHANGED <<account, tokens, second, files, jar, page, acts, faults, astray>>

(* GET /user/user/login, and POST /admin/admins after its check of the role:*)
(* is there an account? When not, one is created in a later statement.      *)
FindAccount(c) ==
    /\ c.at = "service"
    /\ \/ c.op = "github" /\ Goes(c, IF account[c.arg] = None THEN "create" ELSE "issue")
       \/ /\ c.op = "createAdmin"
          /\ IF c.role # "SUPER_ADMIN" THEN Answer(c, "forbidden")
             ELSE IF account[c.arg] # None THEN Answer(c, "conflict") ELSE Goes(c, "create")
    /\ UNCHANGED <<account, tokens, second, files, jar, page, acts, faults, astray>>

RoleAsked(c) == IF c.op = "github" THEN "USER" ELSE c.data

(* Mutant of CreateAccount: an upsert. *)
UpsertAccount(c) ==
    /\ c.at = "create"
    /\ account' = [account EXCEPT ![c.arg] = [role |-> RoleAsked(c), pic |-> 0]]
    /\ IF c.op = "github" THEN Goes(c, "issue") ELSE Answer(c, "ok")
    /\ UNCHANGED <<tokens, second, files, jar, page, acts, faults, astray>>

(* prisma.user.create: the e-mail is unique. *)
CreateAccount(c) ==
    /\ c.at = "create"
    /\ IF account[c.arg] # None THEN Answer(c, "error") /\ UNCHANGED account
       ELSE /\ account' = [account EXCEPT ![c.arg] = [role |-> RoleAsked(c), pic |-> 0]]
            /\ IF c.op = "github" THEN Goes(c, "issue") ELSE Answer(c, "ok")
    /\ UNCHANGED <<tokens, second, files, jar, page, acts, faults, astray>>

(* GET /admin/users, GET /admin/admins and GET /profile/me. *)
ReadAccounts(c) ==
    /\ c.at = "service" /\ c.op \in {"users", "admins", "me"}
    /\ LET allowed == CASE c.op = "users"  -> c.role \in {"ADMIN", "SUPER_ADMIN"}
                        [] c.op = "admins" -> c.role = "SUPER_ADMIN"
                        [] OTHER           -> TRUE
       IN Answer(c, IF allowed THEN "ok" ELSE "forbidden")
    /\ UNCHANGED <<account, tokens, second, files, jar, page, acts, faults, astray>>

(* POST /profile/picture: read the account, upload, remove what was read,   *)
(* write the new path.                                                      *)
ReadPicture(c) ==
    /\ c.op = "picture" /\ c.at = "service"
    /\ Move(c, [c EXCEPT !.at = "upload", !.seen = account[c.arg].pic])
    /\ UNCHANGED <<account, tokens, second, files, jar, page, acts, faults, astray>>

UploadPicture(c) ==
    /\ c.op = "picture" /\ c.at = "upload"
    /\ \/ files' = files \cup {c.id} /\ Goes(c, "remove") /\ UNCHANGED faults
       \/ Fault /\ Answer(c, "error") /\ UNCHANGED files
    /\ UNCHANGED <<account, tokens, second, jar, page, acts, astray>>

(* Mutant of RemovePicture: everything else in the folder is removed. *)
RemoveOtherPictures(c) ==
    /\ c.op = "picture" /\ c.at = "remove"
    /\ files' = files \cap {c.id}
    /\ Goes(c, "write")
    /\ UNCHANGED <<account, tokens, second, jar, page, acts, faults, astray>>

RemovePicture(c) ==
    /\ c.op = "picture" /\ c.at = "remove"
    /\ \/ files' = files \ {c.seen} /\ UNCHANGED faults
       \/ Fault /\ UNCHANGED files
    /\ Goes(c, "write")
    /\ UNCHANGED <<account, tokens, second, jar, page, acts, astray>>

WritePicture(c) ==
    /\ c.op = "picture" /\ c.at = "write"
    /\ \/ account' = [account EXCEPT ![c.arg].pic = c.id] /\ Answer(c, "ok") /\ UNCHANGED faults
       \/ Fault /\ Answer(c, "error") /\ UNCHANGED account
    /\ UNCHANGED <<tokens, second, files, jar, page, acts, astray>>

(* ------------------------------ the browser ---------------------------- *)

(* Set-Cookie of an answer. *)
Cookies(c) ==
    CASE c.op = "logout" /\ c.res = "ok" -> NoCookies
      [] c.op \in {"adminLogin", "github"} /\ c.res = "ok" ->
            [access |-> [user |-> c.data.user, role |-> c.data.role], refresh |-> c.data]
      [] c.fresh -> [jar[c.b] EXCEPT !.access =
            [user |-> c.cookies.refresh.user, role |-> c.cookies.refresh.role]]
      [] OTHER -> jar[c.b]

SetCookies(c) == jar' = [jar EXCEPT ![c.b] = Cookies(c)]

(* A refreshed token arrives in a browser whose sign-in is not that of the call. *)
Crosses(c) == c.fresh /\ jar[c.b].refresh # c.cookies.refresh

Astray(c) == astray' = IF Crosses(c) THEN astray \cup {c.b} ELSE astray

(* What the page makes of an answer: verifySession, login, logout, the      *)
(* query of the profile.                                                    *)
TabAfter(c) ==
    CASE c.op = "verify"     -> IF c.res = "ok" THEN Tab(c.user, c.role) ELSE SignedOut
      [] c.op = "adminLogin" -> IF c.res = "ok" THEN Tab(c.data.user, c.data.role) ELSE page[c.b]
      [] c.op = "logout"     -> SignedOut
      [] c.op = "me"         -> IF c.res = "ok" /\ ShowsPages(c.b) THEN [page[c.b] EXCEPT !.me = c.user]
                                ELSE page[c.b]
      [] OTHER               -> page[c.b]

(* A sign-out leaves the pages and clears the query client, so that what is *)
(* answered later changes nothing in the tab.                               *)
Remaining(c) == IF c.op = "logout" THEN Unloaded(c.b) \ {[c EXCEPT !.lost = TRUE]} ELSE calls \ {c}

Arrive(c) ==
    /\ c.at = "back" /\ ~c.lost /\ c.op # "github"
    /\ SetCookies(c) /\ Astray(c)
    /\ page' = [page EXCEPT ![c.b] = TabAfter(c)]
    /\ calls' = Remaining(c)
    /\ UNCHANGED <<account, tokens, second, files, acts, faults>>

VerifyOf(b, cookies) == [Call(0, b, "verify", None) EXCEPT !.cookies = cookies]

(* The redirect after the callback loads the application, which verifies.   *)
Redirected(c) ==
    /\ c.at = "back" /\ ~c.lost /\ c.op = "github" /\ c.res = "ok"
    /\ SetCookies(c)
    /\ calls' = (calls \ {c}) \cup {VerifyOf(c.b, Cookies(c))}
    /\ UNCHANGED <<account, tokens, second, files, page, acts, faults, astray>>

(* The answer to a call of a page that is gone: its cookies may be set.     *)
ArriveLost(c) ==
    /\ c.at = "back" /\ c.lost
    /\ SetCookies(c) \/ UNCHANGED jar
    /\ astray' = IF c.fresh THEN astray \cup {c.b} ELSE astray
    /\ calls' = calls \ {c}
    /\ UNCHANGED <<account, tokens, second, files, page, acts, faults>>

(* A call fails on its way to the gateway; the page signs out nevertheless. *)
NetworkFails(c) ==
    /\ c.at = "gate" /\ ~c.lost /\ c.op \in {"verify", "logout"} /\ Fault
    /\ page' = [page EXCEPT ![c.b] = SignedOut]
    /\ astray' = astray \cup {c.b}
    /\ calls' = Remaining(c)
    /\ UNCHANGED <<account, tokens, second, files, jar, acts>>

(* --------------------------------- users ------------------------------- *)

SignInAdmin(b, e) ==
    ShowsLogin(b) /\ ~Waits(b, "adminLogin") /\ Start(b, "adminLogin", e, "service")

(* window.location.href leaves the page. *)
SignInGithub(b, e) ==
    /\ ShowsLogin(b) /\ ~Waits(b, "adminLogin")
    /\ acts < MaxActs /\ acts' = acts + 1
    /\ calls' = Unloaded(b) \cup {[Call(acts + 1, b, "github", e) EXCEPT !.at = "service"]}
    /\ page' = [page EXCEPT ![b] = Loading]
    /\ UNCHANGED <<account, tokens, second, files, jar, faults, astray>>

(* The page is opened again: verifySession. A sign-in or sign-out on its    *)
(* way is not waited for.                                                   *)
Reload(b) ==
    /\ acts < MaxActs /\ acts' = acts + 1
    /\ calls' = Unloaded(b) \cup {VerifyOf(b, jar[b])}
    /\ page' = [page EXCEPT ![b] = Loading]
    /\ astray' = IF \E op \in {"adminLogin", "github", "logout"} : Waits(b, op)
                 THEN astray \cup {b} ELSE astray
    /\ UNCHANGED <<account, tokens, second, files, jar, faults>>

SignOut(b) == ShowsPages(b) /\ ~Waits(b, "logout") /\ Start(b, "logout", None, "gate")

ShowProfile(b) == ShowsPages(b) /\ ~Waits(b, "me") /\ Start(b, "me", None, "gate")

(* ProfileSetup sends pictures to the user service, past the gateway.       *)
ChangePicture(b) == ShowsPages(b) /\ Start(b, "picture", page[b].user, "service")

ListUsers(b)  == ShowsAdmin(b) /\ Start(b, "users", None, "gate")
ListAdmins(b) == ShowsAdmins(b) /\ Start(b, "admins", None, "gate")

CreateAdmin(b, e, role) ==
    /\ ShowsAdmins(b) /\ ~Waits(b, "createAdmin")
    /\ acts < MaxActs /\ acts' = acts + 1
    /\ calls' = calls \cup {[Call(acts + 1, b, "createAdmin", e) EXCEPT !.data = role]}
    /\ UNCHANGED <<account, tokens, second, files, jar, page, faults, astray>>

AccountsInit ==
    \E s \in Starts :
        /\ account = [e \in Emails |-> IF FirstRole[e] = None THEN None
                                       ELSE [role |-> FirstRole[e], pic |-> 0]]
        /\ second = 1 /\ files = {} /\ calls = {}
        /\ jar = [b \in Browsers |-> IF s[b] = None THEN NoCookies
                    ELSE [access  |-> [user |-> s[b], role |-> FirstRole[s[b]]],
                          refresh |-> Token(s[b], 1)]]
        /\ tokens = {jar[b].refresh : b \in {x \in Browsers : s[x] # None}}
        /\ page = [b \in Browsers |-> IF s[b] = None THEN SignedOut ELSE Tab(s[b], FirstRole[s[b]])]
        /\ acts = 0 /\ faults = 0 /\ astray = {}

CallStep(c) ==
    \/ VerifyGateway(c) \/ Refresh(c) \/ LogoutHandler(c)
    \/ AdminLogin(c) \/ FindAccount(c) \/ CreateAccount(c) \/ Issue(c) \/ ReadAccounts(c)
    \/ ReadPicture(c) \/ UploadPicture(c) \/ RemovePicture(c) \/ WritePicture(c)
    \/ Redirected(c) \/ ArriveLost(c) \/ NetworkFails(c)

VisitorStep(b) ==
    \/ Reload(b) \/ SignOut(b) \/ ShowProfile(b) \/ ChangePicture(b) \/ ListUsers(b) \/ ListAdmins(b)
    \/ \E e \in Emails : \/ SignInAdmin(b, e) \/ SignInGithub(b, e)
                         \/ \E role \in {"ADMIN", "SUPER_ADMIN"} : CreateAdmin(b, e, role)

(* ------------------------------ properties ----------------------------- *)

(* The browser's requests act for the user its page shows, and for nobody   *)
(* once it has signed out, whatever the user service and the time-outs of   *)
(* tokens did, unless the browser is astray.                               *)
BrowserActsForPage ==
    \A b \in Browsers :
        page[b].ready /\ b \notin astray =>
            /\ (page[b].user = None) = (jar[b] = NoCookies)
            /\ jar[b].refresh # None => jar[b].refresh.user = page[b].user
            /\ jar[b].access # None => jar[b].access.user = page[b].user
            /\ page[b].me \in {None, page[b].user}

(* Only its own sign-out ends the sign-in of a browser: the refresh token   *)
(* of a cookie has its row, also when one user is signed in twice.          *)
SignInsAreSeparate ==
    \A b \in Browsers :
        jar[b].refresh # None =>
            \/ jar[b].refresh \in tokens \/ b \in astray
            \/ \E c \in calls : c.b = b /\ c.op = "logout"

(* A page offers an administrator nothing that is then refused, unless the  *)
(* access token was refreshed on the way (the role is lost then).           *)
NoOfferIsRefused ==
    \A c \in calls : c.res = "forbidden" => c.fresh \/ c.b \in astray

(* An account is created once and keeps its role, also when a first sign-in *)
(* and the creation of an administrator meet.                               *)
AccountsAreKept ==
    [][\A e \in Emails : account[e] # None =>
           account'[e] # None /\ account'[e].role = account[e].role]_authVars

(* However uploads overlap, the picture of an account is in the storage,    *)
(* except between the statements of an upload, and when one failed.         *)
PictureIsStored ==
    \/ faults > 0
    \/ \A e \in Emails : account[e] # None /\ account[e].pic # 0 =>
          \/ account[e].pic \in files
          \/ \E c \in calls : c.op = "picture" /\ c.at = "write" /\ c.arg = e
=============================================================================
