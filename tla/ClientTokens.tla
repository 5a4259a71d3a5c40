---------------------------- MODULE ClientTokens ----------------------------
(***************************************************************************)
(* The tokens of the web client (apps/lib/api/auth.ts) and the requests    *)
(* that use them (fetchWithAuth of apps/lib/api/client.ts).                *)
(*                                                                         *)
(* Every tab keeps an access and a refresh token in module variables; the  *)
(* tabs of one browser share localStorage and the HttpOnly refresh cookie. *)
(* A request that is refused with 401 waits for the refresh the tab shares *)
(* (refreshPromise) and is sent once more.  A refresh first presents the   *)
(* refresh token the tab knows and, when that is refused, the cookie.      *)
(*                                                                         *)
(* A token is the session it belongs to and its place in the chain of      *)
(* rotations; the access and the refresh token of one answer are named     *)
(* alike.  The server keeps, for each session, the last token it issued:   *)
(* it rotates that one, or the one before it (whose replacement is still   *)
(* unused), and takes any older one for a reuse (AuthSessions.tla has the  *)
(* whole of it).                                                           *)
(*                                                                         *)
(* JavaScript runs to completion: an answer, what it assigns and what the  *)
(* continuations waiting on the promise do before the next event are one   *)
(* action.                                                                 *)
(***************************************************************************)
EXTENDS Integers, FiniteSets

CONSTANTS
    Tab,        \* the tabs of the browser
    Request,    \* the requests a tab may have under way
    MaxLogin,   \* bound: sessions the user opens
    MaxGen,     \* bound: tokens issued in the first session, one less in the next
    MaxLost,    \* bound: rotations in a row whose answer the browser never got
    MaxStray,   \* bound: tokens presented by refreshes that may come late
    Null

ASSUME BoundsAssumption ==
    /\ MaxLogin \in Nat \ {0}
    /\ MaxGen \in Nat \ {0}
    /\ MaxLost \in Nat
    /\ MaxStray \in Nat

Session == 1 .. MaxLogin
Token == [s : Session, n : 1 .. MaxGen]
TokenOrNull == Token \cup {Null}
Pair == [access : TokenOrNull, refresh : TokenOrNull]

Direct == {"bootstrap", "autoRefresh"}   \* callers of refreshAccessToken
Caller == Request \cup Direct

ASSUME NullAssumption ==
    /\ Null \notin Token
    /\ Request \cap Direct = {}

VARIABLES
    mem,       \* tab -> the module variables accessToken and refreshToken
    store,     \* the same two in localStorage
    cookie,    \* the HttpOnly refresh cookie
    promise,   \* tab -> whether refreshPromise is set
    calls,     \* the POST /auth/refresh under way
    boot,      \* tab -> how far authApi.bootstrap() is
    req,       \* tab -> request -> its state
    out,       \* tab -> the logout under way, or Null
    server,    \* session -> last token issued and whether it is active
    strays,    \* the tokens presented by refreshes the page gave up
    lost       \* rotations missed since the browser had the newest token

tokenVars == <<mem, store, cookie, promise, calls, boot, req, out, server, strays, lost>>

Nothing == [access |-> Null, refresh |-> Null]
Both(k) == [access |-> k, refresh |-> k]

Call == [tab : Tab, by : Caller, stage : {"body", "cookie"},
         token : TokenOrNull, answer : {"none", "refused", "rotated"}, new : TokenOrNull]

ReqState == [state : {"idle", "sent", "waiting"},
             attempt : 0 .. 1, token : TokenOrNull, refused : TokenOrNull]

Logout == [stage : {"sent", "answered"}, token : TokenOrNull]

ASSUME LogoutAssumption == Null \notin Logout

TokensTypeOK ==
    /\ mem \in [Tab -> Pair]
    /\ store \in Pair
    /\ cookie \in TokenOrNull
    /\ promise \in [Tab -> BOOLEAN]
    /\ calls \subseteq Call
    /\ boot \in [Tab -> {"no", "waiting", "in", "out"}]
    /\ req \in [Tab -> [Request -> ReqState]]
    /\ out \in [Tab -> Logout \cup {Null}]
    /\ server \in [Session -> [last : 0 .. MaxGen, state : {"none", "live", "ended", "reused"}]]
    /\ strays \subseteq Token
    /\ lost \in 0 .. MaxLost

IdleReq == [state |-> "idle", attempt |-> 0, token |-> Null, refused |-> Null]

(* The browser before any tab is open: signed in (session 1) or not. *)
TokensInit ==
    /\ mem = [t \in Tab |-> Nothing]
    /\ promise = [t \in Tab |-> FALSE]
    /\ calls = {}
    /\ boot = [t \in Tab |-> "no"]
    /\ req = [t \in Tab |-> [r \in Request |-> IdleReq]]
    /\ out = [t \in Tab |-> Null]
    /\ strays = {} /\ lost = 0
    /\ \E in \in BOOLEAN :
        LET first == [s |-> 1, n |-> 1]
        IN  /\ store = IF in THEN Both(first) ELSE Nothing
            /\ cookie = IF in THEN first ELSE Null
            /\ server = [s \in Session |->
                            IF in /\ s = 1 THEN [last |-> 1, state |-> "live"]
                                           ELSE [last |-> 0, state |-> "none"]]

(* getStoredAccessToken and the first line of doRefresh: what the tab       *)
(* remembers wins over localStorage.                                        *)
AccessOf(t) == IF mem[t].access # Null THEN mem[t].access ELSE store.access
RefreshOf(t) == IF mem[t].refresh # Null THEN mem[t].refresh ELSE store.refresh

---------------------------------------------------------------------------
(* The server's side of a refresh and of a login. *)

Known(k) == k # Null /\ server[k.s].state = "live"

(* The token is the last one, or the one before whose replacement is unused. *)
Rotates(k) == Known(k) /\ k.n \in {server[k.s].last - 1, server[k.s].last}

Rotated(k) == [s |-> k.s, n |-> server[k.s].last + 1]

MayIssue(s) == server[s].last + s <= MaxGen   \* the bound

(* The server takes a refresh: it rotates, refuses, or notices a reuse and   *)
(* ends the session; it may also be unavailable (5xx, 429) and do nothing.   *)
ServerRefresh(c) ==
    /\ c \in calls /\ c.answer = "none"
    /\ \/ /\ Rotates(c.token) /\ MayIssue(c.token.s)
          /\ calls' = (calls \ {c}) \cup {[c EXCEPT !.answer = "rotated", !.new = Rotated(c.token)]}
          /\ server' = [server EXCEPT ![c.token.s].last = @ + 1]
       \/ /\ Known(c.token) /\ ~Rotates(c.token)
          /\ calls' = (calls \ {c}) \cup {[c EXCEPT !.answer = "refused"]}
          /\ server' = [server EXCEPT ![c.token.s].state = "reused"]
       \/ /\ calls' = (calls \ {c}) \cup {[c EXCEPT !.answer = "refused"]}
          /\ UNCHANGED server
    /\ UNCHANGED <<mem, store, cookie, promise, boot, req, out, strays, lost>>

(* A refresh the page gave up reaches the server after all, beside or long   *)
(* after the next one.  Its answer goes nowhere.                             *)
StrayRefresh(k) ==
    /\ k \in strays /\ Known(k)
    /\ \/ /\ Rotates(k) /\ MayIssue(k.s) /\ lost < MaxLost
          /\ server' = [server EXCEPT ![k.s].last = @ + 1]
          /\ lost' = lost + 1
       \/ /\ ~Rotates(k)
          /\ server' = [server EXCEPT ![k.s].state = "reused"]
          /\ UNCHANGED lost
    /\ UNCHANGED <<mem, store, cookie, promise, calls, boot, req, out, strays>>

---------------------------------------------------------------------------
(* refreshAccessToken and doRefresh *)

CallWith(t, who, k) ==
    [tab |-> t, by |-> who, stage |-> IF k # Null THEN "body" ELSE "cookie",
     token |-> IF k # Null THEN k ELSE cookie, answer |-> "none", new |-> Null]

NewCall(t, who) ==
    CallWith(t, who, RefreshOf(t))

RefreshAlways(t, who) ==   \* mutant: refreshPromise is not looked at
    /\ promise' = [promise EXCEPT ![t] = TRUE]
    /\ calls' = calls \cup {NewCall(t, who)}

(* A caller that comes while refreshPromise is set shares it. *)
RefreshAccessToken(t, who) ==
    /\ promise' = [promise EXCEPT ![t] = TRUE]
    /\ calls' = IF promise[t] THEN calls ELSE calls \cup {NewCall(t, who)}

ResumeAsBefore(q, k) ==   \* mutant: sent again with the token it was sent with
    IF q.state # "waiting" THEN q
    ELSE IF k # Null THEN [q EXCEPT !.state = "sent", !.attempt = @ + 1]
                     ELSE IdleReq

(* What the waiting requests of t do with the outcome of the refresh. *)
ResumeRequest(q, k) ==
    IF q.state # "waiting" THEN q
    ELSE IF k # Null THEN [q EXCEPT !.state = "sent", !.attempt = @ + 1, !.token = k]
                     ELSE IdleReq

StillWaiting(t, k) ==   \* mutant: a refresh that fails does not end bootstrap()
    IF boot[t] = "waiting" /\ k # Null THEN "in" ELSE boot[t]

ResumeBootstrap(t, k) ==
    IF boot[t] # "waiting" THEN boot[t] ELSE IF k # Null THEN "in" ELSE "out"

ClearsOnFailure(t, k) == k = Null   \* mutant: a failed refresh signs the tab out

(* bootstrap() clears what is stored when nothing could be refreshed. *)
ClearsTokens(t, k) == boot[t] = "waiting" /\ k = Null

(* The promise of c.tab resolves to k: its continuations run.  m and s are   *)
(* the memory of the tab and the localStorage doRefresh left.                *)
Resolve(c, k, m, s) ==
    LET t == c.tab
        clear == ClearsTokens(t, k)
    IN  /\ calls' = calls \ {c}
        /\ promise' = [promise EXCEPT ![t] = FALSE]
        /\ mem' = [mem EXCEPT ![t] = IF clear THEN Nothing ELSE m]
        /\ store' = IF clear THEN Nothing ELSE s
        /\ req' = [req EXCEPT ![t] = [r \in Request |-> ResumeRequest(req[t][r], k)]]
        /\ boot' = [boot EXCEPT ![t] = ResumeBootstrap(t, k)]

WithoutRefresh(p) == [p EXCEPT !.refresh = Null]

(* The browser has token k now; a stray may have rotated it already.         *)
CaughtUp(k) ==
    /\ cookie' = k
    /\ lost' = IF k.n = server[k.s].last THEN 0 ELSE lost

KeepsOldRefresh(c) ==   \* mutant: the rotated refresh token is not taken over
    /\ c \in calls /\ c.answer = "rotated"
    /\ Resolve(c, c.new, [mem[c.tab] EXCEPT !.access = c.new], [store EXCEPT !.access = c.new])
    /\ lost' = 0
    /\ UNCHANGED <<cookie, out, server, strays>>

(* applyRefreshResult: the answer brings new tokens. *)
RefreshArrives(c) ==
    /\ c \in calls /\ c.answer = "rotated"
    /\ Resolve(c, c.new, Both(c.new), Both(c.new))
    /\ CaughtUp(c.new)
    /\ UNCHANGED <<out, server, strays>>

KeepsPromise(c) ==   \* mutant: the promise is only reset by a refresh that succeeds
    /\ c \in calls /\ c.stage = "cookie" /\ c.answer = "refused"
    /\ calls' = calls \ {c}
    /\ UNCHANGED <<mem, store, promise, boot, req, cookie, out, server, strays, lost>>

(* The token in the body is refused: it is forgotten, in this tab and in     *)
(* localStorage, and the cookie is tried.                                    *)
BodyRefused(c) ==
    /\ c \in calls /\ c.stage = "body" /\ c.answer = "refused"
    /\ mem' = [mem EXCEPT ![c.tab] = WithoutRefresh(@)]
    /\ store' = WithoutRefresh(store)
    /\ calls' = (calls \ {c}) \cup {[c EXCEPT !.stage = "cookie", !.token = cookie, !.answer = "none"]}
    /\ UNCHANGED <<cookie, promise, boot, req, out, server, strays, lost>>

CookieRefused(c) ==
    /\ c \in calls /\ c.stage = "cookie" /\ c.answer = "refused"
    /\ Resolve(c, Null, mem[c.tab], store)
    /\ UNCHANGED <<cookie, out, server, strays, lost>>

(* Refreshes the page stops waiting for.  One the server has not processed   *)
(* is lost on its way or processed later, at any time; when the server has   *)
(* rotated, the token is missed, unless the browser has read the Set-Cookie. *)
GiveUp(C) ==
    LET pending == {c \in C : c.answer = "none" /\ Known(c.token)}
        missed == {c \in C : c.answer = "rotated"}
    IN  /\ strays' \in {strays, strays \cup {c.token : c \in pending}}
        /\ Cardinality(strays') <= MaxStray
        /\ missed # {} => lost < MaxLost
        /\ lost' = IF missed # {} THEN lost + 1 ELSE lost
        /\ cookie' \in {cookie} \cup {c.new : c \in missed}

(* A network error or the timeout of the request, 5 s in bootstrap(): the    *)
(* refresh token that was presented is forgotten, the cookie is not tried.   *)
RefreshLost(c) ==
    /\ c \in calls
    /\ GiveUp({c})
    /\ LET body == c.stage = "body"
       IN  Resolve(c, Null,
                   IF body THEN WithoutRefresh(mem[c.tab]) ELSE mem[c.tab],
                   IF body THEN WithoutRefresh(store) ELSE store)
    /\ UNCHANGED <<out, server>>

---------------------------------------------------------------------------
(* What the pages and the context do. *)

(* migrateLegacySession, which AuthProvider runs before bootstrap(): a full  *)
(* set of token keys is taken out of localStorage.                           *)
Migrated(p) == IF p.access # Null /\ p.refresh # Null THEN Nothing ELSE p

(* The page is left, closed or reloaded: its module and what was under way   *)
(* in it are gone.                                                           *)
Unload(t) ==
    LET mine == {c \in calls : c.tab = t}
    IN  /\ boot[t] # "no"
        /\ GiveUp(mine)
        /\ calls' = calls \ mine
        /\ mem' = [mem EXCEPT ![t] = Nothing]
        /\ promise' = [promise EXCEPT ![t] = FALSE]
        /\ boot' = [boot EXCEPT ![t] = "no"]
        /\ req' = [req EXCEPT ![t] = [r \in Request |-> IdleReq]]
        /\ out' = [out EXCEPT ![t] = Null]
        /\ UNCHANGED <<store, server>>

(* A page load: the components below AuthProvider may send their requests,   *)
(* then its effects run up to bootstrap().                                   *)
Load(t) ==
    LET early == [IdleReq EXCEPT !.state = "sent", !.token = store.access]
    IN  /\ boot[t] = "no"
        /\ store' = Migrated(store)
        /\ promise' = [promise EXCEPT ![t] = TRUE]
        /\ calls' = calls \cup {CallWith(t, "bootstrap", Migrated(store).refresh)}
        /\ boot' = [boot EXCEPT ![t] = "waiting"]
        /\ \E q \in [Request -> {IdleReq, early}] : req' = [req EXCEPT ![t] = q]
        /\ UNCHANGED <<mem, cookie, out, server, strays, lost>>

(* AuthContext's periodic refresh and its refresh(). *)
AutoRefresh(t) ==
    /\ boot[t] # "no"
    /\ RefreshAccessToken(t, "autoRefresh")
    /\ UNCHANGED <<mem, store, cookie, boot, req, out, server, strays, lost>>

(* A login or a registration is answered: a new session. *)
Login(t) ==
    /\ boot[t] # "no"
    /\ \E s \in Session :
        LET k == [s |-> s, n |-> 1]
        IN  /\ server[s].state = "none"
            /\ \A z \in Session : server[z].state = "none" => s <= z
            /\ server' = [server EXCEPT ![s] = [last |-> 1, state |-> "live"]]
            /\ mem' = [mem EXCEPT ![t] = Both(k)]
            /\ store' = Both(k)
            /\ cookie' = k
    /\ UNCHANGED <<promise, calls, boot, req, out, strays, lost>>

StartLogout(t) ==
    /\ boot[t] # "no" /\ out[t] = Null
    /\ out' = [out EXCEPT ![t] = [stage |-> "sent", token |-> AccessOf(t)]]
    /\ UNCHANGED <<mem, store, cookie, promise, calls, boot, req, server, strays, lost>>

(* The server revokes the session of the access token, when that token is    *)
(* still accepted, and answers the same when it is not.                      *)
ServerLogout(t) ==
    /\ out[t] # Null /\ out[t].stage = "sent"
    /\ out' = [out EXCEPT ![t] = [stage |-> "answered", token |-> out[t].token]]
    /\ \/ /\ Known(out[t].token)
          /\ server' = [server EXCEPT ![out[t].token.s].state = "ended"]
       \/ UNCHANGED server
    /\ UNCHANGED <<mem, store, cookie, promise, calls, boot, req, strays, lost>>

(* clearStoredTokens, run when the logout is answered and when it fails. *)
ClearStoredTokens(t) ==
    /\ out' = [out EXCEPT ![t] = Null]
    /\ mem' = [mem EXCEPT ![t] = Nothing]
    /\ store' = Nothing
    /\ UNCHANGED <<promise, calls, boot, req, server, strays, lost>>

LogoutAnswered(t) ==
    /\ out[t] # Null /\ out[t].stage = "answered"
    /\ cookie' = Null
    /\ ClearStoredTokens(t)

LogoutFails(t) ==   \* a network error
    /\ out[t] # Null
    /\ ClearStoredTokens(t)
    /\ UNCHANGED cookie

---------------------------------------------------------------------------
(* fetchWithAuth *)

SendRequest(t, r) ==
    /\ boot[t] # "no" /\ req[t][r].state = "idle"
    /\ req' = [req EXCEPT ![t][r] = [IdleReq EXCEPT !.state = "sent", !.token = AccessOf(t)]]
    /\ UNCHANGED <<mem, store, cookie, promise, calls, boot, out, server, strays, lost>>

(* A 2xx, or an error other than 401: the request is over. *)
RequestAnswered(t, r) ==
    /\ req[t][r].state = "sent"
    /\ req' = [req EXCEPT ![t][r] = IdleReq]
    /\ UNCHANGED <<mem, store, cookie, promise, calls, boot, out, server, strays, lost>>

RefusedAgain(t, r) ==   \* mutant: every 401 refreshes and sends once more
    /\ req[t][r].state = "sent"
    /\ req' = [req EXCEPT ![t][r] = [@ EXCEPT !.state = "waiting", !.refused = req[t][r].token]]
    /\ RefreshAccessToken(t, r)
    /\ UNCHANGED <<mem, store, cookie, boot, out, server, strays, lost>>

(* A 401: the first time the request waits for a refresh, then it fails. *)
RequestRefused(t, r) ==
    /\ req[t][r].state = "sent"
    /\ IF req[t][r].attempt = 0
       THEN /\ req' = [req EXCEPT ![t][r] = [@ EXCEPT !.state = "waiting", !.refused = req[t][r].token]]
            /\ RefreshAccessToken(t, r)
       ELSE /\ req' = [req EXCEPT ![t][r] = IdleReq]
            /\ UNCHANGED <<promise, calls>>
    /\ UNCHANGED <<mem, store, cookie, boot, out, server, strays, lost>>

TokensNext ==
    \/ \E c \in calls : \/ ServerRefresh(c) \/ RefreshArrives(c)
                        \/ BodyRefused(c) \/ CookieRefused(c) \/ RefreshLost(c)
    \/ \E k \in strays : StrayRefresh(k)
    \/ \E t \in Tab :
        \/ Unload(t) \/ Load(t) \/ AutoRefresh(t) \/ Login(t)
        \/ StartLogout(t) \/ ServerLogout(t) \/ LogoutAnswered(t) \/ LogoutFails(t)
        \/ \E r \in Request : \/ SendRequest(t, r)
                              \/ RequestAnswered(t, r) \/ RequestRefused(t, r)

TokensSpec == TokensInit /\ [][TokensNext]_tokenVars

(* Every request has a timeout (mergeSignals), so each one is answered or    *)
(* given up; what the page does with an answer is never put off.             *)
Fairness ==
    /\ WF_tokenVars(\E c \in calls : ServerRefresh(c))
    /\ \A t \in Tab :
        /\ WF_tokenVars(\E c \in calls : c.tab = t /\ (RefreshArrives(c) \/ BodyRefused(c) \/ CookieRefused(c)))
        /\ \A r \in Request : WF_tokenVars(RequestAnswered(t, r) \/ RequestRefused(t, r))

FairTokensSpec == TokensSpec /\ Fairness

---------------------------------------------------------------------------
(* A tab has one refresh under way at most, whoever asked for it: the server *)
(* would take the same token twice, and rotate twice, for one expiry.        *)
SingleFlight == \A c, d \in calls : c.tab = d.tab => c = d

(* A request that is sent again carries a token other than the one that was  *)
(* refused: it cannot be refused for the same expiry, whatever refreshes,    *)
(* logins and logouts of this and the other tabs came in between.            *)
RetryIsFresh ==
    \A t \in Tab, r \in Request :
        req[t][r].state = "sent" /\ req[t][r].attempt = 1 => req[t][r].token # req[t][r].refused

(* In a browser with one tab, a refresh the page waits for never makes the   *)
(* server think that a token was stolen: the token it presents is the last   *)
(* one or the one before, whatever was reloaded, refused, given up or        *)
(* processed late, as long as the browser misses no two rotations in a row,  *)
(* those of abandoned refreshes included.  (An abandoned refresh that is     *)
(* processed after two later ones is taken for a theft: README, section 4.)  *)
OneTab == \A a, b \in Tab : a = b
KeepsFamily ==
    OneTab /\ MaxLost <= 1 =>
        \A c \in calls : c.answer = "none" /\ Known(c.token) => Rotates(c.token)

(* A refresh that fails leaves the access token where it is: only a logout,  *)
(* a page load or the bootstrap() waiting for that refresh take it away.     *)
(* tests/platform-api/auth.test.ts: "failed refresh preserves the client     *)
(* session and returns the original 401 flow without loops".                 *)
KeepsAccess ==
    [][\A t \in Tab : mem[t].access # Null /\ mem'[t].access = Null =>
          \/ out[t] # Null /\ out'[t] = Null
          \/ boot[t] = "waiting" \/ boot'[t] = "no"]_tokenVars

(* Seen from the code that shows the session, all of this is TokenService.  *)
Service == INSTANCE TokenService WITH
    Token <- Token,
    refreshing <- promise,
    leaving <- [t \in Tab |-> out[t] # Null]

KeepsService == Service!ServiceSpec

(* Every request of a page is settled in the end, or dropped with its page:  *)
(* none waits for a refresh nobody is doing.                                 *)
RequestsSettle ==
    \A t \in Tab, r \in Request :
        req[t][r].state \in {"sent", "waiting"} ~> req[t][r].state = "idle"
=============================================================================
