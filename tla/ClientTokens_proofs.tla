------------------------ MODULE ClientTokens_proofs -------------------------
(***************************************************************************)
(* Proofs about ClientTokens, for any number of tabs, requests, sessions,  *)
(* rotations and lost answers.                                             *)
(***************************************************************************)
EXTENDS ClientTokens, TLAPS

(* What the browser holds: in a module variable, in localStorage, in the     *)
(* cookie, in a request, or on its way to the server.                        *)
Holds(k) ==
    \/ \E t \in Tab : k = mem[t].access \/ k = mem[t].refresh
    \/ k = store.access \/ k = store.refresh \/ k = cookie
    \/ \E t \in Tab, r \in Request : k = req[t][r].token \/ k = req[t][r].refused
    \/ \E c \in calls : k = c.token

IssuedTo(k) == k # Null => k.n <= server[k.s].last

(* Every token was issued by the server. *)
Issued ==
    /\ \A k \in TokenOrNull : Holds(k) => IssuedTo(k)
    /\ \A c \in calls : IssuedTo(c.new)
    /\ \A s \in Session : server[s].state = "none" => server[s].last = 0

(* The token of an answer on its way is nowhere else. *)
Fresh ==
    \A c \in calls : c.new # Null => ~Holds(c.new) /\ \A d \in calls : d.new = c.new => d = c

CallsSound ==
    \A c \in calls : promise[c.tab] /\ (c.answer = "rotated" <=> c.new # Null)

(* A request waits once; a page that is not open has none, nor anything else *)
(* under way.                                                                *)
RequestsSound ==
    /\ \A t \in Tab, r \in Request :
        /\ req[t][r].state = "waiting" => req[t][r].attempt = 0
        /\ req[t][r].state # "idle" => boot[t] # "no"
    /\ \A t \in Tab : boot[t] = "no" => ~promise[t] /\ out[t] = Null /\ mem[t] = Nothing

IInv ==
    /\ TokensTypeOK /\ CallsSound /\ SingleFlight
    /\ Issued /\ Fresh
    /\ RequestsSound /\ RetryIsFresh

-----------------------------------------------------------------------------
(* Types of what the helpers build. *)
LEMMA PairTyped ==
    ASSUME TokensTypeOK, NEW k \in TokenOrNull, NEW p \in Pair
    PROVE  Nothing \in Pair /\ Both(k) \in Pair /\ WithoutRefresh(p) \in Pair /\ Migrated(p) \in Pair
           /\ WithoutRefresh(p).access = p.access /\ WithoutRefresh(p).refresh = Null
  BY DEF Nothing, Both, WithoutRefresh, Migrated, Pair, TokenOrNull

LEMMA HeldTyped ==
    ASSUME TokensTypeOK, NEW t \in Tab
    PROVE  /\ mem[t] \in Pair /\ mem[t].access \in TokenOrNull /\ mem[t].refresh \in TokenOrNull
           /\ store.access \in TokenOrNull /\ store.refresh \in TokenOrNull /\ cookie \in TokenOrNull
           /\ RefreshOf(t) \in TokenOrNull /\ AccessOf(t) \in TokenOrNull
           /\ Holds(RefreshOf(t)) /\ Holds(AccessOf(t)) /\ Holds(cookie)
  BY DEF TokensTypeOK, Pair, RefreshOf, AccessOf, Holds

LEMMA CallTyped ==
    ASSUME TokensTypeOK, NEW t \in Tab, NEW who \in Caller, NEW k \in TokenOrNull
    PROVE  /\ CallWith(t, who, k) \in Call
           /\ CallWith(t, who, k).tab = t /\ CallWith(t, who, k).new = Null
           /\ CallWith(t, who, k).answer = "none"
           /\ CallWith(t, who, k).token = k \/ CallWith(t, who, k).token = cookie
<1>1. cookie \in TokenOrNull /\ Null \in TokenOrNull
  BY DEF TokensTypeOK, TokenOrNull
<1> DEFINE st == IF k # Null THEN "body" ELSE "cookie"
           tk == IF k # Null THEN k ELSE cookie
<1>2. st \in {"body", "cookie"} /\ tk \in TokenOrNull /\ (tk = k \/ tk = cookie)
  BY <1>1
<1>3. CallWith(t, who, k) = [tab |-> t, by |-> who, stage |-> st, token |-> tk, answer |-> "none", new |-> Null]
  BY DEF CallWith
<1> HIDE DEF st, tk
<1> QED BY <1>1, <1>2, <1>3 DEF Call

LEMMA CallFields ==
    ASSUME TokensTypeOK, NEW c \in calls
    PROVE  /\ c \in Call /\ c.tab \in Tab /\ c.token \in TokenOrNull /\ c.new \in TokenOrNull
           /\ c.by \in Caller
  BY DEF TokensTypeOK, Call

LEMMA ReqTyped ==
    ASSUME TokensTypeOK, NEW t \in Tab, NEW r \in Request
    PROVE  /\ req[t][r] \in ReqState /\ req[t][r].token \in TokenOrNull /\ req[t][r].refused \in TokenOrNull
           /\ req[t][r].attempt \in 0 .. 1
  BY DEF TokensTypeOK, ReqState

LEMMA IdleTyped ==
    /\ IdleReq \in ReqState /\ IdleReq.state = "idle" /\ IdleReq.attempt = 0
    /\ IdleReq.token = Null /\ IdleReq.refused = Null
<1>1. Null \in TokenOrNull
  BY DEF TokenOrNull
<1> QED BY <1>1 DEF IdleReq, ReqState

(* How a waiting request goes on. *)
LEMMA ResumeTyped ==
    ASSUME NEW q \in ReqState, NEW k \in TokenOrNull, q.state = "waiting" => q.attempt = 0,
           NEW p, p = ResumeRequest(q, k)
    PROVE  /\ p \in ReqState /\ p.refused \in {Null, q.refused}
           /\ p.state # "waiting" /\ (p.state # "idle" => q.state # "idle" /\ p.refused = q.refused)
           /\ p.token \in {Null, q.token} \/ (p.token = k /\ k # Null)
           /\ p.state = "sent" /\ p.attempt = 1 =>
                \/ q.state = "sent" /\ q.attempt = 1 /\ p.token = q.token
                \/ p.token = k /\ k # Null
<1>1. CASE q.state # "waiting"
  <2>1. p = q
    BY <1>1 DEF ResumeRequest
  <2> QED BY <1>1, <2>1
<1>2. CASE q.state = "waiting" /\ k # Null
  <2> DEFINE a == q.attempt + 1
  <2>1. p = [q EXCEPT !.state = "sent", !.attempt = a, !.token = k]
    BY <1>2 DEF ResumeRequest
  <2>2. a \in 0 .. 1
    BY <1>2 DEF ReqState
  <2> HIDE DEF a
  <2>3. p \in ReqState /\ p.refused = q.refused /\ p.state = "sent" /\ p.token = k
    BY <2>1, <2>2 DEF ReqState
  <2> QED BY <1>2, <2>3
<1>3. CASE q.state = "waiting" /\ k = Null
  <2>1. p = IdleReq
    BY <1>3 DEF ResumeRequest
  <2> QED BY <1>3, <2>1, IdleTyped
<1> QED BY <1>1, <1>2, <1>3

(* The server only issues. *)
LEMMA ServerGrows ==
    ASSUME TokensTypeOK, NEW s \in Session
    PROVE  server[s] \in [last : 0 .. MaxGen, state : {"none", "live", "ended", "reused"}] /\ server[s].last \in Nat
  BY BoundsAssumption DEF TokensTypeOK

LEMMA MayRotate ==
    ASSUME TokensTypeOK, NEW s \in Session, MayIssue(s)
    PROVE  server[s].last \in Nat /\ server[s].last + 1 \in 1 .. MaxGen
<1>1. server[s].last \in Nat /\ s \in Nat /\ s >= 1 /\ MaxGen \in Nat /\ server[s].last + s <= MaxGen
  BY ServerGrows, BoundsAssumption DEF Session, MayIssue
<1> QED BY <1>1

(* A step that gives the browser nothing but k, which no answer on its way   *)
(* brings, keeps every token issued and every answer fresh.                  *)
LEMMA TokensKept ==
    ASSUME IInv, TokensTypeOK', NEW k \in TokenOrNull,
           \A x \in TokenOrNull : Holds(x)' => Holds(x) \/ x \in {Null, k},
           \A d \in calls' : d.new = Null \/ d \in calls,
           \A d \in calls' : k # Null => d.new # k,
           \A s \in Session : server'[s].last >= server[s].last,
           \A s \in Session : server'[s].state = "none" => server[s].state = "none" /\ server'[s].last = 0,
           k # Null => k.n <= server'[k.s].last
    PROVE  Issued' /\ Fresh'
<1>1. \A x \in TokenOrNull : IssuedTo(x) => IssuedTo(x)'
  <2> SUFFICES ASSUME NEW x \in Token, x.n <= server[x.s].last PROVE x.n <= server'[x.s].last
    BY DEF IssuedTo, TokenOrNull
  <2>1. x.n \in Nat /\ x.s \in Session
    BY DEF Token
  <2>2. server[x.s].last \in Nat /\ server'[x.s].last \in Nat /\ server'[x.s].last >= server[x.s].last
    BY <2>1, BoundsAssumption DEF IInv, TokensTypeOK
  <2> QED BY <2>1, <2>2
<1>2. \A x \in TokenOrNull : Holds(x)' => IssuedTo(x)'
  <2> SUFFICES ASSUME NEW x \in TokenOrNull, Holds(x)' PROVE IssuedTo(x)'
    OBVIOUS
  <2>1. CASE Holds(x)
    BY <1>1, <2>1 DEF IInv, Issued
  <2>2. CASE x \in {Null, k}
    BY <2>2 DEF IssuedTo
  <2> QED BY <2>1, <2>2
<1>3. \A d \in calls' : d.new \in TokenOrNull /\ IssuedTo(d.new)'
  <2> SUFFICES ASSUME NEW d \in calls' PROVE d.new \in TokenOrNull /\ IssuedTo(d.new)'
    OBVIOUS
  <2>1. d.new \in TokenOrNull
    BY CallFields DEF TokensTypeOK, Call
  <2>2. CASE d.new = Null
    BY <2>1, <2>2 DEF IssuedTo
  <2>3. CASE d \in calls
    BY <1>1, <2>1, <2>3 DEF IInv, Issued
  <2> QED BY <2>1, <2>2, <2>3
<1>4. Fresh'
  <2> SUFFICES ASSUME NEW c \in calls', c.new # Null
               PROVE  ~Holds(c.new)' /\ \A d \in calls' : d.new = c.new => d = c
    BY DEF Fresh
  <2>1. c \in calls /\ c.new \in TokenOrNull /\ c.new # k
    BY <1>3
  <2>2. ~Holds(c.new) /\ \A d \in calls : d.new = c.new => d = c
    BY <2>1 DEF IInv, Fresh
  <2> QED BY <2>1, <2>2
<1> QED BY <1>2, <1>3, <1>4 DEF Issued

-----------------------------------------------------------------------------
LEMMA InitInv == TokensInit => IInv
<1> SUFFICES ASSUME TokensInit PROVE IInv
  OBVIOUS
<1>1. 1 \in Session /\ [s |-> 1, n |-> 1] \in Token /\ Null \in TokenOrNull
  BY BoundsAssumption DEF Session, Token, TokenOrNull
<1>2. PICK in \in BOOLEAN :
        /\ store = IF in THEN Both([s |-> 1, n |-> 1]) ELSE Nothing
        /\ cookie = IF in THEN [s |-> 1, n |-> 1] ELSE Null
        /\ server = [s \in Session |-> IF in /\ s = 1 THEN [last |-> 1, state |-> "live"]
                                                      ELSE [last |-> 0, state |-> "none"]]
  BY DEF TokensInit
<1>3. PICK k \in TokenOrNull :
        /\ store = [access |-> k, refresh |-> k] /\ cookie = k
        /\ k # Null => k.n = 1 /\ server[k.s].last = 1
  <2>1. CASE in
    <3>1. store = [access |-> [s |-> 1, n |-> 1], refresh |-> [s |-> 1, n |-> 1]] /\ cookie = [s |-> 1, n |-> 1]
      BY <1>2, <2>1 DEF Both
    <3>2. server[1].last = 1 /\ [s |-> 1, n |-> 1] \in TokenOrNull
      BY <1>1, <1>2, <2>1 DEF TokenOrNull
    <3> QED BY <3>1, <3>2
  <2>2. CASE ~in
    BY <1>1, <1>2, <2>2 DEF Nothing
  <2> QED BY <2>1, <2>2
<1>4. /\ \A t \in Tab : mem[t] = Nothing
      /\ \A t \in Tab, r \in Request : req[t][r] = IdleReq
      /\ calls = {}
  BY DEF TokensInit
<1>5. TokensTypeOK
  <2>1. Nothing \in Pair /\ store \in Pair /\ cookie \in TokenOrNull
    BY <1>1, <1>3 DEF Nothing, Pair
  <2>2. IdleReq \in ReqState
    BY <1>1 DEF IdleReq, ReqState
  <2>3. server \in [Session -> [last : 0 .. MaxGen, state : {"none", "live", "ended", "reused"}]]
    <3>1. /\ [last |-> 1, state |-> "live"] \in [last : 0 .. MaxGen, state : {"none", "live", "ended", "reused"}]
          /\ [last |-> 0, state |-> "none"] \in [last : 0 .. MaxGen, state : {"none", "live", "ended", "reused"}]
      BY BoundsAssumption
    <3> QED BY <1>2, <3>1
  <2>4. mem \in [Tab -> Pair] /\ promise \in [Tab -> BOOLEAN] /\ calls \subseteq Call
        /\ boot \in [Tab -> {"no", "waiting", "in", "out"}] /\ out \in [Tab -> Logout \cup {Null}]
    BY <2>1 DEF TokensInit
  <2>5. req \in [Tab -> [Request -> ReqState]] /\ lost \in 0 .. MaxLost
    BY <2>2, BoundsAssumption DEF TokensInit
  <2>6. strays \subseteq Token
    BY DEF TokensInit
  <2> QED BY <2>1, <2>3, <2>4, <2>5, <2>6 DEF TokensTypeOK
<1>6. \A x : Holds(x) => x \in {Null, k}
  BY <1>3, <1>4 DEF Holds, Nothing, IdleReq
<1>7. Issued
  <2>1. IssuedTo(k) /\ IssuedTo(Null)
    BY <1>3 DEF IssuedTo
  <2>2. \A s \in Session : server[s].state = "none" => server[s].last = 0
    BY <1>2
  <2> QED BY <1>4, <1>6, <2>1, <2>2 DEF Issued
<1>8. CallsSound /\ SingleFlight /\ Fresh /\ RequestsSound /\ RetryIsFresh
  <2>1. \A t \in Tab : ~promise[t] /\ out[t] = Null
    BY DEF TokensInit
  <2> QED BY <1>4, <2>1 DEF CallsSound, SingleFlight, Fresh, RequestsSound, RetryIsFresh, IdleReq
<1> QED BY <1>5, <1>7, <1>8 DEF IInv

(* The refresh of a tab resolves: its requests go on with the new token.     *)
LEMMA ResolveKeeps ==
    ASSUME IInv, NEW c \in calls, NEW k \in {Null, c.new}, NEW m \in Pair, NEW s \in Pair,
           Resolve(c, k, m, s), UNCHANGED <<out, server>>,
           lost' \in 0 .. MaxLost, cookie' \in TokenOrNull, strays' \subseteq Token,
           \A x \in {m.access, m.refresh, s.access, s.refresh, cookie'} : Holds(x) \/ x \in {Null, c.new}
    PROVE  IInv'
<1> DEFINE t == c.tab
<1>1. t \in Tab /\ k \in TokenOrNull /\ c.new \in TokenOrNull /\ Nothing \in Pair /\ TokensTypeOK
  BY CallFields DEF IInv, TokenOrNull, Nothing, Pair
<1>2. calls' = calls \ {c} /\ promise' = [promise EXCEPT ![t] = FALSE]
      /\ boot' = [boot EXCEPT ![t] = ResumeBootstrap(t, k)]
  BY DEF Resolve
<1>3. PICK mm \in {Nothing, m}, ss \in {Nothing, s} : mem' = [mem EXCEPT ![t] = mm] /\ store' = ss
  BY DEF Resolve
<1>4. req' = [req EXCEPT ![t] = [r \in Request |-> ResumeRequest(req[t][r], k)]]
  BY DEF Resolve
<1>5. ASSUME NEW x \in Tab, NEW r \in Request
      PROVE  /\ req'[x][r] \in ReqState /\ req'[x][r].refused \in {Null, req[x][r].refused}
             /\ req'[x][r].state = "waiting" => req'[x][r].attempt = 0
             /\ req'[x][r].state # "idle" =>
                    req[x][r].state # "idle" /\ req'[x][r].refused = req[x][r].refused
             /\ \/ req'[x][r].token \in {Null, req[x][r].token}
                \/ req'[x][r].token = c.new /\ c.new # Null
             /\ req'[x][r].state = "sent" /\ req'[x][r].attempt = 1 =>
                  \/ req[x][r].state = "sent" /\ req[x][r].attempt = 1 /\ req'[x][r].token = req[x][r].token
                  \/ req'[x][r].token = c.new /\ c.new # Null
  <2>1. req[x][r] \in ReqState /\ (req[x][r].state = "waiting" => req[x][r].attempt = 0)
    BY ReqTyped DEF IInv, RequestsSound
  <2>2. CASE x = t
    <3>1. req'[x][r] = ResumeRequest(req[x][r], k)
      BY <1>1, <1>4, <2>2 DEF TokensTypeOK
    <3> QED BY <1>1, <2>1, <3>1, ResumeTyped
  <2>3. CASE x # t
    <3>1. req'[x][r] = req[x][r]
      BY <1>1, <1>4, <2>3 DEF TokensTypeOK
    <3> QED BY <2>1, <3>1
  <2> QED BY <2>2, <2>3
<1>6. TokensTypeOK'
  <2>1. mem' \in [Tab -> Pair] /\ store' \in Pair /\ calls' \subseteq Call /\ promise' \in [Tab -> BOOLEAN]
    BY <1>1, <1>2, <1>3 DEF TokensTypeOK
  <2>2. ResumeBootstrap(t, k) \in {"no", "waiting", "in", "out"}
    BY <1>1 DEF ResumeBootstrap, TokensTypeOK
  <2>3. boot' \in [Tab -> {"no", "waiting", "in", "out"}]
    BY <1>1, <1>2, <2>2 DEF TokensTypeOK
  <2>4. req' \in [Tab -> [Request -> ReqState]]
    <3>1. [r \in Request |-> ResumeRequest(req[t][r], k)] \in [Request -> ReqState]
      <4> SUFFICES ASSUME NEW r \in Request PROVE ResumeRequest(req[t][r], k) \in ReqState
        OBVIOUS
      <4>1. req[t][r] \in ReqState /\ (req[t][r].state = "waiting" => req[t][r].attempt = 0)
        BY <1>1, ReqTyped DEF IInv, RequestsSound
      <4> QED BY <1>1, <4>1, ResumeTyped
    <3> QED BY <1>1, <1>4, <3>1 DEF TokensTypeOK
  <2> QED BY <1>1, <2>1, <2>3, <2>4 DEF TokensTypeOK
<1>7. \A x \in TokenOrNull : Holds(x)' => Holds(x) \/ x \in {Null, c.new}
  <2> SUFFICES ASSUME NEW x \in TokenOrNull, Holds(x)' PROVE Holds(x) \/ x \in {Null, c.new}
    OBVIOUS
  <2>1. CASE \E y \in Tab : x = mem'[y].access \/ x = mem'[y].refresh
    <3>1. PICK y \in Tab : x = mem'[y].access \/ x = mem'[y].refresh
      BY <2>1
    <3>2. mem'[y] = mm \/ mem'[y] = mem[y]
      BY <1>1, <1>3 DEF TokensTypeOK
    <3> QED BY <3>1, <3>2 DEF Holds, Nothing
  <2>2. CASE x = store'.access \/ x = store'.refresh \/ x = cookie'
    BY <1>3, <2>2 DEF Nothing
  <2>3. CASE \E y \in Tab, r \in Request : x = req'[y][r].token \/ x = req'[y][r].refused
    BY <1>5, <2>3 DEF Holds
  <2>4. CASE \E d \in calls' : x = d.token
    BY <1>2, <2>4 DEF Holds
  <2> QED BY <2>1, <2>2, <2>3, <2>4 DEF Holds
<1>8. Issued' /\ Fresh'
  <2>1. \A d \in calls' : c.new # Null => d.new # c.new
    BY <1>2 DEF IInv, Fresh
  <2>2. c.new # Null => c.new.n <= server'[c.new.s].last
    BY DEF IInv, Issued, IssuedTo
  <2>3. \A z \in Session : server'[z].last >= server[z].last
    BY ServerGrows DEF IInv
  <2>4. \A z \in Session : server'[z].state = "none" => server[z].state = "none" /\ server'[z].last = 0
    BY DEF IInv, Issued
  <2> QED BY <1>1, <1>2, <1>6, <1>7, <2>1, <2>2, <2>3, <2>4, TokensKept
<1>9. CallsSound' /\ SingleFlight'
  <2> SUFFICES ASSUME NEW d \in calls, d # c PROVE promise'[d.tab]
    BY <1>2 DEF IInv, CallsSound, SingleFlight
  <2>1. d.tab \in Tab /\ d.tab # t /\ promise[d.tab]
    BY CallFields DEF IInv, SingleFlight, CallsSound
  <2> QED BY <1>2, <2>1 DEF IInv, TokensTypeOK
<1>10. RequestsSound'
  <2>1. \A x \in Tab : boot[x] # "no" <=> boot'[x] # "no"
    BY <1>1, <1>2 DEF TokensTypeOK, ResumeBootstrap
  <2>2. ASSUME NEW x \in Tab, NEW r \in Request
        PROVE  /\ req'[x][r].state = "waiting" => req'[x][r].attempt = 0
               /\ req'[x][r].state # "idle" => boot'[x] # "no"
    BY <1>5, <2>1, <2>2 DEF IInv, RequestsSound
  <2>3. ASSUME NEW x \in Tab, boot'[x] = "no" PROVE ~promise'[x] /\ out'[x] = Null /\ mem'[x] = Nothing
    <3>1. ~promise[x] /\ out[x] = Null /\ mem[x] = Nothing
      BY <2>1, <2>3 DEF IInv, RequestsSound
    <3>2. x # t
      BY <3>1 DEF IInv, CallsSound
    <3> QED BY <1>1, <1>2, <1>3, <3>1, <3>2 DEF TokensTypeOK
  <2> QED BY <2>2, <2>3 DEF RequestsSound
<1>11. RetryIsFresh'
  <2> SUFFICES ASSUME NEW x \in Tab, NEW r \in Request, req'[x][r].state = "sent", req'[x][r].attempt = 1
               PROVE  req'[x][r].token # req'[x][r].refused
    BY DEF RetryIsFresh
  <2>1. c.new # Null => c.new # req[x][r].refused
    BY DEF IInv, Fresh, Holds
  <2> QED BY <1>5, <2>1 DEF IInv, RetryIsFresh
<1> QED BY <1>6, <1>8, <1>9, <1>10, <1>11 DEF IInv

LEMMA ArrivesKeeps == ASSUME IInv, NEW c \in calls, RefreshArrives(c) PROVE IInv'
<1>1. c.new \in TokenOrNull /\ Both(c.new) \in Pair /\ Both(c.new).access = c.new /\ Both(c.new).refresh = c.new
  BY CallFields DEF IInv, Both, Pair
<1>2. Resolve(c, c.new, Both(c.new), Both(c.new)) /\ UNCHANGED <<out, server, strays>>
      /\ cookie' = c.new /\ lost' \in {0, lost}
  BY DEF RefreshArrives, CaughtUp
<1>3. lost' \in 0 .. MaxLost /\ strays' \subseteq Token
  BY <1>2, BoundsAssumption DEF IInv, TokensTypeOK
<1> QED BY <1>1, <1>2, <1>3, ResolveKeeps

LEMMA CookieRefusedKeeps == ASSUME IInv, NEW c \in calls, CookieRefused(c) PROVE IInv'
<1>1. Resolve(c, Null, mem[c.tab], store) /\ UNCHANGED <<cookie, out, server, strays, lost>>
  BY DEF CookieRefused
<1>2. c.tab \in Tab /\ mem[c.tab] \in Pair /\ store \in Pair /\ cookie' \in TokenOrNull /\ lost' \in 0 .. MaxLost
      /\ strays' \subseteq Token
  BY <1>1, CallFields DEF IInv, TokensTypeOK
<1>3. \A x \in {mem[c.tab].access, mem[c.tab].refresh, store.access, store.refresh, cookie'} : Holds(x)
  BY <1>1, <1>2 DEF Holds
<1> QED BY <1>1, <1>2, <1>3, ResolveKeeps

(* What is left of refreshes that are given up. *)
LEMMA GivenUpTyped ==
    ASSUME IInv, NEW C \in SUBSET calls, GiveUp(C)
    PROVE  /\ strays' \subseteq Token /\ lost' \in 0 .. MaxLost
           /\ cookie' = cookie \/ \E c \in C : c.answer = "rotated" /\ cookie' = c.new
           /\ (\E c \in C : c.answer = "rotated") => lost' = lost + 1
           /\ (\A c \in C : c.answer # "rotated") => lost' = lost
<1> DEFINE pending == {c \in C : c.answer = "none" /\ Known(c.token)}
           missed == {c \in C : c.answer = "rotated"}
<1>1. /\ strays' \in {strays, strays \cup {c.token : c \in pending}}
      /\ missed # {} => lost < MaxLost
      /\ lost' = IF missed # {} THEN lost + 1 ELSE lost
      /\ cookie' \in {cookie} \cup {c.new : c \in missed}
  BY DEF GiveUp
<1>2. lost \in 0 .. MaxLost /\ strays \subseteq Token /\ \A c \in calls : c.token \in TokenOrNull
  BY CallFields DEF IInv, TokensTypeOK
<1>3. \A c \in pending : c.token \in Token
  BY <1>2 DEF Known, TokenOrNull
<1>4. lost' \in 0 .. MaxLost
  BY <1>1, <1>2, BoundsAssumption
<1>5. cookie' = cookie \/ \E c \in C : c.answer = "rotated" /\ cookie' = c.new
  BY <1>1
<1> QED BY <1>1, <1>2, <1>3, <1>4, <1>5

LEMMA LostKeeps == ASSUME IInv, NEW c \in calls, RefreshLost(c) PROVE IInv'
<1>1. c.tab \in Tab /\ mem[c.tab] \in Pair /\ store \in Pair /\ c.new \in TokenOrNull /\ Null \in TokenOrNull
      /\ TokensTypeOK
  BY CallFields DEF IInv, TokensTypeOK, TokenOrNull
<1>2. PICK m \in {WithoutRefresh(mem[c.tab]), mem[c.tab]}, s \in {WithoutRefresh(store), store} :
         Resolve(c, Null, m, s)
  BY DEF RefreshLost
<1>3. UNCHANGED <<out, server>> /\ GiveUp({c})
  BY DEF RefreshLost
<1>4. /\ m \in Pair /\ m.access = mem[c.tab].access /\ m.refresh \in {Null, mem[c.tab].refresh}
      /\ s \in Pair /\ s.access = store.access /\ s.refresh \in {Null, store.refresh}
  BY <1>1, PairTyped
<1>5. cookie' \in {cookie, c.new} /\ lost' \in 0 .. MaxLost /\ strays' \subseteq Token
  <2>1. cookie' = cookie \/ \E d \in {c} : cookie' = d.new
    BY <1>3, GivenUpTyped
  <2> QED BY <1>3, <2>1, GivenUpTyped
<1>6. \A x \in {m.access, m.refresh, s.access, s.refresh, cookie'} : Holds(x) \/ x \in {Null, c.new}
  BY <1>1, <1>5, <1>4 DEF Holds
<1>7. cookie' \in TokenOrNull
  BY <1>1, <1>5 DEF TokensTypeOK
<1> QED BY <1>7, <1>2, <1>3, <1>4, <1>5, <1>6, ResolveKeeps

(* A refresh that is asked for is the one under way, or the first.           *)
LEMMA RefreshAsked ==
    ASSUME IInv, NEW t \in Tab, NEW who \in Caller, RefreshAccessToken(t, who)
    PROVE  /\ calls' \subseteq Call /\ promise' \in [Tab -> BOOLEAN]
           /\ \A d \in calls' : d \in calls \/ d.new = Null
           /\ \A d \in calls' : Holds(d.token)
           /\ \A x \in Tab : promise'[x] <=> promise[x] \/ x = t
           /\ CallsSound' /\ SingleFlight'
<1> DEFINE k == RefreshOf(t)
           n == CallWith(t, who, k)
<1>1. k \in TokenOrNull /\ Holds(k) /\ Holds(cookie) /\ TokensTypeOK
  BY HeldTyped DEF IInv
<1>2. n \in Call /\ n.tab = t /\ n.new = Null /\ n.answer = "none" /\ (n.token = k \/ n.token = cookie)
  BY <1>1, CallTyped
<1> HIDE DEF n
<1>3. promise' = [promise EXCEPT ![t] = TRUE] /\ calls' = IF promise[t] THEN calls ELSE calls \cup {n}
  BY DEF RefreshAccessToken, NewCall, n
<1>4. promise' \in [Tab -> BOOLEAN] /\ \A x \in Tab : promise'[x] <=> promise[x] \/ x = t
  BY <1>1, <1>3 DEF TokensTypeOK
<1>5. \A d \in calls : d.tab \in Tab /\ promise[d.tab] /\ (d.answer = "rotated" <=> d.new # Null) /\ Holds(d.token)
  BY <1>1, CallFields DEF IInv, CallsSound, Holds
<1>6. CASE promise[t]
  BY <1>1, <1>3, <1>4, <1>5, <1>6 DEF IInv, CallsSound, SingleFlight, TokensTypeOK
<1>7. CASE ~promise[t]
  <2>1. calls' = calls \cup {n} /\ \A d \in calls : d.tab # t
    BY <1>3, <1>5, <1>7
  <2>2. SingleFlight'
    BY <1>2, <2>1 DEF IInv, SingleFlight
  <2>3. CallsSound'
    BY <1>2, <1>4, <1>5, <2>1 DEF CallsSound
  <2> QED BY <1>1, <1>2, <1>4, <1>5, <2>1, <2>2, <2>3 DEF TokensTypeOK
<1> QED BY <1>6, <1>7

(* A step that issues no token to the browser. *)
LEMMA SameTokens ==
    ASSUME IInv, TokensTypeOK',
           \A x \in TokenOrNull : Holds(x)' => Holds(x) \/ x = Null,
           \A d \in calls' : d \in calls \/ d.new = Null,
           \A s \in Session : server'[s].last = server[s].last,
           \A s \in Session : server'[s].state = "none" => server[s].state = "none"
    PROVE  Issued' /\ Fresh'
<1>1. Null \in TokenOrNull
  BY DEF TokenOrNull
<1>2. \A s \in Session : server'[s].last >= server[s].last
  BY ServerGrows DEF IInv
<1>3. \A s \in Session : server'[s].state = "none" => server[s].state = "none" /\ server'[s].last = 0
  BY DEF IInv, Issued
<1> QED BY <1>1, <1>2, <1>3, TokensKept

LEMMA AutoKeeps == ASSUME IInv, NEW t \in Tab, AutoRefresh(t) PROVE IInv'
<1>1. /\ UNCHANGED <<mem, store, cookie, boot, req, out, server, strays, lost>>
      /\ RefreshAccessToken(t, "autoRefresh") /\ boot[t] # "no"
  BY DEF AutoRefresh
<1>2. "autoRefresh" \in Caller
  BY DEF Caller, Direct
<1>3. TokensTypeOK'
  BY <1>1, <1>2, RefreshAsked DEF IInv, TokensTypeOK
<1>4. \A x \in TokenOrNull : Holds(x)' => Holds(x)
  <2>1. \A d \in calls' : Holds(d.token)
    BY <1>1, <1>2, RefreshAsked
  <2> QED BY <1>1, <2>1 DEF Holds
<1>5. Issued' /\ Fresh'
  BY <1>1, <1>2, <1>3, <1>4, RefreshAsked, SameTokens
<1> QED BY <1>1, <1>2, <1>3, <1>5, RefreshAsked DEF IInv, RequestsSound, RetryIsFresh

LEMMA RefusedKeeps == ASSUME IInv, NEW t \in Tab, NEW r \in Request, RequestRefused(t, r) PROVE IInv'
<1>1. UNCHANGED <<mem, store, cookie, boot, out, server, strays, lost>> /\ req[t][r].state = "sent"
  BY DEF RequestRefused
<1>2. PICK q : /\ req' = [req EXCEPT ![t][r] = q]
               /\ q \in ReqState /\ q.token \in {Null, req[t][r].token}
               /\ q.refused \in {Null, req[t][r].refused, req[t][r].token}
               /\ q.state \in {"waiting", "idle"} /\ (q.state = "waiting" => q.attempt = 0)
  <2> DEFINE o == req[t][r]
             k == req[t][r].token
  <2>1. o \in ReqState /\ k \in TokenOrNull
    BY ReqTyped DEF IInv
  <2>2. CASE o.attempt = 0
    <3> DEFINE q == [o EXCEPT !.state = "waiting", !.refused = k]
    <3>1. req' = [req EXCEPT ![t][r] = q]
      BY <2>2 DEF RequestRefused
    <3>2. q \in ReqState /\ q.token = o.token /\ q.refused = k /\ q.state = "waiting" /\ q.attempt = o.attempt
      <4> HIDE DEF o, k
      <4> QED BY <2>1 DEF ReqState
    <3> QED BY <2>2, <3>1, <3>2
  <2>3. CASE o.attempt # 0
    <3>1. req' = [req EXCEPT ![t][r] = IdleReq]
      BY <2>3 DEF RequestRefused
    <3> QED BY <3>1, IdleTyped
  <2> QED BY <2>2, <2>3
<1>3. /\ calls' \subseteq Call /\ promise' \in [Tab -> BOOLEAN]
      /\ \A d \in calls' : d \in calls \/ d.new = Null
      /\ \A d \in calls' : Holds(d.token)
      /\ \A x \in Tab : promise'[x] => promise[x] \/ x = t
      /\ CallsSound' /\ SingleFlight'
  <2>1. CASE req[t][r].attempt = 0
    <3>1. RefreshAccessToken(t, r) /\ r \in Caller
      BY <2>1 DEF RequestRefused, Caller
    <3> QED BY <3>1, RefreshAsked
  <2>2. CASE req[t][r].attempt # 0
    <3>1. UNCHANGED <<promise, calls>>
      BY <2>2 DEF RequestRefused
    <3> QED BY <3>1 DEF IInv, TokensTypeOK, CallsSound, SingleFlight, Holds
  <2> QED BY <2>1, <2>2
<1>4. /\ req' \in [Tab -> [Request -> ReqState]] /\ req'[t][r] = q
      /\ \A x \in Tab, y \in Request : x # t \/ y # r => req'[x][y] = req[x][y]
  BY <1>2 DEF IInv, TokensTypeOK
<1>5. TokensTypeOK'
  BY <1>1, <1>3, <1>4 DEF IInv, TokensTypeOK
<1>6. \A x \in TokenOrNull : Holds(x)' => Holds(x) \/ x = Null
  <2> SUFFICES ASSUME NEW x \in TokenOrNull, Holds(x)' PROVE Holds(x) \/ x = Null
    OBVIOUS
  <2>1. CASE \E y \in Tab, z \in Request : x = req'[y][z].token \/ x = req'[y][z].refused
    <3>1. PICK y \in Tab, z \in Request : x = req'[y][z].token \/ x = req'[y][z].refused
      BY <2>1
    <3>2. CASE y = t /\ z = r
      BY <1>2, <1>4, <3>1, <3>2 DEF Holds
    <3>3. CASE y # t \/ z # r
      BY <1>4, <3>1, <3>3 DEF Holds
    <3> QED BY <3>2, <3>3
  <2>2. CASE \E d \in calls' : x = d.token
    BY <1>3, <2>2
  <2> QED BY <1>1, <2>1, <2>2 DEF Holds
<1>7. Issued' /\ Fresh'
  BY <1>1, <1>3, <1>5, <1>6, SameTokens
<1>8. RequestsSound' /\ RetryIsFresh'
  <2>1. boot[t] # "no"
    BY <1>1 DEF IInv, RequestsSound
  <2>2. ASSUME NEW x \in Tab, NEW y \in Request
        PROVE  /\ req'[x][y].state = "waiting" => req'[x][y].attempt = 0
               /\ req'[x][y].state # "idle" => boot'[x] # "no"
    BY <1>1, <1>2, <1>4, <2>1 DEF IInv, RequestsSound
  <2>3. ASSUME NEW x \in Tab, boot'[x] = "no" PROVE ~promise'[x] /\ out'[x] = Null /\ mem'[x] = Nothing
    BY <1>1, <1>3, <2>1, <2>3 DEF IInv, RequestsSound
  <2>4. RetryIsFresh'
    BY <1>2, <1>4 DEF IInv, RetryIsFresh
  <2> QED BY <2>2, <2>3, <2>4 DEF RequestsSound
<1> QED BY <1>3, <1>5, <1>7, <1>8 DEF IInv

LEMMA SentKeeps ==
    ASSUME IInv, NEW t \in Tab, NEW r \in Request, SendRequest(t, r) \/ RequestAnswered(t, r)
    PROVE  IInv'
<1>1. UNCHANGED <<mem, store, cookie, promise, calls, boot, out, server, strays, lost>>
  BY DEF SendRequest, RequestAnswered
<1>2. PICK q : /\ req' = [req EXCEPT ![t][r] = q]
               /\ q \in ReqState /\ (q.token = Null \/ Holds(q.token)) /\ q.refused = Null
               /\ q.state \in {"sent", "idle"} /\ (q.state = "sent" => q.attempt = 0)
               /\ boot[t] # "no"
  <2>1. CASE SendRequest(t, r)
    <3> DEFINE k == AccessOf(t)
               q == [IdleReq EXCEPT !.state = "sent", !.token = k]
    <3>1. req' = [req EXCEPT ![t][r] = q] /\ boot[t] # "no"
      BY <2>1 DEF SendRequest
    <3>2. k \in TokenOrNull /\ Holds(k) /\ Null \in TokenOrNull
      BY HeldTyped DEF IInv, TokenOrNull
    <3>3. q \in ReqState /\ q.token = k /\ q.refused = Null /\ q.state = "sent" /\ q.attempt = 0
      <4> HIDE DEF k
      <4>1. IdleReq \in ReqState /\ IdleReq.attempt = 0 /\ IdleReq.refused = Null
        BY <3>2 DEF IdleReq, ReqState
      <4> QED BY <3>2, <4>1 DEF ReqState
    <3> QED BY <3>1, <3>2, <3>3
  <2>2. CASE RequestAnswered(t, r)
    <3>1. req' = [req EXCEPT ![t][r] = IdleReq] /\ boot[t] # "no"
      BY <2>2 DEF RequestAnswered, IInv, RequestsSound
    <3> QED BY <3>1, IdleTyped
  <2> QED BY <2>1, <2>2
<1>3. /\ req' \in [Tab -> [Request -> ReqState]] /\ req'[t][r] = q
      /\ \A x \in Tab, y \in Request : x # t \/ y # r => req'[x][y] = req[x][y]
  BY <1>2 DEF IInv, TokensTypeOK
<1>4. TokensTypeOK'
  BY <1>1, <1>3 DEF IInv, TokensTypeOK
<1>5. \A x \in TokenOrNull : Holds(x)' => Holds(x) \/ x = Null
  <2> SUFFICES ASSUME NEW x \in TokenOrNull, Holds(x)' PROVE Holds(x) \/ x = Null
    OBVIOUS
  <2>1. CASE \E y \in Tab, z \in Request : x = req'[y][z].token \/ x = req'[y][z].refused
    <3>1. PICK y \in Tab, z \in Request : x = req'[y][z].token \/ x = req'[y][z].refused
      BY <2>1
    <3>2. CASE y = t /\ z = r
      BY <1>2, <1>3, <3>1, <3>2
    <3>3. CASE y # t \/ z # r
      BY <1>3, <3>1, <3>3 DEF Holds
    <3> QED BY <3>2, <3>3
  <2> QED BY <1>1, <2>1 DEF Holds
<1>6. Issued' /\ Fresh'
  BY <1>1, <1>4, <1>5, SameTokens
<1>7. RequestsSound' /\ RetryIsFresh'
  BY <1>1, <1>2, <1>3 DEF IInv, RequestsSound, RetryIsFresh
<1> QED BY <1>1, <1>4, <1>6, <1>7 DEF IInv, CallsSound, SingleFlight

(* The server answers call c with d. *)
LEMMA AnswerStep ==
    ASSUME IInv, NEW c \in calls, NEW d, calls' = (calls \ {c}) \cup {d},
           d \in Call, d.tab = c.tab, d.answer = "rotated" <=> d.new # Null,
           UNCHANGED <<mem, store, cookie, promise, boot, req, out, strays, lost>>,
           server' \in [Session -> [last : 0 .. MaxGen, state : {"none", "live", "ended", "reused"}]],
           Issued', Fresh'
    PROVE  IInv'
<1>1. TokensTypeOK'
  BY DEF IInv, TokensTypeOK
<1>2. CallsSound' /\ SingleFlight'
  BY DEF IInv, CallsSound, SingleFlight
<1>3. RequestsSound' /\ RetryIsFresh'
  BY DEF IInv, RequestsSound, RetryIsFresh
<1> QED BY <1>1, <1>2, <1>3 DEF IInv

LEMMA ServerKeeps == ASSUME IInv, NEW c \in calls, ServerRefresh(c) PROVE IInv'
<1>1. UNCHANGED <<mem, store, cookie, promise, boot, req, out, strays, lost>> /\ c.answer = "none" /\ TokensTypeOK
  BY DEF ServerRefresh, IInv
<1>2. c \in Call /\ c.token \in TokenOrNull
  BY <1>1, CallFields
<1> DEFINE old == [c EXCEPT !.answer = "refused"]
<1>3. old \in Call /\ old.tab = c.tab /\ old.new = c.new /\ old.token = c.token /\ old.answer = "refused"
  BY <1>2 DEF Call
<1>4. ASSUME NEW k, k = Rotated(c.token), Rotates(c.token), MayIssue(c.token.s),
             calls' = (calls \ {c}) \cup {[c EXCEPT !.answer = "rotated", !.new = k]},
             server' = [server EXCEPT ![c.token.s].last = @ + 1]
      PROVE  IInv'
  <2> DEFINE new == [c EXCEPT !.answer = "rotated", !.new = k]
             z == c.token.s
             v == [server[z] EXCEPT !.last = server[z].last + 1]
  <2>1. c.token \in Token /\ z \in Session /\ server[z].state = "live"
    BY <1>2, <1>4 DEF Rotates, Known, TokenOrNull, Token
  <2>2. server[z].last \in Nat /\ server[z].last + 1 \in 1 .. MaxGen
    BY <1>1, <1>4, <2>1, MayRotate
  <2>3. k \in Token /\ k.s = z /\ k.n = server[z].last + 1
    BY <1>4, <2>1, <2>2 DEF Rotated, Token
  <2>4. v \in [last : 0 .. MaxGen, state : {"none", "live", "ended", "reused"}] /\ v.last = k.n /\ v.state = "live"
    BY <1>1, <2>1, <2>2, <2>3, ServerGrows
  <2>5. /\ server' \in [Session -> [last : 0 .. MaxGen, state : {"none", "live", "ended", "reused"}]]
        /\ server'[z] = v /\ \A x \in Session : x # z => server'[x] = server[x]
    BY <1>1, <1>4, <2>1, <2>4 DEF TokensTypeOK
  <2>6. new \in Call /\ new.tab = c.tab /\ new.new = k /\ new.token = c.token /\ k # Null
        /\ new.answer = "rotated"
    <3>1. k \in TokenOrNull /\ k # Null
      BY <2>3, NullAssumption DEF TokenOrNull
    <3> QED BY <1>2, <3>1 DEF Call
  <2>7. \A x \in TokenOrNull : IssuedTo(x) => IssuedTo(x)' /\ x # k
    <3> SUFFICES ASSUME NEW x \in Token, x.n <= server[x.s].last PROVE x.n <= server'[x.s].last /\ x # k
      BY <2>6 DEF IssuedTo, TokenOrNull
    <3>1. x.s \in Session /\ x.n \in Nat /\ server[x.s].last \in Nat
      BY <1>1, ServerGrows DEF Token
    <3>2. CASE x.s = z
      BY <2>2, <2>3, <2>4, <2>5, <3>1, <3>2
    <3>3. CASE x.s # z
      BY <2>3, <2>5, <3>1, <3>3
    <3> QED BY <3>2, <3>3
  <2>8. IssuedTo(k)'
    BY <2>3, <2>4, <2>5, <2>6 DEF IssuedTo
  <2>9. \A x : Holds(x)' => Holds(x)
    BY <1>1, <1>4, <2>6 DEF Holds
  <2>0. calls' = (calls \ {c}) \cup {new}
    BY <1>4
  <2> HIDE DEF new, v, z
  <2>10. \A d \in calls' : d = new \/ (d \in calls /\ d.new \in TokenOrNull /\ IssuedTo(d.new))
    BY <1>1, <2>0, CallFields DEF IInv, Issued
  <2>11. Issued'
    <3>1. \A x \in TokenOrNull : Holds(x)' => IssuedTo(x)'
      BY <2>7, <2>9 DEF IInv, Issued
    <3>2. \A d \in calls' : IssuedTo(d.new)'
      BY <2>6, <2>7, <2>8, <2>10
    <3>3. \A x \in Session : server'[x].state = "none" => server'[x].last = 0
      BY <2>4, <2>5 DEF IInv, Issued
    <3> QED BY <3>1, <3>2, <3>3 DEF Issued
  <2>12. Fresh'
    <3> SUFFICES ASSUME NEW e \in calls', e.new # Null
                 PROVE  ~Holds(e.new)' /\ \A d \in calls' : d.new = e.new => d = e
      BY DEF Fresh
    <3>1. CASE e = new
      <4>1. ~Holds(k)
        <5>1. k \in TokenOrNull
          BY <2>3 DEF TokenOrNull
        <5> QED BY <2>7, <5>1 DEF IInv, Issued
      <4>2. \A d \in calls' : d = new \/ d.new # k
        BY <2>7, <2>10
      <4> QED BY <2>6, <2>9, <3>1, <4>1, <4>2
    <3>2. CASE e # new
      <4>1. e \in calls /\ e.new # k
        BY <2>7, <2>10, <3>2
      <4>2. ~Holds(e.new) /\ \A d \in calls : d.new = e.new => d = e
        BY <3>2, <4>1 DEF IInv, Fresh
      <4> QED BY <2>6, <2>9, <2>10, <4>1, <4>2
    <3> QED BY <3>1, <3>2
  <2> QED BY <1>1, <2>0, <2>5, <2>6, <2>11, <2>12, AnswerStep
<1>5. CASE calls' = (calls \ {c}) \cup {old} /\ (server' = server \/
             (Known(c.token) /\ server' = [server EXCEPT ![c.token.s].state = "reused"]))
  <2>1. /\ server' \in [Session -> [last : 0 .. MaxGen, state : {"none", "live", "ended", "reused"}]]
        /\ \A x \in Session : server'[x].last = server[x].last
        /\ \A x \in Session : server'[x].state = "none" => server[x].state = "none"
    <3>1. CASE server' = server
      BY <1>1, <3>1 DEF TokensTypeOK
    <3>2. CASE Known(c.token) /\ server' = [server EXCEPT ![c.token.s].state = "reused"]
      <4>1. c.token.s \in Session
        BY <1>2, <3>2 DEF Known, TokenOrNull, Token
      <4> DEFINE v == [server[c.token.s] EXCEPT !.state = "reused"]
      <4>2. v \in [last : 0 .. MaxGen, state : {"none", "live", "ended", "reused"}]
            /\ v.last = server[c.token.s].last /\ v.state = "reused"
        BY <1>1, <4>1, ServerGrows
      <4>3. server' = [server EXCEPT ![c.token.s] = v]
        BY <3>2
      <4> HIDE DEF v
      <4> QED BY <1>1, <4>1, <4>2, <4>3 DEF TokensTypeOK
    <3> QED BY <1>5, <3>1, <3>2
  <2> HIDE DEF old
  <2>3. TokensTypeOK'
    BY <1>1, <1>3, <1>5, <2>1 DEF TokensTypeOK
  <2>4. \A x \in TokenOrNull : Holds(x)' => Holds(x)
    BY <1>1, <1>3, <1>5 DEF Holds
  <2>5. c.new = Null
    BY <1>1 DEF IInv, CallsSound
  <2>6. \A d \in calls' : d \in calls \/ d.new = Null
    BY <1>3, <1>5, <2>5
  <2>7. Issued' /\ Fresh'
    BY <2>1, <2>3, <2>4, <2>6, SameTokens
  <2> QED BY <1>1, <1>3, <1>5, <2>1, <2>5, <2>7, AnswerStep
<1> QED BY <1>4, <1>5 DEF ServerRefresh

LEMMA BodyKeeps == ASSUME IInv, NEW c \in calls, BodyRefused(c) PROVE IInv'
<1> DEFINE t == c.tab
           d == [c EXCEPT !.stage = "cookie", !.token = cookie, !.answer = "none"]
<1>1. UNCHANGED <<cookie, promise, boot, req, out, server, strays, lost>> /\ c.answer = "refused" /\ TokensTypeOK
      /\ mem' = [mem EXCEPT ![t] = WithoutRefresh(mem[t])] /\ store' = WithoutRefresh(store)
      /\ calls' = (calls \ {c}) \cup {d}
  BY DEF BodyRefused, IInv
<1>2. c \in Call /\ t \in Tab /\ cookie \in TokenOrNull /\ Null \in TokenOrNull
  BY <1>1, CallFields DEF TokensTypeOK, TokenOrNull
<1>3. d \in Call /\ d.tab = t /\ d.new = c.new /\ d.token = cookie /\ d.answer = "none"
  BY <1>2 DEF Call
<1>4. c.new = Null
  BY <1>1 DEF IInv, CallsSound
<1> HIDE DEF d
<1>5. /\ WithoutRefresh(mem[t]) \in Pair /\ WithoutRefresh(store) \in Pair
      /\ WithoutRefresh(mem[t]).access = mem[t].access /\ WithoutRefresh(mem[t]).refresh = Null
      /\ WithoutRefresh(store).access = store.access /\ WithoutRefresh(store).refresh = Null
  BY <1>1, <1>2, PairTyped DEF TokensTypeOK
<1>6. TokensTypeOK'
  BY <1>1, <1>2, <1>3, <1>5 DEF TokensTypeOK
<1>7. \A x \in TokenOrNull : Holds(x)' => Holds(x) \/ x = Null
  <2> SUFFICES ASSUME NEW x \in TokenOrNull, Holds(x)' PROVE Holds(x) \/ x = Null
    OBVIOUS
  <2>1. CASE \E y \in Tab : x = mem'[y].access \/ x = mem'[y].refresh
    <3>1. PICK y \in Tab : x = mem'[y].access \/ x = mem'[y].refresh
      BY <2>1
    <3>2. CASE y = t
      BY <1>1, <1>2, <1>5, <3>1, <3>2 DEF Holds, TokensTypeOK
    <3>3. CASE y # t
      BY <1>1, <1>2, <3>1, <3>3 DEF Holds, TokensTypeOK
    <3> QED BY <3>2, <3>3
  <2>2. CASE x = store'.access \/ x = store'.refresh
    BY <1>1, <1>5, <2>2 DEF Holds
  <2>3. CASE \E e \in calls' : x = e.token
    BY <1>1, <1>3, <2>3 DEF Holds
  <2> QED BY <1>1, <2>1, <2>2, <2>3 DEF Holds
<1>8. Issued' /\ Fresh'
  BY <1>1, <1>3, <1>4, <1>6, <1>7, SameTokens
<1>9. CallsSound' /\ SingleFlight'
  BY <1>1, <1>3, <1>4 DEF IInv, CallsSound, SingleFlight
<1>10. RequestsSound' /\ RetryIsFresh'
  <2>1. \A x \in Tab : boot[x] = "no" => mem'[x] = mem[x]
    BY <1>1, <1>2 DEF IInv, CallsSound, RequestsSound, TokensTypeOK
  <2> QED BY <1>1, <2>1 DEF IInv, RequestsSound, RetryIsFresh
<1> QED BY <1>6, <1>8, <1>9, <1>10 DEF IInv

LEMMA LoadKeeps == ASSUME IInv, NEW t \in Tab, Load(t) PROVE IInv'
<1> DEFINE k == Migrated(store).refresh
           n == CallWith(t, "bootstrap", k)
           early == [IdleReq EXCEPT !.state = "sent", !.token = store.access]
<1>1. /\ boot[t] = "no" /\ store' = Migrated(store)
      /\ promise' = [promise EXCEPT ![t] = TRUE] /\ calls' = calls \cup {n}
      /\ boot' = [boot EXCEPT ![t] = "waiting"]
      /\ UNCHANGED <<mem, cookie, out, server, strays, lost>> /\ TokensTypeOK
  BY DEF Load, IInv
<1>2. PICK q \in [Request -> {IdleReq, early}] : req' = [req EXCEPT ![t] = q]
  BY DEF Load
<1>3. Migrated(store) \in {store, Nothing} /\ Nothing \in Pair /\ store \in Pair /\ Null \in TokenOrNull
      /\ Nothing.access = Null /\ Nothing.refresh = Null /\ store.access \in TokenOrNull
      /\ cookie \in TokenOrNull
  BY <1>1 DEF Migrated, TokensTypeOK, Nothing, Pair, TokenOrNull
<1>4. k \in TokenOrNull /\ (k = Null \/ k = store.refresh) /\ "bootstrap" \in Caller
  BY <1>3 DEF Pair, Caller, Direct
<1>5. n \in Call /\ n.tab = t /\ n.new = Null /\ n.answer = "none" /\ (n.token = k \/ n.token = cookie)
  BY <1>1, <1>4, CallTyped
<1>6. /\ IdleReq \in ReqState /\ IdleReq.token = Null /\ IdleReq.refused = Null
      /\ IdleReq.state = "idle" /\ IdleReq.attempt = 0
  BY <1>3 DEF IdleReq, ReqState
<1>7. /\ early \in ReqState /\ early.token = store.access /\ early.refused = Null
      /\ early.state = "sent" /\ early.attempt = 0
  BY <1>3, <1>6 DEF ReqState
<1> HIDE DEF n, k, early
<1>8. \A x \in Tab, r \in Request :
         \/ x # t /\ req'[x][r] = req[x][r]
         \/ x = t /\ req'[x][r] \in {IdleReq, early}
  BY <1>1, <1>2 DEF TokensTypeOK
<1>9. TokensTypeOK'
  <2>1. mem' \in [Tab -> Pair] /\ store' \in Pair /\ calls' \subseteq Call /\ promise' \in [Tab -> BOOLEAN]
    BY <1>1, <1>3, <1>5 DEF TokensTypeOK
  <2>2. boot' \in [Tab -> {"no", "waiting", "in", "out"}]
    BY <1>1 DEF TokensTypeOK
  <2>3. req' \in [Tab -> [Request -> ReqState]]
    <3>1. q \in [Request -> ReqState]
      BY <1>6, <1>7
    <3> QED BY <1>1, <1>2, <3>1 DEF TokensTypeOK
  <2> QED BY <1>1, <2>1, <2>2, <2>3 DEF TokensTypeOK
<1>10. \A x \in TokenOrNull : Holds(x)' => Holds(x) \/ x = Null
  <2> SUFFICES ASSUME NEW x \in TokenOrNull, Holds(x)' PROVE Holds(x) \/ x = Null
    OBVIOUS
  <2>2. CASE x = store'.access \/ x = store'.refresh
    BY <1>1, <1>3, <2>2 DEF Holds
  <2>3. CASE \E e \in calls' : x = e.token
    BY <1>1, <1>4, <1>5, <2>3 DEF Holds
  <2>4. CASE \E y \in Tab, r \in Request : x = req'[y][r].token \/ x = req'[y][r].refused
    BY <1>6, <1>7, <1>8, <2>4 DEF Holds
  <2> QED BY <1>1, <2>2, <2>3, <2>4 DEF Holds
<1>11. \A d \in calls' : d \in calls \/ d.new = Null
  BY <1>1, <1>5
<1>12. Issued' /\ Fresh'
  BY <1>1, <1>9, <1>10, <1>11, SameTokens
<1>13. CallsSound' /\ SingleFlight'
  <2>1. \A d \in calls' : d = n \/ (d \in calls /\ d.tab # t)
    BY <1>1 DEF IInv, CallsSound, RequestsSound
  <2>2. \A d \in calls : d.tab \in Tab /\ promise[d.tab]
    BY <1>1, CallFields DEF IInv, CallsSound
  <2>3. \A d \in calls' : promise'[d.tab]
    BY <1>1, <1>5, <2>1, <2>2 DEF TokensTypeOK
  <2> QED BY <1>5, <2>1, <2>3 DEF IInv, CallsSound, SingleFlight
<1>14. RequestsSound' /\ RetryIsFresh'
  <2>1. \A x \in Tab : x # t => boot'[x] = boot[x] /\ promise'[x] = promise[x]
    BY <1>1 DEF TokensTypeOK
  <2>2. boot'[t] = "waiting"
    BY <1>1 DEF TokensTypeOK
  <2>3. ASSUME NEW x \in Tab, NEW r \in Request
        PROVE  /\ req'[x][r].state = "waiting" => req'[x][r].attempt = 0
               /\ req'[x][r].state # "idle" => boot'[x] # "no"
    BY <1>6, <1>7, <1>8, <2>1, <2>2 DEF IInv, RequestsSound
  <2>4. ASSUME NEW x \in Tab, boot'[x] = "no" PROVE ~promise'[x] /\ out'[x] = Null /\ mem'[x] = Nothing
    BY <1>1, <2>1, <2>2, <2>4 DEF IInv, RequestsSound
  <2>5. RetryIsFresh'
    BY <1>6, <1>7, <1>8 DEF IInv, RetryIsFresh
  <2> QED BY <2>3, <2>4, <2>5 DEF RequestsSound
<1> QED BY <1>9, <1>12, <1>13, <1>14 DEF IInv

(* A page is left: nothing of it stays, and no token comes to the browser    *)
(* but that of an answer whose Set-Cookie was read.                          *)
LEMMA UnloadKeeps == ASSUME IInv, NEW t \in Tab, Unload(t) PROVE IInv'
<1> DEFINE mine == {c \in calls : c.tab = t}
<1>1. /\ calls' = calls \ mine /\ GiveUp(mine)
      /\ mem' = [mem EXCEPT ![t] = Nothing] /\ promise' = [promise EXCEPT ![t] = FALSE]
      /\ boot' = [boot EXCEPT ![t] = "no"] /\ out' = [out EXCEPT ![t] = Null]
      /\ req' = [req EXCEPT ![t] = [r \in Request |-> IdleReq]]
      /\ UNCHANGED <<store, server>> /\ TokensTypeOK
  BY DEF Unload, IInv
<1>2. /\ strays' \subseteq Token /\ lost' \in 0 .. MaxLost
      /\ cookie' = cookie \/ \E c \in mine : cookie' = c.new
  BY <1>1, GivenUpTyped
<1>3. PICK k \in TokenOrNull : cookie' \in {cookie, k} /\ (k = Null \/ \E c \in mine : k = c.new)
  <2>1. CASE cookie' = cookie
    BY <2>1 DEF TokenOrNull
  <2>2. CASE \E c \in mine : cookie' = c.new
    BY <1>1, <2>2, CallFields
  <2> QED BY <1>2, <2>1, <2>2
<1>4. Nothing \in Pair /\ Nothing.access = Null /\ Nothing.refresh = Null
  BY DEF Nothing, Pair, TokenOrNull
<1>5. \A x \in Tab, r \in Request : req'[x][r] = IF x = t THEN IdleReq ELSE req[x][r]
  BY <1>1 DEF TokensTypeOK
<1>6. /\ mem'[t] = Nothing /\ ~promise'[t] /\ boot'[t] = "no" /\ out'[t] = Null
      /\ \A x \in Tab : x # t => /\ mem'[x] = mem[x] /\ promise'[x] = promise[x]
                                /\ boot'[x] = boot[x] /\ out'[x] = out[x]
  <2>1. mem'[t] = Nothing /\ \A x \in Tab : x # t => mem'[x] = mem[x]
    BY <1>1 DEF TokensTypeOK
  <2>2. ~promise'[t] /\ \A x \in Tab : x # t => promise'[x] = promise[x]
    BY <1>1 DEF TokensTypeOK
  <2>3. boot'[t] = "no" /\ \A x \in Tab : x # t => boot'[x] = boot[x]
    BY <1>1 DEF TokensTypeOK
  <2>4. out'[t] = Null /\ \A x \in Tab : x # t => out'[x] = out[x]
    BY <1>1 DEF TokensTypeOK
  <2> QED BY <2>1, <2>2, <2>3, <2>4
<1>7. TokensTypeOK'
  <2>1. mem' \in [Tab -> Pair] /\ promise' \in [Tab -> BOOLEAN] /\ calls' \subseteq Call
    BY <1>1, <1>4 DEF TokensTypeOK
  <2>2. boot' \in [Tab -> {"no", "waiting", "in", "out"}] /\ out' \in [Tab -> Logout \cup {Null}]
    BY <1>1 DEF TokensTypeOK
  <2>3. req' \in [Tab -> [Request -> ReqState]]
    BY <1>1, IdleTyped DEF TokensTypeOK
  <2>4. cookie' \in TokenOrNull
    BY <1>1, <1>3 DEF TokensTypeOK
  <2> QED BY <1>1, <1>2, <2>1, <2>2, <2>3, <2>4 DEF TokensTypeOK
<1>8. \A x \in TokenOrNull : Holds(x)' => Holds(x) \/ x \in {Null, k}
  <2> SUFFICES ASSUME NEW x \in TokenOrNull, Holds(x)' PROVE Holds(x) \/ x \in {Null, k}
    OBVIOUS
  <2>1. CASE \E y \in Tab : x = mem'[y].access \/ x = mem'[y].refresh
    BY <1>4, <1>6, <2>1 DEF Holds
  <2>2. CASE x = store'.access \/ x = store'.refresh \/ x = cookie'
    BY <1>1, <1>3, <2>2 DEF Holds
  <2>3. CASE \E y \in Tab, r \in Request : x = req'[y][r].token \/ x = req'[y][r].refused
    BY <1>5, <2>3, IdleTyped DEF Holds
  <2>4. CASE \E d \in calls' : x = d.token
    BY <1>1, <2>4 DEF Holds
  <2> QED BY <2>1, <2>2, <2>3, <2>4 DEF Holds
<1>9. Issued' /\ Fresh'
  <2>1. \A d \in calls' : k # Null => d.new # k
    BY <1>1, <1>3 DEF IInv, Fresh
  <2>2. k # Null => k.n <= server'[k.s].last
    BY <1>1, <1>3 DEF IInv, Issued, IssuedTo
  <2>3. \A z \in Session : server'[z].last >= server[z].last
    BY <1>1, ServerGrows
  <2>4. \A z \in Session : server'[z].state = "none" => server[z].state = "none" /\ server'[z].last = 0
    BY <1>1 DEF IInv, Issued
  <2>5. \A d \in calls' : d.new = Null \/ d \in calls
    BY <1>1
  <2> QED BY <1>7, <1>8, <2>1, <2>2, <2>3, <2>4, <2>5, TokensKept
<1>10. CallsSound' /\ SingleFlight'
  <2>1. \A d \in calls' : d \in calls /\ d.tab # t /\ d.tab \in Tab
    BY <1>1, CallFields
  <2> QED BY <1>6, <2>1 DEF IInv, CallsSound, SingleFlight
<1>11. RequestsSound' /\ RetryIsFresh'
  <2>1. ASSUME NEW x \in Tab, NEW r \in Request
        PROVE  /\ req'[x][r].state = "waiting" => req'[x][r].attempt = 0
               /\ req'[x][r].state # "idle" => boot'[x] # "no"
    BY <1>5, <1>6, IdleTyped DEF IInv, RequestsSound
  <2>2. ASSUME NEW x \in Tab, boot'[x] = "no" PROVE ~promise'[x] /\ out'[x] = Null /\ mem'[x] = Nothing
    BY <1>6, <2>2 DEF IInv, RequestsSound
  <2>3. RetryIsFresh'
    BY <1>5, IdleTyped DEF IInv, RetryIsFresh
  <2> QED BY <2>1, <2>2, <2>3 DEF RequestsSound
<1> QED BY <1>7, <1>9, <1>10, <1>11 DEF IInv

(* What a stray does to the server's table. *)
LEMMA StrayStep ==
    ASSUME TokensTypeOK, NEW k \in strays, StrayRefresh(k)
    PROVE  /\ server' \in [Session -> [last : 0 .. MaxGen, state : {"none", "live", "ended", "reused"}]]
           /\ \A z \in Session : server'[z].state = "none" => server'[z] = server[z]
           /\ \A z \in Session : server'[z].state = "live" => server[z].state = "live"
           /\ lost' \in 0 .. MaxLost
           /\ \/ lost' = lost + 1 /\ \A z \in Session : server'[z].last \in {server[z].last, server[z].last + 1}
              \/ lost' = lost /\ \A z \in Session : server'[z].last = server[z].last
<1> DEFINE S == [last : 0 .. MaxGen, state : {"none", "live", "ended", "reused"}]
           z == k.s
<1>1. k \in Token /\ z \in Session /\ server[z] \in S /\ server[z].state = "live"
  BY ServerGrows DEF StrayRefresh, Known, TokensTypeOK, Token
<1>2. CASE Rotates(k) /\ MayIssue(z) /\ lost < MaxLost /\ lost' = lost + 1
           /\ server' = [server EXCEPT ![z].last = @ + 1]
  <2> DEFINE v == [server[z] EXCEPT !.last = server[z].last + 1]
  <2>1. server[z].last \in Nat /\ server[z].last + 1 \in 1 .. MaxGen
    BY <1>1, <1>2, MayRotate
  <2>2. v \in S /\ v.last = server[z].last + 1 /\ v.state = "live"
    BY <1>1, <2>1
  <2>3. server' = [server EXCEPT ![z] = v]
    BY <1>2
  <2> HIDE DEF v, z
  <2>4. server' \in [Session -> S] /\ server'[z] = v /\ \A x \in Session : x # z => server'[x] = server[x]
    BY <1>1, <2>2, <2>3 DEF TokensTypeOK
  <2>5. lost' \in 0 .. MaxLost
    BY <1>2, BoundsAssumption DEF TokensTypeOK
  <2> QED BY <1>1, <1>2, <2>2, <2>4, <2>5
<1>3. CASE server' = [server EXCEPT ![z].state = "reused"] /\ UNCHANGED lost
  <2> DEFINE v == [server[z] EXCEPT !.state = "reused"]
  <2>1. v \in S /\ v.last = server[z].last /\ v.state = "reused"
    BY <1>1
  <2>2. server' = [server EXCEPT ![z] = v]
    BY <1>3
  <2> HIDE DEF v, z
  <2>3. server' \in [Session -> S] /\ server'[z] = v /\ \A x \in Session : x # z => server'[x] = server[x]
    BY <1>1, <2>1, <2>2 DEF TokensTypeOK
  <2> QED BY <1>1, <1>3, <2>1, <2>3 DEF TokensTypeOK
<1> QED BY <1>2, <1>3 DEF StrayRefresh

LEMMA StrayKeeps == ASSUME IInv, NEW k \in strays, StrayRefresh(k) PROVE IInv'
<1>1. UNCHANGED <<mem, store, cookie, promise, calls, boot, req, out, strays>> /\ TokensTypeOK
  BY DEF StrayRefresh, IInv
<1>2. TokensTypeOK'
  BY <1>1, StrayStep DEF TokensTypeOK
<1>3. Issued' /\ Fresh'
  <2>1. \A x \in TokenOrNull : Holds(x)' => Holds(x)
    BY <1>1 DEF Holds
  <2>2. \A z \in Session : server'[z].last >= server[z].last
    <3> SUFFICES ASSUME NEW z \in Session PROVE server'[z].last >= server[z].last
      OBVIOUS
    <3>1. server[z].last \in Nat /\ server'[z].last \in {server[z].last, server[z].last + 1}
      BY <1>1, StrayStep, ServerGrows
    <3> QED BY <3>1
  <2>3. \A z \in Session : server'[z].state = "none" => server[z].state = "none" /\ server'[z].last = 0
    <3>1. \A z \in Session : server'[z].state = "none" => server'[z] = server[z]
      BY <1>1, StrayStep
    <3> QED BY <3>1 DEF IInv, Issued
  <2>4. Null \in TokenOrNull
    BY DEF TokenOrNull
  <2> QED BY <1>1, <1>2, <2>1, <2>2, <2>3, <2>4, TokensKept
<1> QED BY <1>1, <1>2, <1>3 DEF IInv, CallsSound, SingleFlight, RequestsSound, RetryIsFresh

LEMMA LoginKeeps == ASSUME IInv, NEW t \in Tab, Login(t) PROVE IInv'
<1>1. UNCHANGED <<promise, calls, boot, req, out, strays, lost>> /\ TokensTypeOK /\ boot[t] # "no"
  BY DEF Login, IInv
<1>2. PICK s \in Session :
        /\ server[s].state = "none"
        /\ server' = [server EXCEPT ![s] = [last |-> 1, state |-> "live"]]
        /\ mem' = [mem EXCEPT ![t] = Both([s |-> s, n |-> 1])]
        /\ store' = Both([s |-> s, n |-> 1]) /\ cookie' = [s |-> s, n |-> 1]
  BY DEF Login
<1> DEFINE k == [s |-> s, n |-> 1]
<1>3. k \in TokenOrNull /\ k \in Token /\ k.s = s /\ k.n = 1 /\ k # Null
  BY BoundsAssumption, NullAssumption DEF TokenOrNull, Token
<1>4. Both(k) \in Pair /\ Both(k).access = k /\ Both(k).refresh = k
  BY <1>3 DEF Both, Pair
<1>5. [last |-> 1, state |-> "live"] \in [last : 0 .. MaxGen, state : {"none", "live", "ended", "reused"}]
  BY BoundsAssumption
<1>6. server[s].last = 0
  BY <1>2 DEF IInv, Issued
<1>7. cookie' = k /\ store' = Both(k) /\ mem' = [mem EXCEPT ![t] = Both(k)]
  BY <1>2
<1> HIDE DEF k
<1>8. TokensTypeOK'
  BY <1>1, <1>2, <1>3, <1>4, <1>5, <1>7 DEF TokensTypeOK
<1>9. \A x \in TokenOrNull : Holds(x)' => Holds(x) \/ x \in {Null, k}
  <2> SUFFICES ASSUME NEW x \in TokenOrNull, Holds(x)' PROVE Holds(x) \/ x \in {Null, k}
    OBVIOUS
  <2>1. CASE \E y \in Tab : x = mem'[y].access \/ x = mem'[y].refresh
    <3>1. PICK y \in Tab : x = mem'[y].access \/ x = mem'[y].refresh
      BY <2>1
    <3>2. mem'[y] = Both(k) \/ mem'[y] = mem[y]
      BY <1>1, <1>7 DEF TokensTypeOK
    <3> QED BY <1>4, <3>1, <3>2 DEF Holds
  <2>2. CASE x = store'.access \/ x = store'.refresh \/ x = cookie'
    BY <1>4, <1>7, <2>2
  <2> QED BY <1>1, <2>1, <2>2 DEF Holds
<1>10. \A d \in calls' : k # Null => d.new # k
  <2> SUFFICES ASSUME NEW d \in calls, d.new = k PROVE FALSE
    BY <1>1
  <2>1. IssuedTo(k)
    BY DEF IInv, Issued
  <2> QED BY <1>3, <1>6, <2>1 DEF IssuedTo
<1>11. /\ \A z \in Session : server'[z].last >= server[z].last
       /\ \A z \in Session : server'[z].state = "none" => server[z].state = "none" /\ server'[z].last = 0
       /\ k # Null => k.n <= server'[k.s].last
  <2>1. server'[s] = [last |-> 1, state |-> "live"] /\ \A z \in Session : z # s => server'[z] = server[z]
    BY <1>1, <1>2 DEF TokensTypeOK
  <2>2. \A z \in Session : server[z].last \in Nat
    BY <1>1, ServerGrows
  <2> QED BY <1>3, <1>6, <2>1, <2>2 DEF IInv, Issued
<1>12. Issued' /\ Fresh'
  BY <1>1, <1>3, <1>8, <1>9, <1>10, <1>11, TokensKept
<1>13. \A x \in Tab : boot[x] = "no" => mem'[x] = mem[x]
  BY <1>1, <1>7 DEF TokensTypeOK
<1> QED BY <1>1, <1>8, <1>12, <1>13 DEF IInv, CallsSound, SingleFlight, RequestsSound, RetryIsFresh

LEMMA LogoutKeeps ==
    ASSUME IInv, NEW t \in Tab, StartLogout(t) \/ ServerLogout(t) \/ LogoutAnswered(t) \/ LogoutFails(t)
    PROVE  IInv'
<1>1. UNCHANGED <<promise, calls, boot, req, strays, lost>> /\ TokensTypeOK
  BY DEF IInv, StartLogout, ServerLogout, LogoutAnswered, LogoutFails, ClearStoredTokens
<1>2. out' \in [Tab -> Logout \cup {Null}]
  <2>1. AccessOf(t) \in TokenOrNull
    BY <1>1, HeldTyped
  <2>2. CASE StartLogout(t)
    BY <1>1, <2>1, <2>2 DEF StartLogout, Logout, TokensTypeOK
  <2>3. CASE ServerLogout(t)
    BY <1>1, <2>3 DEF ServerLogout, Logout, TokensTypeOK
  <2>4. CASE LogoutAnswered(t) \/ LogoutFails(t)
    BY <1>1, <2>4 DEF LogoutAnswered, LogoutFails, ClearStoredTokens, TokensTypeOK
  <2> QED BY <2>2, <2>3, <2>4
<1>3. /\ server' \in [Session -> [last : 0 .. MaxGen, state : {"none", "live", "ended", "reused"}]]
      /\ \A s \in Session : server'[s].last = server[s].last
      /\ \A s \in Session : server'[s].state = "none" => server[s].state = "none"
  <2>1. CASE server' = server
    BY <1>1, <2>1 DEF TokensTypeOK
  <2>2. CASE ServerLogout(t) /\ server' # server
    <3>1. Known(out[t].token) /\ server' = [server EXCEPT ![out[t].token.s].state = "ended"] /\ out[t] # Null
      BY <2>2 DEF ServerLogout
    <3>2. out[t].token \in Token
      BY <1>1, <3>1 DEF Known, TokensTypeOK, Logout, TokenOrNull
    <3> DEFINE z == out[t].token.s
               v == [server[z] EXCEPT !.state = "ended"]
    <3>3. z \in Session
      BY <3>2 DEF Token
    <3>4. v \in [last : 0 .. MaxGen, state : {"none", "live", "ended", "reused"}] /\ v.last = server[z].last
          /\ v.state = "ended"
      BY <1>1, <3>3, ServerGrows
    <3>5. server' = [server EXCEPT ![z] = v]
      BY <3>1
    <3> HIDE DEF v, z
    <3> QED BY <1>1, <3>3, <3>4, <3>5 DEF TokensTypeOK
  <2> QED BY <2>1, <2>2 DEF StartLogout, LogoutAnswered, LogoutFails, ClearStoredTokens
<1>4. /\ mem' = mem \/ mem' = [mem EXCEPT ![t] = Nothing]
      /\ store' \in {store, Nothing} /\ cookie' \in {cookie, Null}
  BY DEF StartLogout, ServerLogout, LogoutAnswered, LogoutFails, ClearStoredTokens
<1>5. Nothing \in Pair /\ Nothing.access = Null /\ Nothing.refresh = Null /\ Null \in TokenOrNull
  BY DEF Nothing, Pair, TokenOrNull
<1>6. TokensTypeOK'
  BY <1>1, <1>2, <1>3, <1>4, <1>5 DEF TokensTypeOK
<1>7. \A x \in TokenOrNull : Holds(x)' => Holds(x) \/ x = Null
  <2> SUFFICES ASSUME NEW x \in TokenOrNull, Holds(x)' PROVE Holds(x) \/ x = Null
    OBVIOUS
  <2>1. CASE \E y \in Tab : x = mem'[y].access \/ x = mem'[y].refresh
    <3>1. PICK y \in Tab : x = mem'[y].access \/ x = mem'[y].refresh
      BY <2>1
    <3>2. mem'[y] = Nothing \/ mem'[y] = mem[y]
      BY <1>1, <1>4 DEF TokensTypeOK
    <3> QED BY <1>5, <3>1, <3>2 DEF Holds
  <2>2. CASE x = store'.access \/ x = store'.refresh \/ x = cookie'
    BY <1>4, <1>5, <2>2 DEF Holds
  <2> QED BY <1>1, <2>1, <2>2 DEF Holds
<1>8. Issued' /\ Fresh'
  BY <1>1, <1>3, <1>6, <1>7, SameTokens
<1>9. ASSUME NEW x \in Tab, boot[x] = "no" PROVE out'[x] = Null /\ mem'[x] = Nothing
  <2>1. out[x] = Null /\ mem[x] = Nothing
    BY <1>9 DEF IInv, RequestsSound
  <2>2. mem'[x] = Nothing
    BY <1>1, <1>4, <2>1 DEF TokensTypeOK
  <2>3. out'[x] = out[x] \/ out'[x] = Null
    BY <1>1, <1>9, <2>1 DEF StartLogout, ServerLogout, LogoutAnswered, LogoutFails, ClearStoredTokens, TokensTypeOK
  <2> QED BY <2>1, <2>2, <2>3
<1>10. RequestsSound'
  BY <1>1, <1>9 DEF IInv, RequestsSound
<1> QED BY <1>1, <1>6, <1>8, <1>10 DEF IInv, CallsSound, SingleFlight, RetryIsFresh

LEMMA NextInv == IInv /\ [TokensNext]_tokenVars => IInv'
<1> SUFFICES ASSUME IInv, [TokensNext]_tokenVars PROVE IInv'
  OBVIOUS
<1>1. CASE UNCHANGED tokenVars
  BY <1>1 DEF tokenVars, IInv, TokensTypeOK, CallsSound, SingleFlight, Issued, IssuedTo, Fresh, Holds,
     RequestsSound, RetryIsFresh
<1> QED BY <1>1, ServerKeeps, ArrivesKeeps, BodyKeeps, CookieRefusedKeeps, LostKeeps, StrayKeeps, UnloadKeeps, LoadKeeps,
        AutoKeeps, LoginKeeps, LogoutKeeps, SentKeeps, RefusedKeeps DEF TokensNext

THEOREM Inductive == TokensSpec => []IInv
  BY InitInv, NextInv, PTL DEF TokensSpec

(* Type correctness; a request is sent twice at most. *)
THEOREM TokensTypeCorrect == TokensSpec => []TokensTypeOK
<1>1. IInv => TokensTypeOK
  BY DEF IInv
<1> QED BY <1>1, Inductive, PTL

(* No tab ever has two refreshes under way, however many requests, timers    *)
(* and page loads ask for one: refreshPromise.                               *)
THEOREM OneFlightAlways == TokensSpec => []SingleFlight
<1>1. IInv => SingleFlight
  BY DEF IInv
<1> QED BY <1>1, Inductive, PTL

(* A request that is sent again carries a token the browser did not have     *)
(* when it was refused: fetchWithAuth.                                       *)
THEOREM RetryAlwaysFresh == TokensSpec => []RetryIsFresh
<1>1. IInv => RetryIsFresh
  BY DEF IInv
<1> QED BY <1>1, Inductive, PTL

(* A failed refresh takes no access token away but that of a page that is    *)
(* starting or left: doRefresh, and the comment of applyRefreshResult.               *)
THEOREM AccessAlwaysKept == TokensSpec => KeepsAccess
<1> DEFINE Kept ==
        \A t \in Tab : mem[t].access # Null /\ mem'[t].access = Null =>
            \/ out[t] # Null /\ out'[t] = Null
            \/ boot[t] = "waiting" \/ boot'[t] = "no"
<1>1. ASSUME IInv, TokensNext PROVE Kept
  <2> SUFFICES ASSUME NEW x \in Tab, mem[x].access # Null, mem'[x].access = Null
               PROVE  \/ out[x] # Null /\ out'[x] = Null
                      \/ boot[x] = "waiting" \/ boot'[x] = "no"
    OBVIOUS
  <2>0. TokensTypeOK /\ \A c \in calls : c.tab \in Tab /\ c.new \in TokenOrNull
    BY <1>1, CallFields DEF IInv
  <2>1. ASSUME NEW c \in calls, NEW k, NEW m \in Pair, NEW s, Resolve(c, k, m, s),
               m.access = mem[c.tab].access \/ m.access # Null
        PROVE  boot[x] = "waiting"
    <3>1. mem' = [mem EXCEPT ![c.tab] = IF ClearsTokens(c.tab, k) THEN Nothing ELSE m]
      BY <2>1 DEF Resolve
    <3>2. c.tab = x /\ ClearsTokens(x, k)
      BY <2>0, <2>1, <3>1 DEF TokensTypeOK
    <3> QED BY <3>2 DEF ClearsTokens
  <2>2. ASSUME NEW c \in calls, RefreshArrives(c) PROVE boot[x] = "waiting"
    <3>1. Resolve(c, c.new, Both(c.new), Both(c.new)) /\ c.new # Null
      BY <1>1, <2>2 DEF RefreshArrives, IInv, CallsSound
    <3>2. Both(c.new) \in Pair /\ Both(c.new).access = c.new
      BY <2>0 DEF Both, Pair
    <3> QED BY <2>1, <3>1, <3>2
  <2>3. ASSUME NEW c \in calls, CookieRefused(c) \/ RefreshLost(c) PROVE boot[x] = "waiting"
    <3>1. PICK m, s : m \in {WithoutRefresh(mem[c.tab]), mem[c.tab]} /\ Resolve(c, Null, m, s)
      BY <2>3 DEF CookieRefused, RefreshLost
    <3>2. m \in Pair /\ m.access = mem[c.tab].access
      <4>1. mem[c.tab] \in Pair /\ Null \in TokenOrNull
        BY <2>0 DEF TokensTypeOK, TokenOrNull
      <4> QED BY <2>0, <3>1, <4>1, PairTyped
    <3> QED BY <2>1, <3>1, <3>2
  <2>4. ASSUME NEW c \in calls, ServerRefresh(c) \/ BodyRefused(c) PROVE FALSE
    <3>1. mem' = mem \/ mem' = [mem EXCEPT ![c.tab] = WithoutRefresh(mem[c.tab])]
      BY <2>4 DEF ServerRefresh, BodyRefused
    <3>2. WithoutRefresh(mem[c.tab]).access = mem[c.tab].access
      <4>1. mem[c.tab] \in Pair /\ Null \in TokenOrNull
        BY <2>0 DEF TokensTypeOK, TokenOrNull
      <4> QED BY <2>0, <4>1, PairTyped
    <3> QED BY <2>0, <3>1, <3>2 DEF TokensTypeOK
  <2>5. ASSUME NEW t \in Tab, Unload(t) PROVE boot'[x] = "no"
    <3>1. mem' = [mem EXCEPT ![t] = Nothing] /\ boot' = [boot EXCEPT ![t] = "no"]
      BY <2>5 DEF Unload
    <3> QED BY <2>0, <3>1 DEF TokensTypeOK
  <2>6. ASSUME NEW t \in Tab, Login(t) PROVE FALSE
    <3>1. PICK s \in Session : mem' = [mem EXCEPT ![t] = Both([s |-> s, n |-> 1])]
      BY <2>6 DEF Login
    <3>2. [s |-> s, n |-> 1] # Null /\ Both([s |-> s, n |-> 1]).access = [s |-> s, n |-> 1]
      BY BoundsAssumption, NullAssumption DEF Both, Token
    <3> QED BY <2>0, <3>1, <3>2 DEF TokensTypeOK
  <2>7. ASSUME NEW t \in Tab, LogoutAnswered(t) \/ LogoutFails(t) PROVE out[x] # Null /\ out'[x] = Null
    BY <2>0, <2>7 DEF LogoutAnswered, LogoutFails, ClearStoredTokens, TokensTypeOK
  <2>8. ASSUME NEW t \in Tab,
               \/ Load(t) \/ AutoRefresh(t) \/ StartLogout(t) \/ ServerLogout(t)
               \/ \E r \in Request : SendRequest(t, r) \/ RequestAnswered(t, r) \/ RequestRefused(t, r)
        PROVE  FALSE
    BY <2>8 DEF Load, AutoRefresh, StartLogout, ServerLogout, SendRequest, RequestAnswered, RequestRefused
  <2>9. ASSUME NEW k \in strays, StrayRefresh(k) PROVE FALSE
    BY <2>9 DEF StrayRefresh
  <2> QED BY <1>1, <2>2, <2>3, <2>4, <2>5, <2>6, <2>7, <2>8, <2>9 DEF TokensNext
<1>2. IInv /\ [TokensNext]_tokenVars => [Kept]_tokenVars
  BY <1>1
<1> QED BY <1>2, Inductive, PTL DEF TokensSpec, KeepsAccess

(* The client implements TokenService: every step is one of its own, or      *)
(* nothing the code that shows the session sees.                             *)
THEOREM ServiceKept == TokensSpec => KeepsService
<1>1. TokensInit => Service!ServiceInit
  BY DEF TokensInit, Service!ServiceInit
<1>2. ASSUME IInv, [TokensNext]_tokenVars PROVE [Service!ServiceNext]_(Service!serviceVars)
  <2>0. TokensTypeOK /\ \A c \in calls : c.tab \in Tab /\ c.new \in Token \cup {Null} /\ promise[c.tab]
    BY <1>2, CallFields DEF IInv, CallsSound, TokenOrNull
  <2>1. ASSUME UNCHANGED <<promise, boot, out>> PROVE [Service!ServiceNext]_(Service!serviceVars)
    BY <2>1 DEF Service!serviceVars
  <2>2. ASSUME NEW c \in calls, NEW k \in Token \cup {Null}, NEW m, NEW s, Resolve(c, k, m, s), UNCHANGED out
        PROVE  [Service!ServiceNext]_(Service!serviceVars)
    <3>1. c.tab \in Tab /\ promise[c.tab]
      BY <2>0
    <3>2. promise' = [promise EXCEPT ![c.tab] = FALSE]
          /\ boot' = [boot EXCEPT ![c.tab] = ResumeBootstrap(c.tab, k)]
      BY <2>2 DEF Resolve
    <3>3. Service!Resolved(c.tab, k)
      BY <2>2, <3>1, <3>2 DEF Service!Resolved, ResumeBootstrap
    <3> QED BY <3>1, <3>3 DEF Service!ServiceNext
  <2>3. ASSUME NEW c \in calls, RefreshArrives(c) \/ CookieRefused(c) \/ RefreshLost(c)
        PROVE  [Service!ServiceNext]_(Service!serviceVars)
    BY <2>0, <2>2, <2>3 DEF RefreshArrives, CookieRefused, RefreshLost
  <2>4. ASSUME NEW c \in calls, ServerRefresh(c) \/ BodyRefused(c) PROVE UNCHANGED <<promise, boot, out>>
    BY <2>4 DEF ServerRefresh, BodyRefused
  <2>5. ASSUME NEW t \in Tab, Load(t) PROVE Service!Load(t)
    <3>1. out[t] = Null
      BY <1>2, <2>5 DEF Load, IInv, RequestsSound
    <3> QED BY <2>0, <2>5, <3>1 DEF Load, Service!Load, TokensTypeOK
  <2>11. ASSUME NEW t \in Tab, Unload(t) PROVE Service!Close(t)
    <3>1. /\ promise' = [promise EXCEPT ![t] = FALSE] /\ boot' = [boot EXCEPT ![t] = "no"]
          /\ out' = [out EXCEPT ![t] = Null]
      BY <2>11 DEF Unload
    <3> QED BY <2>0, <3>1 DEF Service!Close, TokensTypeOK
  <2>12. ASSUME NEW k \in strays, StrayRefresh(k) PROVE UNCHANGED <<promise, boot, out>>
    BY <2>12 DEF StrayRefresh
  <2>6. ASSUME NEW t \in Tab, NEW who, boot[t] # "no", RefreshAccessToken(t, who), UNCHANGED <<boot, out>>
        PROVE  Service!Refresh(t)
    BY <2>6 DEF RefreshAccessToken, Service!Refresh, Service!Open
  <2>7. ASSUME NEW t \in Tab, NEW r \in Request, RequestRefused(t, r)
        PROVE  [Service!ServiceNext]_(Service!serviceVars)
    <3>1. boot[t] # "no" /\ UNCHANGED <<boot, out>>
      BY <1>2, <2>7 DEF RequestRefused, IInv, RequestsSound
    <3>2. UNCHANGED promise \/ RefreshAccessToken(t, r)
      BY <2>7 DEF RequestRefused
    <3> QED BY <2>1, <2>6, <3>1, <3>2 DEF Service!ServiceNext
  <2>8. ASSUME NEW t \in Tab, StartLogout(t) PROVE Service!StartLogout(t)
    <3>1. AccessOf(t) \in TokenOrNull
      BY <2>0, HeldTyped
    <3>2. [stage |-> "sent", token |-> AccessOf(t)] # Null
      BY <3>1, LogoutAssumption DEF Logout
    <3> QED BY <2>0, <2>8, <3>2 DEF StartLogout, Service!StartLogout, Service!Open, TokensTypeOK
  <2>9. ASSUME NEW t \in Tab, LogoutAnswered(t) \/ LogoutFails(t) PROVE Service!EndLogout(t)
    BY <2>0, <2>9 DEF LogoutAnswered, LogoutFails, ClearStoredTokens, Service!EndLogout, TokensTypeOK
  <2>10. ASSUME NEW t \in Tab, ServerLogout(t) PROVE UNCHANGED Service!serviceVars
    <3> DEFINE o == [stage |-> "answered", token |-> out[t].token]
    <3>1. UNCHANGED <<promise, boot>> /\ out[t] # Null /\ out' = [out EXCEPT ![t] = o]
      BY <2>10 DEF ServerLogout
    <3>2. o # Null
      BY <2>0, <3>1, LogoutAssumption DEF TokensTypeOK, Logout
    <3> HIDE DEF o
    <3>3. \A x \in Tab : out'[x] # Null <=> out[x] # Null
      BY <2>0, <3>1, <3>2 DEF TokensTypeOK
    <3> QED BY <3>1, <3>3 DEF Service!serviceVars
  <2> QED BY <1>2, <2>1, <2>3, <2>4, <2>5, <2>6, <2>7, <2>8, <2>9, <2>10, <2>11, <2>12
          DEF TokensNext, tokenVars, Service!ServiceNext, AutoRefresh, Login, SendRequest, RequestAnswered
<1> QED BY <1>1, <1>2, Inductive, PTL DEF TokensSpec, KeepsService, Service!ServiceSpec

-----------------------------------------------------------------------------
(* One tab, one lost answer *)

(* A token of a live session is at most d rotations old. *)
Recent(table, k, d) == k # Null /\ table[k.s].state = "live" => table[k.s].last - d <= k.n

(* How far behind the server the browser may be: one rotation for every      *)
(* answer it missed, those to refreshes it gave up included, and one for an  *)
(* answer on its way.                                                        *)
Behind == IF \E c \in calls : c.answer = "rotated" THEN lost + 1 ELSE lost

(* The tab and localStorage know the same refresh token, if the tab knows    *)
(* any.                                                                      *)
OneMemory == \A t \in Tab : mem[t].refresh # Null => mem[t].refresh = store.refresh

(* What is stored lags behind by no more than the rotations that were missed *)
(* or whose answer is on its way; what is presented, and the token of an     *)
(* answer, by those that were missed.                                        *)
FamilySound ==
    /\ OneMemory
    /\ Recent(server, store.refresh, Behind) /\ Recent(server, cookie, Behind)
    /\ \A c \in calls : Recent(server, c.new, lost)
    /\ \A c \in calls : c.answer = "none" => Recent(server, c.token, lost)

(* What a step of the server makes of the age of every token. *)
LEMMA Ages ==
    ASSUME NEW old, NEW new, NEW d \in Nat, NEW e \in Nat,
           \A s \in Session : old[s].last \in Nat /\ new[s].last \in Nat,
           \A s \in Session : new[s].state = "live" =>
               \/ old[s].state = "live" /\ new[s].last - e <= old[s].last - d
               \/ new[s].last = 1
    PROVE  \A k \in TokenOrNull : Recent(old, k, d) => Recent(new, k, e)
<1> SUFFICES ASSUME NEW k \in Token, Recent(old, k, d), k # Null, new[k.s].state = "live"
             PROVE  new[k.s].last - e <= k.n
  BY DEF Recent, TokenOrNull
<1>1. k.s \in Session /\ k.n \in Nat /\ k.n >= 1
  BY DEF Token
<1>2. CASE old[k.s].state = "live" /\ new[k.s].last - e <= old[k.s].last - d
  <2>1. old[k.s].last - d <= k.n
    BY <1>2 DEF Recent
  <2> QED BY <1>1, <1>2, <2>1
<1>3. CASE new[k.s].last = 1
  BY <1>1, <1>3
<1> QED BY <1>1, <1>2, <1>3

LEMMA BehindTyped ==
    ASSUME TokensTypeOK
    PROVE  lost \in Nat /\ Behind \in Nat /\ lost <= Behind /\ Behind <= lost + 1 /\ lost <= MaxLost
  BY BoundsAssumption DEF TokensTypeOK, Behind

LEMMA BehindNext == ASSUME TokensTypeOK' PROVE lost' \in Nat /\ Behind' \in Nat
<1>1. PICK n : n = lost'
  OBVIOUS
<1>2. n \in Nat
  BY <1>1, BoundsAssumption DEF TokensTypeOK
<1>3. n + 1 \in Nat
  BY <1>2
<1>4. Behind' = n \/ Behind' = n + 1
  BY <1>1, Zenon DEF Behind
<1> QED BY <1>1, <1>2, <1>3, <1>4

LEMMA StoredTyped ==
    ASSUME TokensTypeOK
    PROVE  /\ store.refresh \in TokenOrNull /\ cookie \in TokenOrNull
           /\ \A s \in Session : server[s].last \in Nat
           /\ \A c \in calls : c.new \in TokenOrNull /\ c.token \in TokenOrNull
<1>1. store.refresh \in TokenOrNull /\ cookie \in TokenOrNull
  BY DEF TokensTypeOK, Pair
<1> QED BY <1>1, ServerGrows, CallFields

(* The one tab has one refresh under way. *)
LEMMA OneCall ==
    ASSUME IInv, OneTab, NEW c \in calls
    PROVE  calls = {c}
<1>1. \A d \in calls : d.tab \in Tab
  BY CallFields DEF IInv
<1> QED BY <1>1 DEF IInv, SingleFlight, OneTab

(* A step of the browser that puts no token into storage but one that was    *)
(* there or comes with an answer, presents only what is stored, and does not *)
(* catch up.                                                                 *)
LEMMA QuietFamily ==
    ASSUME IInv, FamilySound, TokensTypeOK', UNCHANGED server, OneMemory',
           store'.refresh \in {Null, store.refresh},
           cookie' \in {Null, cookie} \cup {c.new : c \in calls},
           Behind <= Behind', lost <= lost',
           \A c \in calls' : c \in calls \/ (c.new = Null /\ Behind <= lost'
                                             /\ c.token \in {Null, store.refresh, cookie})
    PROVE  FamilySound'
<1>0. lost' \in Nat /\ Behind' \in Nat
  BY BehindNext
<1>1. /\ lost \in Nat /\ Behind \in Nat /\ lost' \in Nat /\ Behind' \in Nat
      /\ \A s \in Session : server[s].last \in Nat
      /\ store.refresh \in TokenOrNull /\ cookie \in TokenOrNull
      /\ \A c \in calls : c.new \in TokenOrNull /\ c.token \in TokenOrNull
  BY <1>0, BehindTyped, StoredTyped DEF IInv
<1>2. ASSUME NEW d \in Nat, NEW e \in Nat, d <= e
      PROVE  \A k \in TokenOrNull : Recent(server, k, d) => Recent(server, k, e)
  <2>1. \A s \in Session : server[s].state = "live" =>
            (server[s].state = "live" /\ server[s].last - e <= server[s].last - d) \/ server[s].last = 1
    BY <1>1, <1>2
  <2> QED BY <1>1, <2>1, Ages
<1>3. \A k : Recent(server, Null, k)
  BY DEF Recent
<1>4. Recent(server, store'.refresh, Behind')
  BY <1>1, <1>2, <1>3 DEF FamilySound
<1>5. Recent(server, cookie', Behind')
  <2>1. CASE cookie' \in {Null, cookie}
    BY <1>1, <1>2, <1>3, <2>1 DEF FamilySound
  <2>2. CASE cookie' \in {c.new : c \in calls}
    <3>1. lost <= Behind'
      BY <1>1, BehindTyped DEF IInv
    <3> QED BY <1>1, <1>2, <2>2, <3>1 DEF FamilySound
  <2> QED BY <2>1, <2>2
<1>6. ASSUME NEW c \in calls' PROVE Recent(server, c.new, lost') /\ (c.answer = "none" => Recent(server, c.token, lost'))
  <2>1. CASE c \in calls
    BY <1>1, <1>2, <2>1 DEF FamilySound
  <2>2. CASE c.new = Null /\ Behind <= lost' /\ c.token \in {Null, store.refresh, cookie}
    BY <1>1, <1>2, <1>3, <2>2 DEF FamilySound
  <2> QED BY <2>1, <2>2
<1> QED BY <1>4, <1>5, <1>6 DEF FamilySound

LEMMA MemoryOf ==
    ASSUME TokensTypeOK, OneTab, NEW t \in Tab, NEW m, mem' = [mem EXCEPT ![t] = m],
           m.refresh # Null => m.refresh = store'.refresh
    PROVE  OneMemory'
<1> SUFFICES ASSUME NEW x \in Tab PROVE mem'[x] = m
  BY DEF OneMemory
<1> QED BY DEF OneTab, TokensTypeOK

LEMMA OneRefresh ==
    ASSUME IInv, OneTab, FamilySound, NEW t \in Tab
    PROVE  RefreshOf(t) = store.refresh
  BY DEF RefreshOf, FamilySound, OneMemory

(* Without an answer on its way the browser is behind by what was lost. *)
LEMMA NoAnswer ==
    /\ (\A d \in calls : d.answer # "rotated") => Behind = lost
    /\ (\A d \in calls' : d.answer # "rotated") => Behind' = lost'
  BY DEF Behind

(* A refresh that fails, or whose answer is lost. *)
LEMMA GivenUp ==
    ASSUME IInv, IInv', OneTab, FamilySound, NEW c \in calls, NEW m, NEW s,
           Resolve(c, Null, m, s), UNCHANGED server,
           m.refresh # Null => m.refresh = s.refresh, s.refresh \in {Null, store.refresh},
           cookie' = cookie \/ cookie' = c.new, lost <= lost', Behind <= lost'
    PROVE  FamilySound'
<1>1. c.tab \in Tab /\ TokensTypeOK /\ TokensTypeOK'
  BY CallFields DEF IInv
<1>2. calls' = {}
  BY OneCall DEF Resolve
<1>3. Behind' = lost'
  BY <1>2, NoAnswer
<1>4. PICK mm, ss : /\ mem' = [mem EXCEPT ![c.tab] = mm] /\ store' = ss
                    /\ (mm = m /\ ss = s) \/ (mm = Nothing /\ ss = Nothing)
  BY DEF Resolve
<1>5. OneMemory' /\ store'.refresh \in {Null, store.refresh}
  <2>1. mm.refresh # Null => mm.refresh = store'.refresh
    BY <1>4 DEF Nothing
  <2>2. OneMemory'
    BY <1>1, <1>4, <2>1, MemoryOf
  <2> QED BY <1>4, <2>2 DEF Nothing
<1>6. cookie' \in {Null, cookie} \cup {d.new : d \in calls}
  OBVIOUS
<1> QED BY <1>1, <1>2, <1>3, <1>5, <1>6, QuietFamily

LEMMA CookieFamily ==
    ASSUME IInv, IInv', OneTab, FamilySound, NEW c \in calls, CookieRefused(c)
    PROVE  FamilySound'
<1>1. Resolve(c, Null, mem[c.tab], store) /\ UNCHANGED <<cookie, server, strays, lost>> /\ c.answer = "refused"
  BY DEF CookieRefused
<1>2. Behind = lost
  BY <1>1, OneCall, NoAnswer
<1>3. mem[c.tab].refresh # Null => mem[c.tab].refresh = store.refresh
  BY CallFields DEF IInv, FamilySound, OneMemory
<1>4. lost \in Nat
  BY BehindTyped DEF IInv
<1> QED BY <1>1, <1>2, <1>3, <1>4, GivenUp

(* What is given up is what the browser was behind for. *)
LEMMA GivenUpBehind ==
    ASSUME IInv, NEW C \in SUBSET calls, GiveUp(C), C = calls
    PROVE  /\ lost <= lost' /\ Behind <= lost'
           /\ cookie' = cookie \/ \E c \in C : cookie' = c.new
<1>1. lost \in Nat /\ Behind <= lost + 1 /\ TokensTypeOK
  BY BehindTyped DEF IInv
<1>2. cookie' = cookie \/ \E c \in C : cookie' = c.new
  BY GivenUpTyped
<1>3. CASE \E c \in C : c.answer = "rotated"
  <2>1. lost' = lost + 1
    BY <1>3, GivenUpTyped
  <2> QED BY <1>1, <1>2, <2>1
<1>4. CASE \A c \in C : c.answer # "rotated"
  <2>1. lost' = lost
    BY <1>4, GivenUpTyped
  <2>2. Behind = lost
    BY <1>4, NoAnswer
  <2> QED BY <1>1, <1>2, <2>1, <2>2
<1> QED BY <1>3, <1>4

LEMMA LostFamily ==
    ASSUME IInv, IInv', OneTab, FamilySound, NEW c \in calls, RefreshLost(c)
    PROVE  FamilySound'
<1> DEFINE m == mem[c.tab]
<1>1. c.tab \in Tab /\ m \in Pair /\ store \in Pair /\ TokensTypeOK /\ Null \in TokenOrNull
  BY CallFields DEF IInv, TokensTypeOK, TokenOrNull
<1>2. /\ \/ Resolve(c, Null, WithoutRefresh(m), WithoutRefresh(store))
         \/ Resolve(c, Null, m, store)
      /\ UNCHANGED server /\ GiveUp({c})
  BY DEF RefreshLost
<1>3. m.refresh # Null => m.refresh = store.refresh
  BY <1>1 DEF FamilySound, OneMemory
<1>4. WithoutRefresh(m).refresh = Null /\ WithoutRefresh(store).refresh = Null
  BY <1>1, PairTyped
<1>5. lost <= lost' /\ Behind <= lost' /\ (cookie' = cookie \/ cookie' = c.new)
  BY <1>2, OneCall, GivenUpBehind
<1> HIDE DEF m
<1>6. CASE Resolve(c, Null, WithoutRefresh(m), WithoutRefresh(store))
  BY <1>2, <1>4, <1>5, <1>6, GivenUp
<1>7. CASE Resolve(c, Null, m, store)
  BY <1>2, <1>3, <1>5, <1>7, GivenUp
<1> QED BY <1>2, <1>6, <1>7

(* Everything the browser has is the new token, which only strays can have  *)
(* rotated since.                                                            *)
LEMMA ArrivesFamily ==
    ASSUME IInv, IInv', OneTab, FamilySound, NEW c \in calls, RefreshArrives(c)
    PROVE  FamilySound'
<1>1. /\ c.tab \in Tab /\ c.new \in TokenOrNull /\ c.new # Null /\ TokensTypeOK
      /\ Both(c.new).refresh = c.new
  BY CallFields DEF IInv, CallsSound, RefreshArrives, Both
<1>2. /\ mem' = [mem EXCEPT ![c.tab] = Both(c.new)] /\ store' = Both(c.new)
      /\ cookie' = c.new /\ server' = server /\ calls' = calls \ {c}
      /\ lost' = IF c.new.n = server[c.new.s].last THEN 0 ELSE lost
  BY <1>1 DEF RefreshArrives, CaughtUp, Resolve, ClearsTokens
<1>3. calls' = {} /\ Behind' = lost'
  BY <1>2, OneCall, NoAnswer
<1>4. OneMemory'
  BY <1>1, <1>2, MemoryOf
<1>5. Recent(server, c.new, lost')
  <2>1. Recent(server, c.new, lost)
    BY DEF FamilySound
  <2>2. CASE c.new.n = server[c.new.s].last
    <3>1. c.new \in Token /\ server[c.new.s].last \in Nat
      BY <1>1, ServerGrows DEF TokenOrNull, Token
    <3> QED BY <1>2, <2>2, <3>1 DEF Recent
  <2> QED BY <1>2, <2>1, <2>2
<1> QED BY <1>1, <1>2, <1>3, <1>4, <1>5 DEF FamilySound

LEMMA BodyFamily ==
    ASSUME IInv, IInv', OneTab, FamilySound, NEW c \in calls, BodyRefused(c)
    PROVE  FamilySound'
<1> DEFINE d == [c EXCEPT !.stage = "cookie", !.token = cookie, !.answer = "none"]
<1>1. /\ c \in Call /\ c.tab \in Tab /\ mem[c.tab] \in Pair /\ store \in Pair /\ Null \in TokenOrNull
      /\ TokensTypeOK /\ TokensTypeOK' /\ cookie \in TokenOrNull /\ c.answer = "refused" /\ c.new = Null
  BY CallFields DEF IInv, TokensTypeOK, TokenOrNull, BodyRefused, CallsSound
<1>2. /\ mem' = [mem EXCEPT ![c.tab] = WithoutRefresh(mem[c.tab])] /\ store' = WithoutRefresh(store)
      /\ calls' = (calls \ {c}) \cup {d} /\ UNCHANGED <<cookie, server, strays, lost>>
  BY DEF BodyRefused
<1>3. d.answer = "none" /\ d.new = Null /\ d.token = cookie
  BY <1>1 DEF Call
<1> HIDE DEF d
<1>4. calls' = {d} /\ Behind = lost /\ Behind' = lost'
  BY <1>1, <1>2, <1>3, OneCall, NoAnswer
<1>5. WithoutRefresh(mem[c.tab]).refresh = Null /\ WithoutRefresh(store).refresh = Null
  BY <1>1, PairTyped
<1>6. OneMemory'
  BY <1>1, <1>2, <1>5, MemoryOf
<1>7. lost \in Nat
  BY <1>1, BehindTyped
<1> QED BY <1>1, <1>2, <1>3, <1>4, <1>5, <1>6, <1>7, QuietFamily

LEMMA LoadFamily ==
    ASSUME IInv, IInv', OneTab, FamilySound, NEW t \in Tab, Load(t)
    PROVE  FamilySound'
<1> DEFINE k == Migrated(store).refresh
           n == CallWith(t, "bootstrap", k)
<1>1. /\ store' = Migrated(store) /\ boot[t] = "no" /\ calls' = calls \cup {n}
      /\ UNCHANGED <<mem, cookie, server, lost>> /\ TokensTypeOK /\ TokensTypeOK'
  BY DEF Load, IInv
<1>2. Nothing.refresh = Null /\ Null \in TokenOrNull /\ "bootstrap" \in Caller
  BY DEF Nothing, TokenOrNull, Caller, Direct
<1>3. k \in {Null, store.refresh} /\ k \in TokenOrNull
  BY <1>1, <1>2, StoredTyped DEF Migrated
<1>4. n.new = Null /\ n.answer = "none" /\ n.token \in {Null, store.refresh, cookie}
  BY <1>1, <1>2, <1>3, CallTyped
<1>5. calls = {} /\ \A x \in Tab : mem[x] = Nothing
  <2>1. \A x \in Tab : x = t
    BY DEF OneTab
  <2>2. ~promise[t] /\ mem[t] = Nothing
    BY <1>1 DEF IInv, RequestsSound
  <2> QED BY <1>1, <2>1, <2>2, CallFields DEF IInv, CallsSound
<1>6. calls' = {n} /\ Behind = lost /\ Behind' = lost'
  <2>1. calls' = {n}
    BY <1>1, <1>5
  <2> HIDE DEF n
  <2> QED BY <1>4, <1>5, <2>1, NoAnswer
<1>7. lost \in Nat
  BY <1>1, BehindTyped
<1>8. OneMemory'
  BY <1>1, <1>2, <1>5 DEF OneMemory
<1>9. store'.refresh \in {Null, store.refresh}
  BY <1>1, <1>3
<1> HIDE DEF n, k
<1> QED BY <1>1, <1>4, <1>6, <1>7, <1>8, <1>9, QuietFamily

LEMMA UnloadFamily ==
    ASSUME IInv, IInv', OneTab, FamilySound, NEW t \in Tab, Unload(t)
    PROVE  FamilySound'
<1> DEFINE mine == {c \in calls : c.tab = t}
<1>1. /\ mem' = [mem EXCEPT ![t] = Nothing] /\ calls' = calls \ mine /\ GiveUp(mine)
      /\ UNCHANGED <<store, server>> /\ TokensTypeOK /\ TokensTypeOK' /\ Nothing.refresh = Null
  BY DEF Unload, IInv, Nothing
<1>2. mine = calls
  BY <1>1, CallFields DEF OneTab
<1> HIDE DEF mine
<1>3. lost <= lost' /\ Behind <= lost' /\ (cookie' = cookie \/ \E c \in calls : cookie' = c.new)
  BY <1>1, <1>2, GivenUpBehind
<1>4. calls' = {} /\ Behind' = lost'
  <2>1. calls' = {}
    BY <1>1, <1>2
  <2> QED BY <2>1, NoAnswer
<1>5. OneMemory'
  BY <1>1, MemoryOf
<1>6. cookie' \in {Null, cookie} \cup {c.new : c \in calls}
  BY <1>3
<1> QED BY <1>1, <1>3, <1>4, <1>5, <1>6, QuietFamily

(* A stray that rotates makes everything the browser has a rotation older,   *)
(* and one that is taken for a reuse ends the session.                       *)
LEMMA StrayFamily ==
    ASSUME IInv, IInv', FamilySound, NEW k \in strays, StrayRefresh(k)
    PROVE  FamilySound'
<1>1. /\ UNCHANGED <<mem, store, cookie, calls>> /\ TokensTypeOK /\ TokensTypeOK'
      /\ lost \in Nat /\ Behind \in Nat
      /\ \A z \in Session : server[z].last \in Nat
      /\ store.refresh \in TokenOrNull /\ cookie \in TokenOrNull
      /\ \A c \in calls : c.new \in TokenOrNull /\ c.token \in TokenOrNull
  BY BehindTyped, StoredTyped DEF IInv, StrayRefresh
<1>0. PICK new, n : new = server' /\ n = lost'
  OBVIOUS
<1>2. PICK e \in Nat :
        /\ n = lost + e
        /\ \A z \in Session : new[z].last \in Nat /\ new[z].last <= server[z].last + e
        /\ \A z \in Session : new[z].state = "live" => server[z].state = "live"
  <2>0. \A z \in Session : new[z].state = "live" => server[z].state = "live"
    BY <1>0, <1>1, StrayStep
  <2>1. CASE n = lost + 1 /\ \A z \in Session : new[z].last \in {server[z].last, server[z].last + 1}
    <3>1. \A z \in Session : new[z].last \in Nat /\ new[z].last <= server[z].last + 1
      BY <1>1, <2>1
    <3> QED BY <2>0, <2>1, <3>1
  <2>2. CASE n = lost /\ \A z \in Session : new[z].last = server[z].last
    <3>1. n = lost + 0 /\ \A z \in Session : new[z].last \in Nat /\ new[z].last <= server[z].last + 0
      BY <1>1, <2>2
    <3> QED BY <2>0, <3>1
  <2> QED BY <1>0, <1>1, <2>1, <2>2, StrayStep
<1>3. Behind' = Behind + e
  <2>1. CASE \E c \in calls : c.answer = "rotated"
    BY <1>0, <1>1, <1>2, <2>1 DEF Behind
  <2>2. CASE ~\E c \in calls : c.answer = "rotated"
    BY <1>0, <1>1, <1>2, <2>2 DEF Behind
  <2> QED BY <2>1, <2>2
<1>4. ASSUME NEW d \in Nat PROVE \A x \in TokenOrNull : Recent(server, x, d) => Recent(server', x, d + e)
  <2>1. d + e \in Nat
    OBVIOUS
  <2>2. ASSUME NEW z \in Session, new[z].state = "live"
        PROVE  server[z].state = "live" /\ new[z].last - (d + e) <= server[z].last - d
    <3>1. PICK a, b : a = new[z].last /\ b = server[z].last
      OBVIOUS
    <3>2. a \in Nat /\ b \in Nat /\ a <= b + e /\ server[z].state = "live"
      BY <1>1, <1>2, <2>2, <3>1
    <3>3. a - (d + e) <= b - d
      BY <3>2
    <3> QED BY <3>1, <3>2, <3>3
  <2>3. (\A z \in Session : new[z].last \in Nat) /\ (\A z \in Session : server[z].last \in Nat)
    BY <1>1, <1>2
  <2>4. \A x \in TokenOrNull : Recent(server, x, d) => Recent(new, x, d + e)
    BY <2>1, <2>2, <2>3, Ages
  <2> QED BY <1>0, <2>4
<1>5. Recent(server', store'.refresh, Behind') /\ Recent(server', cookie', Behind')
  BY <1>1, <1>3, <1>4 DEF FamilySound
<1>6. \A c \in calls' : Recent(server', c.new, lost') /\ (c.answer = "none" => Recent(server', c.token, lost'))
  BY <1>0, <1>1, <1>2, <1>4 DEF FamilySound
<1>7. OneMemory'
  BY <1>1 DEF FamilySound, OneMemory
<1> QED BY <1>5, <1>6, <1>7 DEF FamilySound

(* A refresh that is asked for presents what is stored. *)
LEMMA AskedFamily ==
    ASSUME IInv, IInv', OneTab, FamilySound, NEW t \in Tab, NEW who \in Caller,
           RefreshAccessToken(t, who), UNCHANGED <<mem, store, cookie, server, strays, lost>>
    PROVE  FamilySound'
<1> DEFINE n == CallWith(t, who, RefreshOf(t))
<1>1. TokensTypeOK /\ TokensTypeOK' /\ RefreshOf(t) \in TokenOrNull /\ RefreshOf(t) = store.refresh
  BY HeldTyped, OneRefresh DEF IInv
<1>2. n.new = Null /\ n.answer = "none" /\ n.token \in {store.refresh, cookie}
  BY <1>1, CallTyped
<1> HIDE DEF n
<1>3. calls' = IF promise[t] THEN calls ELSE calls \cup {n}
  BY DEF RefreshAccessToken, NewCall, n
<1>4. OneMemory'
  BY DEF FamilySound, OneMemory
<1>5. lost \in Nat
  BY <1>1, BehindTyped
<1>6. CASE promise[t]
  <2>1. calls' = calls /\ Behind' = Behind
    BY <1>3, <1>6 DEF Behind
  <2> QED BY <1>1, <1>4, <1>5, <2>1, BehindTyped, QuietFamily
<1>7. CASE ~promise[t]
  <2>1. calls = {}
    BY <1>1, <1>7, CallFields DEF IInv, CallsSound, OneTab
  <2>2. calls' = {n}
    BY <1>3, <1>7, <2>1
  <2>3. Behind = lost /\ Behind' = lost'
    BY <1>2, <2>1, <2>2, NoAnswer
  <2> QED BY <1>1, <1>2, <1>4, <1>5, <2>2, <2>3, QuietFamily
<1> QED BY <1>6, <1>7

(* Steps that leave tokens and calls alone, or clear what is stored. *)
LEMMA ClearedFamily ==
    ASSUME IInv, IInv', FamilySound, OneTab, NEW t \in Tab, UNCHANGED <<calls, lost, server>>,
           \/ UNCHANGED <<mem, store>>
           \/ mem' = [mem EXCEPT ![t] = Nothing] /\ store' = Nothing,
           cookie' \in {Null, cookie}
    PROVE  FamilySound'
<1>1. TokensTypeOK /\ TokensTypeOK' /\ Nothing.refresh = Null
  BY DEF IInv, Nothing
<1>2. Behind' = Behind
  BY DEF Behind
<1>3. OneMemory'
  <2>1. CASE UNCHANGED <<mem, store>>
    BY <2>1 DEF FamilySound, OneMemory
  <2>2. CASE mem' = [mem EXCEPT ![t] = Nothing] /\ store' = Nothing
    BY <1>1, <2>2, MemoryOf
  <2> QED BY <2>1, <2>2
<1>4. store'.refresh \in {Null, store.refresh}
  BY <1>1
<1> QED BY <1>1, <1>2, <1>3, <1>4, BehindTyped, QuietFamily

LEMMA LoginFamily ==
    ASSUME IInv, IInv', OneTab, FamilySound, NEW t \in Tab, Login(t)
    PROVE  FamilySound'
<1>1. PICK s \in Session :
        /\ server[s].state = "none"
        /\ server' = [server EXCEPT ![s] = [last |-> 1, state |-> "live"]]
        /\ mem' = [mem EXCEPT ![t] = Both([s |-> s, n |-> 1])]
        /\ store' = Both([s |-> s, n |-> 1]) /\ cookie' = [s |-> s, n |-> 1]
  BY DEF Login
<1> DEFINE k == [s |-> s, n |-> 1]
<1>2. /\ TokensTypeOK /\ lost \in Nat /\ Behind \in Nat /\ UNCHANGED <<calls, lost>> /\ Behind' = Behind
      /\ \A z \in Session : server[z].last \in Nat
      /\ \A c \in calls : c.new \in TokenOrNull /\ c.token \in TokenOrNull
  BY BehindTyped, StoredTyped DEF IInv, Login, Behind
<1>3. k.s = s /\ k.n = 1 /\ Both(k).refresh = k
  BY DEF Both
<1>4. cookie' = k /\ store' = Both(k) /\ mem' = [mem EXCEPT ![t] = Both(k)]
  BY <1>1
<1> HIDE DEF k
<1>5. server'[s] = [last |-> 1, state |-> "live"] /\ \A z \in Session : z # s => server'[z] = server[z]
  BY <1>1, <1>2 DEF TokensTypeOK
<1>6. \A z \in Session : server'[z].last \in Nat
  BY <1>2, <1>5
<1>7. ASSUME NEW d \in Nat PROVE \A x \in TokenOrNull : Recent(server, x, d) => Recent(server', x, d)
  <2>1. \A z \in Session : server'[z].state = "live" =>
            \/ server[z].state = "live" /\ server'[z].last - d <= server[z].last - d
            \/ server'[z].last = 1
    BY <1>2, <1>5
  <2> QED BY <1>2, <1>6, <2>1, Ages
<1>8. Recent(server', k, Behind')
  BY <1>2, <1>3, <1>5 DEF Recent
<1>9. \A c \in calls' : Recent(server', c.new, lost') /\ (c.answer = "none" => Recent(server', c.token, lost'))
  BY <1>2, <1>7 DEF FamilySound
<1>10. OneMemory'
  BY <1>2, <1>3, <1>4, MemoryOf
<1> QED BY <1>3, <1>4, <1>8, <1>9, <1>10 DEF FamilySound

(* The server ends a session, or notices nothing. *)
LEMMA EndedFamily ==
    ASSUME IInv, IInv', FamilySound, NEW t \in Tab, ServerLogout(t)
    PROVE  FamilySound'
<1>1. /\ UNCHANGED <<mem, store, cookie, calls, lost>> /\ Behind' = Behind
      /\ TokensTypeOK /\ lost \in Nat /\ Behind \in Nat
      /\ \A z \in Session : server[z].last \in Nat
      /\ store.refresh \in TokenOrNull /\ cookie \in TokenOrNull
      /\ \A c \in calls : c.new \in TokenOrNull /\ c.token \in TokenOrNull
  BY BehindTyped, StoredTyped DEF IInv, ServerLogout, Behind
<1>2. \A z \in Session : /\ server'[z].last = server[z].last
                         /\ server'[z].state = server[z].state \/ server'[z].state = "ended"
  <2>1. CASE server' = server
    BY <2>1
  <2>2. CASE server' # server
    <3>1. Known(out[t].token) /\ server' = [server EXCEPT ![out[t].token.s].state = "ended"] /\ out[t] # Null
      BY <2>2 DEF ServerLogout
    <3>2. out[t].token.s \in Session
      BY <1>1, <3>1 DEF Known, TokensTypeOK, Logout, TokenOrNull, Token
    <3> DEFINE z == out[t].token.s
               v == [server[z] EXCEPT !.state = "ended"]
    <3>3. server' = [server EXCEPT ![z] = v]
      BY <3>1
    <3>4. v.last = server[z].last /\ v.state = "ended"
      BY <1>1, <3>2, ServerGrows
    <3> HIDE DEF v, z
    <3> QED BY <1>1, <3>3, <3>4 DEF TokensTypeOK
  <2> QED BY <2>1, <2>2
<1>3. ASSUME NEW d \in Nat PROVE \A x \in TokenOrNull : Recent(server, x, d) => Recent(server', x, d)
  <2>1. \A z \in Session : server'[z].state = "live" =>
            server[z].state = "live" /\ server'[z].last - d <= server[z].last - d
    BY <1>1, <1>2
  <2>2. \A z \in Session : server'[z].last \in Nat
    BY <1>1, <1>2
  <2> QED BY <1>1, <2>1, <2>2, Ages
<1>5. Recent(server', store.refresh, Behind) /\ Recent(server', cookie, Behind)
  BY <1>1, <1>3 DEF FamilySound
<1>6. \A c \in calls : Recent(server', c.new, lost) /\ (c.answer = "none" => Recent(server', c.token, lost))
  BY <1>1, <1>3 DEF FamilySound
<1>7. OneMemory'
  BY <1>1 DEF FamilySound, OneMemory
<1> QED BY <1>1, <1>5, <1>6, <1>7 DEF FamilySound

(* What is presented is the last token or the one before: no reuse. *)
LEMMA PresentsRecent ==
    ASSUME IInv, FamilySound, MaxLost <= 1, NEW c \in calls, c.answer = "none", Known(c.token)
    PROVE  Rotates(c.token)
<1>1. /\ TokensTypeOK /\ lost \in Nat /\ lost <= 1 /\ c.token \in Token
      /\ server[c.token.s].state = "live"
  BY BehindTyped, CallFields, BoundsAssumption DEF IInv, Known, TokenOrNull
<1>2. server[c.token.s].last \in Nat /\ c.token.n \in Nat
  BY <1>1, ServerGrows DEF Token
<1>3. c.token.n <= server[c.token.s].last
  <2>1. Holds(c.token) /\ c.token \in TokenOrNull
    BY <1>1 DEF Holds, TokenOrNull
  <2>2. c.token # Null
    BY DEF Known
  <2> QED BY <2>1, <2>2 DEF IInv, Issued, IssuedTo
<1>4. server[c.token.s].last - lost <= c.token.n
  BY <1>1 DEF FamilySound, Recent, Known
<1> QED BY <1>1, <1>2, <1>3, <1>4 DEF Rotates

LEMMA ServerFamily ==
    ASSUME IInv, IInv', OneTab, FamilySound, NEW c \in calls, ServerRefresh(c)
    PROVE  FamilySound'
<1>1. /\ UNCHANGED <<mem, store, cookie, lost>> /\ c.answer = "none" /\ c.new = Null
      /\ TokensTypeOK /\ lost \in Nat /\ Behind = lost /\ c \in Call /\ c.token \in TokenOrNull
      /\ \A z \in Session : server[z].last \in Nat
      /\ store.refresh \in TokenOrNull /\ cookie \in TokenOrNull
  <2>1. c.answer = "none" /\ c.new = Null
    BY DEF ServerRefresh, IInv, CallsSound
  <2>2. Behind = lost
    BY <2>1, OneCall, NoAnswer
  <2> QED BY <2>1, <2>2, BehindTyped, StoredTyped, CallFields DEF IInv, ServerRefresh
<1>2. OneMemory'
  BY <1>1 DEF FamilySound, OneMemory
<1>3. ASSUME NEW k, k = Rotated(c.token), Rotates(c.token), MayIssue(c.token.s),
             calls' = (calls \ {c}) \cup {[c EXCEPT !.answer = "rotated", !.new = k]},
             server' = [server EXCEPT ![c.token.s].last = @ + 1]
      PROVE  FamilySound'
  <2> DEFINE new == [c EXCEPT !.answer = "rotated", !.new = k]
             z == c.token.s
             v == [server[z] EXCEPT !.last = server[z].last + 1]
  <2>1. z \in Session /\ server[z].state = "live"
    BY <1>1, <1>3 DEF Rotates, Known, TokenOrNull, Token
  <2>2. k.s = z /\ k.n = server[z].last + 1
    BY <1>3 DEF Rotated
  <2>3. v.last = server[z].last + 1 /\ v.state = "live"
    BY <1>1, <2>1, ServerGrows
  <2>4. server'[z] = v /\ \A x \in Session : x # z => server'[x] = server[x]
    BY <1>1, <1>3, <2>1 DEF TokensTypeOK
  <2>5. new.answer = "rotated" /\ new.new = k
    BY <1>1 DEF Call
  <2>6. calls' = {new}
    BY <1>3, OneCall
  <2> HIDE DEF new, v, z
  <2>7. Behind' = lost + 1
    BY <1>1, <2>5, <2>6 DEF Behind
  <2>8. \A x \in TokenOrNull : Recent(server, x, lost) => Recent(server', x, lost + 1)
    <3>1. \A x \in Session : server'[x].last \in Nat
      BY <1>1, <2>3, <2>4
    <3>2. \A x \in Session : server'[x].state = "live" =>
              server[x].state = "live" /\ server'[x].last - (lost + 1) <= server[x].last - lost
      BY <1>1, <2>1, <2>3, <2>4
    <3>3. lost + 1 \in Nat
      BY <1>1
    <3> QED BY <1>1, <3>1, <3>2, <3>3, Ages
  <2>9. Recent(server', store.refresh, lost + 1) /\ Recent(server', cookie, lost + 1)
    BY <1>1, <2>8 DEF FamilySound
  <2>10. Recent(server', k, lost')
    BY <1>1, <2>1, <2>2, <2>3, <2>4 DEF Recent
  <2> QED BY <1>1, <1>2, <2>5, <2>6, <2>7, <2>9, <2>10 DEF FamilySound
<1>4. CASE calls' = (calls \ {c}) \cup {[c EXCEPT !.answer = "refused"]} /\ server' = server
  <2> DEFINE old == [c EXCEPT !.answer = "refused"]
  <2>1. old.answer = "refused" /\ old.new = Null
    BY <1>1 DEF Call
  <2>2. calls' = {old}
    BY <1>4, OneCall
  <2> HIDE DEF old
  <2>3. Behind' = lost
    BY <1>1, <2>1, <2>2, NoAnswer
  <2>4. Recent(server, Null, lost)
    BY DEF Recent
  <2> QED BY <1>1, <1>2, <1>4, <2>1, <2>2, <2>3, <2>4 DEF FamilySound
<1>5. CASE /\ calls' = (calls \ {c}) \cup {[c EXCEPT !.answer = "refused"]} /\ Known(c.token)
           /\ server' = [server EXCEPT ![c.token.s].state = "reused"]
  <2> DEFINE old == [c EXCEPT !.answer = "refused"]
             z == c.token.s
             v == [server[z] EXCEPT !.state = "reused"]
  <2>1. old.answer = "refused" /\ old.new = Null
    BY <1>1 DEF Call
  <2>2. calls' = {old}
    BY <1>5, OneCall
  <2>3. z \in Session
    BY <1>1, <1>5 DEF Known, TokenOrNull, Token
  <2>4. v.last = server[z].last /\ v.state = "reused"
    BY <1>1, <2>3, ServerGrows
  <2>5. server'[z] = v /\ \A x \in Session : x # z => server'[x] = server[x]
    BY <1>1, <1>5, <2>3 DEF TokensTypeOK
  <2> HIDE DEF old, v, z
  <2>6. Behind' = lost
    BY <1>1, <2>1, <2>2, NoAnswer
  <2>7. \A x \in TokenOrNull : Recent(server, x, lost) => Recent(server', x, lost)
    <3>1. \A x \in Session : server'[x].last \in Nat
      BY <1>1, <2>4, <2>5
    <3>2. \A x \in Session : server'[x].state = "live" =>
              server[x].state = "live" /\ server'[x].last - lost <= server[x].last - lost
      BY <1>1, <2>4, <2>5
    <3> QED BY <1>1, <3>1, <3>2, Ages
  <2>8. Recent(server', Null, lost)
    BY DEF Recent
  <2> QED BY <1>1, <1>2, <2>1, <2>2, <2>6, <2>7, <2>8 DEF FamilySound
<1> QED BY <1>1, <1>3, <1>4, <1>5 DEF ServerRefresh

LEMMA FamilyNext ==
    ASSUME IInv, IInv', OneTab, FamilySound, [TokensNext]_tokenVars
    PROVE  FamilySound'
<1>1. CASE UNCHANGED tokenVars
  BY <1>1 DEF tokenVars, FamilySound, OneMemory, Behind
<1>2. ASSUME NEW t \in Tab, AutoRefresh(t) PROVE FamilySound'
  <2>1. "autoRefresh" \in Caller
    BY DEF Caller, Direct
  <2> QED BY <1>2, <2>1, AskedFamily DEF AutoRefresh
<1>3. ASSUME NEW t \in Tab, StartLogout(t) \/ LogoutAnswered(t) \/ LogoutFails(t) PROVE FamilySound'
  BY <1>3, ClearedFamily DEF StartLogout, LogoutAnswered, LogoutFails, ClearStoredTokens
<1>4. ASSUME NEW t \in Tab, NEW r \in Request, SendRequest(t, r) \/ RequestAnswered(t, r) \/ RequestRefused(t, r)
      PROVE  FamilySound'
  <2>1. r \in Caller
    BY DEF Caller
  <2>2. UNCHANGED <<mem, store, cookie, server, strays, lost>> /\ (UNCHANGED calls \/ RefreshAccessToken(t, r))
    BY <1>4 DEF SendRequest, RequestAnswered, RequestRefused
  <2>3. CASE UNCHANGED calls
    BY <2>2, <2>3, ClearedFamily
  <2>4. CASE RefreshAccessToken(t, r)
    BY <2>1, <2>2, <2>4, AskedFamily
  <2> QED BY <2>2, <2>3, <2>4
<1> QED BY <1>1, <1>2, <1>3, <1>4, ServerFamily, ArrivesFamily, BodyFamily, CookieFamily, LostFamily,
        StrayFamily, UnloadFamily, LoadFamily, LoginFamily, EndedFamily DEF TokensNext

LEMMA FamilyInit == ASSUME TokensInit PROVE FamilySound
<1>1. /\ \A t \in Tab : mem[t] = Nothing
      /\ calls = {} /\ lost = 0 /\ Behind = 0
  BY NoAnswer DEF TokensInit
<1>2. PICK in \in BOOLEAN :
        /\ store = IF in THEN Both([s |-> 1, n |-> 1]) ELSE Nothing
        /\ cookie = IF in THEN [s |-> 1, n |-> 1] ELSE Null
        /\ server = [s \in Session |-> IF in /\ s = 1 THEN [last |-> 1, state |-> "live"]
                                                      ELSE [last |-> 0, state |-> "none"]]
  BY DEF TokensInit
<1>3. \A s \in Session : server[s].state # "reused"
  BY <1>2
<1>4. 1 \in Session
  BY BoundsAssumption DEF Session
<1>5. CASE in
  <2>1. store.refresh = [s |-> 1, n |-> 1] /\ cookie = [s |-> 1, n |-> 1] /\ server[1].last = 1
    BY <1>2, <1>4, <1>5 DEF Both
  <2>2. Recent(server, [s |-> 1, n |-> 1], 0)
    BY <2>1 DEF Recent
  <2> QED BY <1>1, <1>3, <2>1, <2>2 DEF FamilySound, OneMemory, Nothing
<1>6. CASE ~in
  BY <1>1, <1>2, <1>3, <1>6 DEF FamilySound, OneMemory, Nothing, Recent
<1> QED BY <1>5, <1>6

(* In a browser with one tab no token older than the last but one is ever    *)
(* presented, whatever is reloaded, refused, given up or processed late,     *)
(* while the browser misses no two rotations in a row: the server never      *)
(* takes a refresh the page waits for for a theft (auth.ts, doRefresh and    *)
(* applyRefreshResult).                                                      *)
THEOREM FamilyAlwaysKept == TokensSpec => []KeepsFamily
<1>1. CASE OneTab /\ MaxLost <= 1
  <2>1. TokensInit => FamilySound
    BY FamilyInit
  <2>2. IInv /\ IInv' /\ FamilySound /\ [TokensNext]_tokenVars => FamilySound'
    BY <1>1, FamilyNext
  <2>3. IInv /\ FamilySound => KeepsFamily
    BY <1>1, PresentsRecent DEF KeepsFamily
  <2> QED BY <2>1, <2>2, <2>3, Inductive, PTL DEF TokensSpec
<1>2. CASE ~(OneTab /\ MaxLost <= 1)
  <2>1. KeepsFamily
    BY <1>2 DEF KeepsFamily
  <2> QED BY <2>1, PTL
<1> QED BY <1>1, <1>2

=============================================================================
