----------------------------- MODULE WebSession -----------------------------
(***************************************************************************)
(* The session the web client shows (apps/context/AuthContext.tsx) and     *)
(* keeps (apps/lib/api/session-persistence.ts), on top of what auth.ts     *)
(* promises (TokenService).                                                *)
(*                                                                         *)
(* The session record lives in localStorage, which the tabs share, and in  *)
(* a copy of each tab (sessionStorage and a window variable) that is read  *)
(* when localStorage has none.  A tab that saves, updates or clears the    *)
(* record tells the others over a BroadcastChannel, and a tab that is told *)
(* writes what it is told to both.                                         *)
(*                                                                         *)
(* A record is named by its access token.  Its age is not kept: a read may *)
(* find it fresh, due for a refresh or expired.                            *)
(***************************************************************************)
EXTENDS TokenService, Naturals, Sequences

CONSTANT MaxInbox   \* bound: messages on their way to a tab before another is sent

VARIABLES
    record,   \* the session record in localStorage, or Null
    own,      \* tab -> its own copy of the record
    ui,       \* tab -> status and accessToken of the context
    inbox,    \* tab -> SESSION_SYNC messages on their way to it
    auto,     \* tab -> whether the periodic refresh awaits refreshAccessToken
    timer     \* tab -> whether the inactivity timeout is armed

sessionVars == <<record, own, ui, inbox, auto, timer>>
vars == <<serviceVars, sessionVars>>

ASSUME NullAssumption == Null \notin Token

TokenOrNull == Token \cup {Null}

(* A session is shown exactly when there is an access token to use. *)
Ui == [status : {"authenticated"}, access : Token]
      \cup [status : {"loading", "unauthenticated"}, access : {Null}]

TypeOK ==
    /\ ServiceTypeOK
    /\ record \in TokenOrNull
    /\ own \in [Tab -> TokenOrNull]
    /\ ui \in [Tab -> Ui]
    /\ inbox \in [Tab -> Seq(TokenOrNull)]
    /\ auto \in [Tab -> BOOLEAN]
    /\ timer \in [Tab -> BOOLEAN]

Init ==
    /\ ServiceInit
    /\ record = Null
    /\ own = [t \in Tab |-> Null]
    /\ ui = [t \in Tab |-> [status |-> "loading", access |-> Null]]
    /\ inbox = [t \in Tab |-> <<>>]
    /\ auto = [t \in Tab |-> FALSE]
    /\ timer = [t \in Tab |-> FALSE]

---------------------------------------------------------------------------
(* What one event does in one tab is worked out on a world w: the record,   *)
(* the tab's copy, what it shows, whether its timer is armed, and what it   *)
(* has broadcast.                                                           *)

World(t) == [record |-> record, own |-> own[t], ui |-> ui[t], timer |-> timer[t], sent |-> <<>>]

Commit(t, w) ==
    /\ record' = w.record
    /\ own' = [own EXCEPT ![t] = w.own]
    /\ ui' = [ui EXCEPT ![t] = w.ui]
    /\ timer' = [timer EXCEPT ![t] = w.timer]

(* postMessage: to every other open tab, in order. *)
Broadcast(t, box, msgs) ==
    inbox' = [o \in Tab |-> IF o = t THEN box ELSE IF Open(o) THEN inbox[o] \o msgs ELSE inbox[o]]

(* The bound: what the user and the timers start waits for room in every     *)
(* inbox; what a refresh does when it ends does not.                         *)
Room == \A o \in Tab : Len(inbox[o]) < MaxInbox

FlashesOut(w, k) ==   \* mutant: a page that is loading is told it is signed out
    [w EXCEPT !.ui = IF k # Null THEN [status |-> "authenticated", access |-> k]
                                 ELSE [status |-> "unauthenticated", access |-> Null]]

KeepsToken(w, k) ==   \* mutant: only the status is changed when the session is gone
    [w EXCEPT !.ui = IF k # Null THEN [status |-> "authenticated", access |-> k]
                     ELSE [status |-> IF w.ui.status = "loading" THEN "loading" ELSE "unauthenticated",
                           access |-> w.ui.access]]

(* The listener of AuthProvider: no session does not change "loading". *)
Notify(w, k) ==
    [w EXCEPT !.ui = IF k # Null THEN [status |-> "authenticated", access |-> k]
                     ELSE [status |-> IF w.ui.status = "loading" THEN "loading" ELSE "unauthenticated",
                           access |-> Null]]

Write(w, k) == [w EXCEPT !.record = k, !.own = k]

(* clearSession *)
Cleared(w) == Notify([Write(w, Null) EXCEPT !.sent = Append(@, Null), !.timer = FALSE], Null)

(* writing, broadcasting and notifying: saveSession, updateSessionTokens *)
Saved(w, k) == Notify([Write(w, k) EXCEPT !.sent = Append(@, k)], k)

(* getFromAllProviders: localStorage first, then the tab's own copy. *)
Found(w) == IF w.record # Null THEN w.record ELSE w.own

(* loadSession: what is found is written back to every provider, or cleared *)
(* when it has expired.                                                     *)
Loads(w) ==
    IF Found(w) = Null THEN {w} ELSE {Write(w, Found(w)), Cleared(w)}

---------------------------------------------------------------------------
(* The continuations of a refresh that resolved to k. *)

RevivesSession(w, k) ==   \* mutant: writes the record it had read before the await
    {IF k # Null THEN Saved(w, k) ELSE Cleared(w)}

(* The periodic refresh: the record is loaded again and takes the new token  *)
(* if it is still there; everything else clears it.                          *)
AutoContinues(w, k) ==
    IF k = Null THEN {Cleared(w)}
    ELSE {IF Found(v) # Null THEN Saved(v, k) ELSE Cleared(v) : v \in Loads(w)}

StaysLoading(w, k) ==   \* mutant: the context is only told of a session
    IF k # Null THEN [w EXCEPT !.ui = [status |-> "authenticated", access |-> k]] ELSE Cleared(w)

(* bootstrap of AuthProvider. *)
BootContinues(w, k) ==
    IF k # Null THEN [w EXCEPT !.ui = [status |-> "authenticated", access |-> k]]
    ELSE [Cleared(w) EXCEPT !.ui = [status |-> "unauthenticated", access |-> Null]]

(* Who joined the promise first runs first: both orders happen. *)
Continued(t, k) ==
    LET a(w) == IF auto[t] THEN AutoContinues(w, k) ELSE {w}
        b(w) == IF boot[t] = "waiting" THEN BootContinues(w, k) ELSE w
    IN  a(b(World(t))) \cup {b(w) : w \in a(World(t))}

RefreshEnds(t, k) ==
    /\ Resolved(t, k)
    /\ \E w \in Continued(t, k) : Commit(t, w) /\ Broadcast(t, inbox[t], w.sent)
    /\ auto' = [auto EXCEPT ![t] = FALSE]

---------------------------------------------------------------------------
(* A page load: the migration writes the record, then the subscription      *)
(* reads it and shows it while bootstrap() is under way.                    *)
OpenPage(t) ==
    /\ Room /\ Load(t)
    /\ LET fresh == [World(t) EXCEPT !.ui = [status |-> "loading", access |-> Null], !.timer = FALSE]
       IN  \E k \in TokenOrNull :   \* the token keys the migration finds in localStorage
           \E w \in Loads(IF k # Null THEN Write(fresh, k) ELSE fresh) :
               Commit(t, Notify(w, Found(w))) /\ Broadcast(t, <<>>, w.sent)
    /\ auto' = [auto EXCEPT ![t] = FALSE]

(* checkAndRefresh, once a minute: a session that is due starts a refresh.   *)
(* (A second check during the refresh joins it and repeats what the first    *)
(* one does when it ends.)                                                   *)
CheckSession(t) ==
    /\ Room /\ Open(t) /\ ~auto[t]
    /\ Found(World(t)) # Null
    /\ \E w \in Loads(World(t)) :
        /\ Commit(t, w) /\ Broadcast(t, inbox[t], w.sent)
        /\ \/ Refresh(t) /\ w.record # Null /\ auto' = [auto EXCEPT ![t] = TRUE]
           \/ UNCHANGED <<serviceVars, auto>>

(* login, register and the forms of auth-form.tsx *)
SignIn(t) ==
    /\ Room /\ Open(t)
    /\ \E k \in Token :
        LET w == [Saved(World(t), k) EXCEPT !.timer = TRUE]
        IN  Commit(t, w) /\ Broadcast(t, inbox[t], w.sent)
    /\ UNCHANGED <<serviceVars, auto>>

(* logout: handleClearSession runs only when authApi.logout() did not throw. *)
SignOut(t) ==
    /\ Room /\ EndLogout(t)
    /\ LET w == [Cleared(World(t)) EXCEPT !.ui = [status |-> "unauthenticated", access |-> Null]]
       IN  Commit(t, w) /\ Broadcast(t, inbox[t], w.sent)
    /\ UNCHANGED auto

SignOutBegins(t) == StartLogout(t) /\ UNCHANGED sessionVars
SignOutFails(t) == EndLogout(t) /\ UNCHANGED sessionVars

(* A SESSION_SYNC message: written and shown as it is. *)
Receive(t) ==
    /\ inbox[t] # <<>>
    /\ LET k == Head(inbox[t])
       IN  Commit(t, Notify(Write(World(t), k), k))
    /\ inbox' = [inbox EXCEPT ![t] = Tail(@)]
    /\ UNCHANGED <<serviceVars, auto>>

(* trackActivity stops the timeout and does not start it again. *)
TrackActivity(t) ==
    /\ timer[t]
    /\ timer' = [timer EXCEPT ![t] = FALSE]
    /\ UNCHANGED <<serviceVars, record, own, ui, inbox, auto>>

(* The inactivity timeout: without rememberMe it clears the session. *)
Inactive(t) ==
    /\ Room /\ timer[t]
    /\ \E w \in {Cleared(World(t)), [World(t) EXCEPT !.timer = FALSE]} :
        Commit(t, w) /\ Broadcast(t, inbox[t], w.sent)
    /\ UNCHANGED <<serviceVars, auto>>

(* A request that was refused with 401 refreshes as well. *)
RequestRefreshes(t) == Refresh(t) /\ UNCHANGED sessionVars

Next ==
    \E t \in Tab :
        \/ OpenPage(t) \/ CheckSession(t) \/ RequestRefreshes(t)
        \/ \E k \in TokenOrNull : RefreshEnds(t, k)
        \/ SignIn(t) \/ SignOutBegins(t) \/ SignOut(t) \/ SignOutFails(t)
        \/ Receive(t) \/ TrackActivity(t) \/ Inactive(t)

Spec == Init /\ [][Next]_vars

(* Every refresh has a timeout, and a tab handles its messages. *)
FairSpec ==
    /\ Spec
    /\ \A t \in Tab : WF_vars(\E k \in TokenOrNull : RefreshEnds(t, k)) /\ WF_vars(Receive(t))

---------------------------------------------------------------------------
(* A page that is loading is not shown as signed out before its own          *)
(* bootstrap() has been answered (or the user has signed out in it),         *)
(* whatever the other tabs and the session record say: the guard the comment *)
(* at AuthContext.tsx:75 is about.                                           *)
NoFlash ==
    [][\A t \in Tab : ui[t].status = "loading" /\ ui'[t].status = "unauthenticated" =>
          \/ boot[t] = "waiting" /\ boot'[t] # "waiting"
          \/ leaving[t] /\ ~leaving'[t]]_vars

(* The session is gone for a tab: from localStorage, and from its own copy   *)
(* because the tab has cleared it or has been told.                          *)
Gone(t) == record = Null /\ own[t] = Null

(* A refresh that was under way while the session went, also the bootstrap() *)
(* of a page, brings it back neither in the tab nor in localStorage, and     *)
(* tells no other tab of one: the record is read again after the await       *)
(* (AuthContext.tsx:105).  Only a bootstrap() may show one.  A tab that has  *)
(* not read of another tab's sign-out still has its copy, which brings the   *)
(* session back to every tab: it is not gone for it (README, section 4).     *)
NoRevival ==
    [][\A t \in Tab : refreshing[t] /\ ~refreshing'[t] /\ Gone(t) =>
          /\ Gone(t)'
          /\ \A o \in Tab : \A i \in 1 .. Len(inbox'[o]) : i > Len(inbox[o]) => inbox'[o][i] = Null
          /\ boot[t] # "waiting" /\ ui'[t].status = "authenticated" => ui[t].status = "authenticated"]_vars

(* No page stays on its loading screen. *)
LoadingEnds == \A t \in Tab : Open(t) /\ ui[t].status = "loading" ~> ui[t].status # "loading"
=============================================================================
