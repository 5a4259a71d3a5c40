---------------------------- MODULE AuthSessions ----------------------------
(***************************************************************************)
(* Sessions and rotating refresh tokens of the API server                  *)
(* (server/src/services/auth_service.go).  The tables auth_sessions and    *)
(* auth_refresh_tokens are shared by every request; a refresh request is   *)
(* a sequence of database statements, so other requests run between any    *)
(* two of them.                                                            *)
(*                                                                         *)
(* Atomicity.  A statement outside a transaction is one step.  Inside the  *)
(* rotation transaction (READ COMMITTED, no row locks on reads) each read  *)
(* is a step and the writes take effect together at COMMIT.  A repository  *)
(* Update is GORM's Save: it writes back every column of the row as it was *)
(* read, revoked_at included.                                              *)
(*                                                                         *)
(* Every session is created with a family of its own, so a family is named *)
(* by the session it was created for.  All tokens of a family expire with  *)
(* their session (ExpiresAt: session.ExpiresAt), so expiry is a flag of    *)
(* the session row.                                                        *)
(***************************************************************************)
CONSTANTS
    Users,      \* accounts
    Sessions,   \* ids a session row may get (bounds the number of logins)
    Tokens,     \* ids a refresh token row may get (bounds the rotations)
    Requests,   \* refresh requests that may be in flight at one time
    Null,       \* a SQL NULL, and the owner of a row that does not exist
    DbErrors    \* TRUE: a statement of a request may fail or be cancelled

ASSUME NullAssumption == Null \notin Users \cup Sessions \cup Tokens
ASSUME DbErrorsAssumption == DbErrors \in BOOLEAN

VARIABLES
    sess,       \* auth_sessions
    tok,        \* auth_refresh_tokens
    req         \* the refresh requests: program counter and local variables

vars == <<sess, tok, req>>

SessionRow == [user : Users \cup {Null}, revoked : BOOLEAN, expired : BOOLEAN]

TokenRow == [session : Sessions \cup {Null}, family : Sessions \cup {Null},
             used : BOOLEAN, next : Tokens \cup {Null}, revoked : BOOLEAN]

NoSession == [user |-> Null, revoked |-> FALSE, expired |-> FALSE]

NoToken == [session |-> Null, family |-> Null,
            used |-> FALSE, next |-> Null, revoked |-> FALSE]

NewToken(s, f) == [session |-> s, family |-> f,
                   used |-> FALSE, next |-> Null, revoked |-> FALSE]

Exists(s) == sess[s].user # Null
Issued(t) == tok[t].session # Null

(* Where a refresh request is.  "tx", "txSibling" and "commit" are inside  *)
(* the transaction and hold the session row as it was read before it.      *)
InTx == {"tx", "txSibling", "commit"}
Reading == {"found", "sibling", "reread"}
Revoking == {"revokeSessions", "revokeTokens"}
Where == {"idle", "answered"} \cup Reading \cup Revoking \cup InTx

Answers == {"none", "rotated", "refused", "reuse", "failed"}

(* shown: the token the client presented; cur: the token the request works *)
(* on (shown, or its replacement); row: that token's row as last read;     *)
(* late: the session had expired when the request read its clock.          *)
Request == [pc : Where, shown : Tokens \cup {Null}, cur : Tokens \cup {Null},
            row : TokenRow, late : BOOLEAN,
            answer : Answers, got : Tokens \cup {Null}]

Idle == [pc |-> "idle", shown |-> Null, cur |-> Null, row |-> NoToken,
         late |-> FALSE, answer |-> "none", got |-> Null]

Init ==
    /\ sess = [s \in Sessions |-> NoSession]
    /\ tok = [t \in Tokens |-> NoToken]
    /\ req = [r \in Requests |-> Idle]

-----------------------------------------------------------------------------
(* Operations on whole sessions                                            *)

(* createAuthenticatedSession: the session and its first token in one      *)
(* transaction, after Register or Login.                                   *)
Login(u, s, t) ==
    /\ ~Exists(s) /\ ~Issued(t)
    /\ sess' = [sess EXCEPT ![s] = [NoSession EXCEPT !.user = u]]
    /\ tok' = [tok EXCEPT ![t] = NewToken(s, s)]
    /\ UNCHANGED req

(* UPDATE auth_sessions SET revoked_at ... WHERE ... AND revoked_at IS NULL *)
RevokeRows(S) ==
    sess' = [s \in Sessions |->
                IF s \in S THEN [sess[s] EXCEPT !.revoked = TRUE] ELSE sess[s]]

Logout(s) ==
    /\ Exists(s)
    /\ RevokeRows({s})
    /\ UNCHANGED <<tok, req>>

(* A user ends one of the sessions of the same account from session p.     *)
RevokeSession(p, s) ==
    /\ Exists(p) /\ Exists(s)
    /\ sess[s].user = sess[p].user
    /\ RevokeRows({s})
    /\ UNCHANGED <<tok, req>>

(* except is the caller's own session, or Null for every session (also the *)
(* call that ends a password reset).                                       *)
LogoutAll(u, except) ==
    /\ except \in {Null} \cup {s \in Sessions : sess[s].user = u}
    /\ RevokeRows({s \in Sessions : sess[s].user = u /\ s # except})
    /\ UNCHANGED <<tok, req>>

(* The clock passes expires_at. *)
Expire(s) ==
    /\ Exists(s) /\ ~sess[s].expired
    /\ sess' = [sess EXCEPT ![s].expired = TRUE]
    /\ UNCHANGED <<tok, req>>

-----------------------------------------------------------------------------
(* Refresh, statement by statement                                         *)

Goto(r, pc) == req' = [req EXCEPT ![r].pc = pc]

(* The token the request works on becomes t, with its row as read here. *)
WorkOn(r, t, pc) ==
    req' = [req EXCEPT ![r] = [@ EXCEPT !.pc = pc, !.cur = t, !.row = tok[t]]]

Answer(r, a, n) ==
    req' = [req EXCEPT ![r] = [Idle EXCEPT !.pc = "answered", !.answer = a,
                                           !.shown = req[r].shown, !.got = n]]

(* sibling.RevokedAt == nil && !sibling.ExpiresAt.Before(now) &&           *)
(* sibling.UsedAt == nil, with the clock value the request read.           *)
SiblingLive(t, late) ==
    /\ Issued(t)
    /\ ~tok[t].revoked /\ ~late /\ ~tok[t].used

(* Mutant: the error of GetByHash for an unknown token is not looked at. *)
PresentUnknown(r, t) ==
    /\ req[r].pc = "idle"
    /\ req' = [req EXCEPT ![r] = [Idle EXCEPT !.pc = "found", !.shown = t,
                                              !.cur = t, !.row = tok[t]]]
    /\ UNCHANGED <<sess, tok>>

(* GetByHash of the presented token; an unknown hash changes nothing.      *)
Present(r, t) ==
    /\ req[r].pc = "idle"
    /\ Issued(t)
    /\ req' = [req EXCEPT ![r] = [Idle EXCEPT !.pc = "found", !.shown = t,
                                              !.cur = t, !.row = tok[t]]]
    /\ UNCHANGED <<sess, tok>>

(* Mutant: only the token's revocation is checked, not the session's.      *)
CheckRowTokenOnly(r, late) ==
    IF req[r].row.revoked \/ late
    THEN Answer(r, "refused", Null)
    ELSE Goto(r, "tx")

(* A token that is not spent goes on to the transaction, or is refused.    *)
CheckRow(r, late) ==
    LET s == req[r].row.session IN
    IF req[r].row.revoked \/ sess[s].revoked \/ late
    THEN Answer(r, "refused", Null)
    ELSE Goto(r, "tx")

(* Mutant: every spent token revokes its family, the sibling is not tried. *)
ReadSessionStrict(r) ==
    LET late == sess[req[r].row.session].expired IN
    /\ req[r].pc = "found"
    /\ \/ /\ ~req[r].row.used
          /\ CheckRow(r, late)
       \/ /\ req[r].row.used
          /\ req' = [req EXCEPT ![r] = [@ EXCEPT !.late = late,
                                                 !.pc = "revokeSessions"]]
    /\ UNCHANGED <<sess, tok>>

(* AuthSessions().GetByID, then time.Now(), then the branch on UsedAt.     *)
ReadSession(r) ==
    LET late == sess[req[r].row.session].expired IN
    /\ req[r].pc = "found"
    /\ \/ /\ ~req[r].row.used
          /\ CheckRow(r, late)
       \/ /\ req[r].row.used
          /\ req' = [req EXCEPT ![r] =
                       [@ EXCEPT !.late = late,
                                 !.pc = IF req[r].row.next = Null
                                        THEN "revokeSessions" ELSE "sibling"]]
    /\ UNCHANGED <<sess, tok>>

(* The presented token is spent: look for its replacement.                 *)
ReadSibling(r) ==
    LET n == req[r].row.next IN
    /\ req[r].pc = "sibling"
    /\ \/ /\ SiblingLive(n, req[r].late)
          /\ WorkOn(r, n, "reread")
       \/ /\ ~SiblingLive(n, req[r].late)
          /\ Goto(r, "revokeSessions")
    /\ UNCHANGED <<sess, tok>>

(* Mutant: the checks are not repeated for the sibling's session. *)
RereadSessionUnchecked(r) ==
    /\ req[r].pc = "reread"
    /\ Goto(r, "tx")
    /\ UNCHANGED <<sess, tok>>

RereadSession(r) ==
    /\ req[r].pc = "reread"
    /\ CheckRow(r, req[r].late)
    /\ UNCHANGED <<sess, tok>>

(* Reuse detected before the transaction: revoke the family, sessions      *)
(* first.  Both errors are ignored, and each statement commits on its own. *)
RevokeFamilySessions(r) ==
    /\ req[r].pc = "revokeSessions"
    /\ \/ RevokeRows({req[r].row.family})
       \/ DbErrors /\ UNCHANGED sess
    /\ Goto(r, "revokeTokens")
    /\ UNCHANGED tok

RevokeFamilyTokens(r) ==
    /\ req[r].pc = "revokeTokens"
    /\ \/ tok' = [t \in Tokens |->
                    IF tok[t].family = req[r].row.family
                    THEN [tok[t] EXCEPT !.revoked = TRUE] ELSE tok[t]]
       \/ DbErrors /\ UNCHANGED tok
    /\ Answer(r, "reuse", Null)
    /\ UNCHANGED sess

(* The transaction reads the presented token again.  The reuse branch      *)
(* revokes the family inside the transaction and returns an error, which   *)
(* rolls both updates back: nothing but the answer is left.                *)
TxRead(r) ==
    LET t == req[r].shown IN
    /\ req[r].pc = "tx"
    /\ \/ /\ ~tok[t].used
          /\ WorkOn(r, t, "commit")
       \/ /\ tok[t].used /\ tok[t].next = Null
          /\ Answer(r, "reuse", Null)
       \/ /\ tok[t].used /\ tok[t].next # Null
          /\ WorkOn(r, t, "txSibling")
    /\ UNCHANGED <<sess, tok>>

TxReadSibling(r) ==
    LET n == req[r].row.next IN
    /\ req[r].pc = "txSibling"
    /\ \/ /\ SiblingLive(n, req[r].late)
          /\ WorkOn(r, n, "commit")
       \/ /\ ~SiblingLive(n, req[r].late)
          /\ Answer(r, "reuse", Null)
    /\ UNCHANGED <<sess, tok>>

(* Mutant: ReplacedByID is not saved. *)
CommitWithoutReplacement(r, n) ==
    LET s == req[r].row.session IN
    /\ req[r].pc = "commit"
    /\ ~Issued(n)
    /\ tok' = [tok EXCEPT
                 ![req[r].cur] = [req[r].row EXCEPT !.used = TRUE],
                 ![n] = NewToken(s, req[r].row.family)]
    /\ sess' = [sess EXCEPT ![s].revoked = FALSE]
    /\ Answer(r, "rotated", n)

(* COMMIT of: Save(current) with UsedAt and ReplacedByID set, Create(next),*)
(* Save(session).  Both Saves write the columns as they were read: the     *)
(* token's revoked_at from the transaction's read, the session's from the  *)
(* read before it, where it was NULL.                                      *)
Commit(r, n) ==
    LET s == req[r].row.session IN
    /\ req[r].pc = "commit"
    /\ ~Issued(n)
    /\ tok' = [tok EXCEPT
                 ![req[r].cur] = [req[r].row EXCEPT !.used = TRUE, !.next = n],
                 ![n] = NewToken(s, req[r].row.family)]
    /\ sess' = [sess EXCEPT ![s].revoked = FALSE]
    /\ Answer(r, "rotated", n)

(* A failed statement, a cancelled context or a crash of the server: the   *)
(* transaction rolls back, and what ran before it stays.                   *)
Fail(r) ==
    /\ DbErrors
    /\ req[r].pc \in Reading \cup InTx \cup Revoking
    /\ Answer(r, "failed", Null)
    /\ UNCHANGED <<sess, tok>>

(* The response leaves; whether the client receives it is its own affair.  *)
Respond(r) ==
    /\ req[r].pc = "answered"
    /\ req' = [req EXCEPT ![r] = Idle]
    /\ UNCHANGED <<sess, tok>>

-----------------------------------------------------------------------------
Refresh(r) ==
    \/ \E t \in Tokens : Present(r, t)
    \/ ReadSession(r)
    \/ ReadSibling(r)
    \/ RereadSession(r)
    \/ RevokeFamilySessions(r)
    \/ RevokeFamilyTokens(r)
    \/ TxRead(r)
    \/ TxReadSibling(r)
    \/ \E n \in Tokens : Commit(r, n)
    \/ Fail(r)
    \/ Respond(r)

Next ==
    \/ \E u \in Users, s \in Sessions, t \in Tokens : Login(u, s, t)
    \/ \E s \in Sessions : Logout(s) \/ Expire(s)
    \/ \E p, s \in Sessions : RevokeSession(p, s)
    \/ \E u \in Users, except \in Sessions \cup {Null} : LogoutAll(u, except)
    \/ \E r \in Requests : Refresh(r)

Spec == Init /\ [][Next]_vars

-----------------------------------------------------------------------------
(* Type invariant.  A request at work holds the row of a token that was    *)
(* found, so the session it goes on to read has an id.                     *)
TypeOK ==
    /\ sess \in [Sessions -> SessionRow]
    /\ tok \in [Tokens -> TokenRow]
    /\ req \in [Requests -> Request]
    /\ \A r \in Requests :
          req[r].pc \in Reading \cup Revoking \cup InTx =>
             req[r].row.session # Null

(* The rotation chain is sound: a spent token names a replacement that     *)
(* exists, belongs to the same session and family and is not the           *)
(* replacement of any other token; a token that is not spent names none.   *)
(* The branches of Refresh for a spent token without ReplacedByID, and the *)
(* two lookups of the sibling by id, rely on it.                           *)
ChainSound ==
    \A t \in Tokens :
        /\ Issued(t) => tok[t].family = tok[t].session
        /\ tok[t].used <=> tok[t].next # Null
        /\ tok[t].used =>
              /\ Issued(tok[t].next)
              /\ tok[tok[t].next].session = tok[t].session
              /\ \A v \in Tokens \ {t} : tok[v].next # tok[t].next

(* A family is revoked for reuse only when there was reuse: while a        *)
(* request is revoking, the token it was shown is spent, and so is (or     *)
(* revoked, or past its expiry) the replacement it found.  So a client     *)
(* that lost one answer and presents the same token again is not punished. *)
(* It is punished when it loses the next answer too, or when a third tab   *)
(* presents the token after a second one has rotated the replacement: the  *)
(* code looks one replacement ahead, although its comment promises to      *)
(* accept the sibling "regardless of timing".                              *)
ReuseIsReal ==
    \A r \in Requests :
        req[r].pc \in Revoking =>
            /\ tok[req[r].shown].used
            /\ LET n == req[r].row.next IN
               tok[n].used \/ tok[n].revoked \/ req[r].late

(* s is revoked and no request is past the checks that read its row        *)
(* before the revocation.                                                  *)
Quiesced(s) ==
    /\ Exists(s) /\ sess[s].revoked
    /\ \A r \in Requests : req[r].pc \in InTx => tok[req[r].shown].session # s

(* A logout (or any other revocation) that no rotation overlaps is final:  *)
(* the session stays revoked and no token is ever issued for it again,     *)
(* whichever of its tokens is presented later.                             *)
QuiescedForGood ==
    \A s \in Sessions :
        Quiesced(s) =>
            /\ Quiesced(s)'
            /\ \A t \in Tokens : tok'[t].session = s => tok[t].session = s

LogoutFinal == [][QuiescedForGood]_vars

(* "Revoke session" (README): a revoked session is never active again.     *)
(* The code breaks it: Save(session) in the rotation writes back the NULL  *)
(* revoked_at it read before a concurrent logout.                          *)
RevokedStaysRevoked ==
    [][\A s \in Sessions : sess[s].revoked => sess'[s].revoked]_vars

(* "Family-based revocation" (README): a request answered with a reuse     *)
(* error leaves every token of the family revoked.  The code breaks it     *)
(* when the transaction is the one to notice: its updates roll back.       *)
ReuseAnswerRevokes ==
    [][\A r \in Requests :
          req[r].answer # "reuse" /\ req'[r].answer = "reuse" =>
             \A t \in Tokens :
                tok'[t].family = tok[req[r].shown].family => tok'[t].revoked]_vars

-----------------------------------------------------------------------------
(* The refresh flow implements the promise: a request is admitted while it *)
(* is in the transaction, with the session row it read before.             *)
OpenSessions == {s \in Sessions : Exists(s)}
RevokedSessions == {s \in Sessions : sess[s].revoked}
Admitted == [r \in Requests |->
                IF req[r].pc \in InTx THEN req[r].row.session ELSE Null]

Promise == INSTANCE SessionPromise WITH
    open <- OpenSessions, revoked <- RevokedSessions, admitted <- Admitted

(* Each step of a request, a login, a logout or the clock is a step of     *)
(* SessionPromise or leaves it unchanged: nothing but a rotation that was  *)
(* admitted earlier ever makes a revoked session active again.             *)
KeepsPromise == Promise!Spec

=============================================================================
