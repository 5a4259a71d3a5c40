------------------------ MODULE AuthSessions_proofs ------------------------
(***************************************************************************)
(* Proofs about AuthSessions, for every set of users, sessions, tokens and *)
(* overlapping requests.                                                   *)
(***************************************************************************)
EXTENDS AuthSessions, TLAPS

(* The first three parts of TypeOK: the last one follows from RowSound.    *)
Typed ==
    /\ sess \in [Sessions -> SessionRow]
    /\ tok \in [Tokens -> TokenRow]
    /\ req \in [Requests -> Request]

Working == Reading \cup Revoking \cup InTx

(* The local copy of a row is of the token the request works on: spent at  *)
(* most as much as the row in the table is, and of the presented token's   *)
(* session.                                                                *)
RowSound(q) ==
    /\ q.cur \in Tokens
    /\ Issued(q.cur)
    /\ q.row.session = tok[q.cur].session
    /\ q.row.family = tok[q.cur].family
    /\ q.row.session = tok[q.shown].session
    /\ q.row.used => tok[q.cur].used
    /\ q.row.used <=> q.row.next # Null
    /\ q.row.used => tok[q.row.next].session = q.row.session

ReqSound(q) ==
    /\ q.pc # "idle" => q.shown \in Tokens /\ Issued(q.shown)
    /\ q.pc \in Working => RowSound(q)
    /\ q.pc \in {"reread", "commit"} => ~q.row.used
    /\ q.pc \in {"sibling", "txSibling"} \cup Revoking => q.row.used
    /\ q.pc \in {"found", "sibling"} \cup Revoking => q.cur = q.shown

RequestsSound == \A r \in Requests : ReqSound(req[r])

(* Tokens belong to sessions that were created; a row that was not is blank. *)
Rooted ==
    /\ \A t \in Tokens : Issued(t) => Exists(tok[t].session)
    /\ \A s \in Sessions : ~Exists(s) => sess[s] = NoSession

(* The inductive invariant: the rotation chain is only sound because every *)
(* request's copy of the row is, and the other way round.                  *)
IInv == Typed /\ ChainSound /\ RequestsSound /\ ReuseIsReal /\ Rooted

-----------------------------------------------------------------------------
(* How each kind of step leaves the request it is about. *)
LEMMA WorkOnFields ==
    ASSUME Typed, NEW r \in Requests, NEW t \in Tokens, NEW pc \in Where,
           WorkOn(r, t, pc)
    PROVE  /\ req' \in [Requests -> Request]
           /\ req'[r].pc = pc /\ req'[r].cur = t /\ req'[r].row = tok[t]
           /\ req'[r].shown = req[r].shown /\ req'[r].late = req[r].late
<1> DEFINE new == [req[r] EXCEPT !.pc = pc, !.cur = t, !.row = tok[t]]
<1>1. /\ new \in Request
      /\ new.pc = pc /\ new.cur = t /\ new.row = tok[t]
      /\ new.shown = req[r].shown /\ new.late = req[r].late
  BY DEF Typed, Request
<1>2. req' = [req EXCEPT ![r] = new]
  BY DEF WorkOn
<1> HIDE DEF new
<1> QED BY <1>1, <1>2 DEF Typed

LEMMA GotoFields ==
    ASSUME Typed, NEW r \in Requests, NEW pc \in Where, Goto(r, pc)
    PROVE  /\ req' \in [Requests -> Request]
           /\ req'[r].pc = pc /\ req'[r].cur = req[r].cur
           /\ req'[r].row = req[r].row
           /\ req'[r].shown = req[r].shown /\ req'[r].late = req[r].late
<1> DEFINE new == [req[r] EXCEPT !.pc = pc]
<1>1. /\ new \in Request
      /\ new.pc = pc /\ new.cur = req[r].cur /\ new.row = req[r].row
      /\ new.shown = req[r].shown /\ new.late = req[r].late
  BY DEF Typed, Request
<1>2. req' = [req EXCEPT ![r] = new]
  BY DEF Goto, Typed
<1> HIDE DEF new
<1> QED BY <1>1, <1>2 DEF Typed

LEMMA AnswerFields ==
    ASSUME Typed, NEW r \in Requests, NEW a \in Answers,
           NEW n \in Tokens \cup {Null}, Answer(r, a, n)
    PROVE  /\ req' \in [Requests -> Request]
           /\ req'[r].pc = "answered" /\ req'[r].shown = req[r].shown
           /\ req'[r].answer = a
<1> DEFINE new == [Idle EXCEPT !.pc = "answered", !.answer = a,
                               !.shown = req[r].shown, !.got = n]
<1>0. /\ Idle \in Request /\ req[r] \in Request
  BY DEF Typed, Idle, Request, Where, Answers, NoToken, TokenRow
<1>1. /\ new \in Request
      /\ new.pc = "answered" /\ new.shown = req[r].shown /\ new.answer = a
  BY <1>0 DEF Request, Where
<1>2. req' = [req EXCEPT ![r] = new]
  BY DEF Answer
<1> HIDE DEF new
<1> QED BY <1>1, <1>2 DEF Typed

LEMMA PresentFields ==
    ASSUME Typed, NEW r \in Requests, NEW t \in Tokens, Present(r, t)
    PROVE  /\ req' \in [Requests -> Request]
           /\ req'[r].pc = "found" /\ req'[r].cur = t /\ req'[r].shown = t
           /\ req'[r].row = tok[t]
<1> DEFINE new == [Idle EXCEPT !.pc = "found", !.shown = t, !.cur = t, !.row = tok[t]]
<1>0. Idle \in Request /\ tok[t] \in TokenRow
  BY DEF Typed, Idle, Request, Where, Answers, NoToken, TokenRow
<1>1. /\ new \in Request
      /\ new.pc = "found" /\ new.shown = t /\ new.cur = t /\ new.row = tok[t]
  BY <1>0 DEF Request, Where, Reading
<1>2. req' = [req EXCEPT ![r] = new]
  BY DEF Present
<1> HIDE DEF new
<1> QED BY <1>1, <1>2 DEF Typed

(* A request only writes its own local variables. *)
LEMMA OneRequest ==
    ASSUME Typed, NEW r \in Requests, Refresh(r)
    PROVE  \A p \in Requests \ {r} : req'[p] = req[p]
  BY DEF Typed, Refresh, Present, ReadSession, CheckRow, ReadSibling, RereadSession,
     RevokeFamilySessions, RevokeFamilyTokens, TxRead, TxReadSibling, Commit,
     Fail, Respond, Goto, WorkOn, Answer

(* A request at work knows its session. *)
LEMMA WorkingSession ==
    ASSUME IInv, NEW r \in Requests, req[r].pc \in Working
    PROVE  /\ RowSound(req[r])
           /\ req[r].row.session \in Sessions /\ req[r].row \in TokenRow
           /\ req[r].shown \in Tokens /\ Issued(req[r].shown)
<1>1. ReqSound(req[r]) /\ req[r] \in Request /\ tok \in [Tokens -> TokenRow]
  BY DEF IInv, RequestsSound, Typed
<1>2. req[r].row \in TokenRow /\ req[r].pc # "idle"
  BY <1>1 DEF Request, Working, Reading, Revoking, InTx
<1> QED BY <1>1, <1>2 DEF ReqSound, RowSound, Issued, TokenRow

(* Reading the session row of a spent token. *)
LEMMA SpentFields ==
    ASSUME IInv, NEW r \in Requests, ReadSession(r), req[r].row.used
    PROVE  /\ req' \in [Requests -> Request]
           /\ req'[r].pc = "sibling"
           /\ req'[r].cur = req[r].cur /\ req'[r].row = req[r].row
           /\ req'[r].shown = req[r].shown
<1> DEFINE late == sess[req[r].row.session].expired
           pc == IF req[r].row.next = Null THEN "revokeSessions" ELSE "sibling"
           new == [req[r] EXCEPT !.late = late, !.pc = pc]
<1>1. /\ req[r].pc = "found" /\ req' = [req EXCEPT ![r] = new]
  BY DEF ReadSession, CheckRow, Answer, Goto
<1>2. /\ req[r].row.session \in Sessions /\ RowSound(req[r])
  BY <1>1, WorkingSession DEF Working, Reading
<1>3. pc = "sibling" /\ late \in BOOLEAN
  BY <1>2 DEF RowSound, IInv, Typed, SessionRow
<1>4. /\ new \in Request
      /\ new.pc = "sibling" /\ new.cur = req[r].cur /\ new.row = req[r].row
      /\ new.shown = req[r].shown
  BY <1>3 DEF IInv, Typed, Request, Where, Reading
<1> HIDE DEF new
<1> QED BY <1>1, <1>4 DEF IInv, Typed

-----------------------------------------------------------------------------
(* Every variable keeps its type.  A request reads the session row its     *)
(* token names, so this needs the copies to be sound.                      *)
LEMMA TypeStep == IInv /\ [Next]_vars => Typed'
<1> SUFFICES ASSUME IInv, [Next]_vars PROVE Typed'
  OBVIOUS
<1>0. /\ sess \in [Sessions -> SessionRow] /\ tok \in [Tokens -> TokenRow]
      /\ req \in [Requests -> Request] /\ Typed
  BY DEF IInv, Typed
<1>1. ASSUME NEW u \in Users, NEW s \in Sessions, NEW t \in Tokens, Login(u, s, t)
      PROVE  Typed'
  <2>1. /\ [NoSession EXCEPT !.user = u] \in SessionRow
        /\ NewToken(s, s) \in TokenRow
    BY DEF NoSession, SessionRow, NewToken, TokenRow
  <2> QED BY <1>0, <1>1, <2>1 DEF Login, Typed
<1>r. ASSUME NEW S, RevokeRows(S)
      PROVE  sess' \in [Sessions -> SessionRow]
  <2>1. \A s \in Sessions : [sess[s] EXCEPT !.revoked = TRUE] \in SessionRow
    BY <1>0 DEF SessionRow
  <2> QED BY <1>0, <1>r, <2>1 DEF RevokeRows
<1>2. ASSUME NEW s \in Sessions, Logout(s) PROVE Typed'
  BY <1>0, <1>2, <1>r DEF Logout, Typed
<1>3. ASSUME NEW s \in Sessions, Expire(s) PROVE Typed'
  <2>1. [sess[s] EXCEPT !.expired = TRUE] \in SessionRow
    BY <1>0 DEF SessionRow
  <2> QED BY <1>0, <1>3, <2>1 DEF Expire, Typed
<1>4. ASSUME NEW p \in Sessions, NEW s \in Sessions, RevokeSession(p, s) PROVE Typed'
  BY <1>0, <1>4, <1>r DEF RevokeSession, Typed
<1>5. ASSUME NEW u \in Users, NEW e \in Sessions \cup {Null}, LogoutAll(u, e)
      PROVE Typed'
  BY <1>0, <1>5, <1>r DEF LogoutAll, Typed
<1>6. ASSUME NEW r \in Requests, Refresh(r) PROVE Typed'
  <2>0. ASSUME req' \in [Requests -> Request], UNCHANGED <<sess, tok>> PROVE Typed'
    BY <1>0, <2>0 DEF Typed
  <2>a. \A a \in Answers, n \in Tokens \cup {Null} :
           Answer(r, a, n) => req' \in [Requests -> Request]
    BY <1>0, AnswerFields
  <2>g. \A pc \in Where : Goto(r, pc) => req' \in [Requests -> Request]
    BY <1>0, GotoFields
  <2>w. \A t \in Tokens, pc \in Where : WorkOn(r, t, pc) => req' \in [Requests -> Request]
    BY <1>0, WorkOnFields
  <2>n. req[r].pc \in {"sibling", "txSibling"} => req[r].row.next \in Tokens
    BY WorkingSession DEF IInv, RequestsSound, ReqSound, RowSound, TokenRow,
       Working, Reading, InTx
  <2>c. {"tx", "revokeSessions", "revokeTokens", "reread", "txSibling", "commit"}
           \subseteq Where
    BY DEF Where, Reading, Revoking, InTx
  <2>d. {"refused", "reuse", "failed", "rotated"} \subseteq Answers
    BY DEF Answers
  <2>1. ASSUME NEW t \in Tokens, Present(r, t) PROVE Typed'
    BY <1>0, <2>0, <2>1, PresentFields DEF Present
  <2>2. CASE ReadSession(r)
    <3>1. CASE ~req[r].row.used
      BY <2>0, <2>a, <2>g, <2>c, <2>d, <2>2, <3>1 DEF ReadSession, CheckRow
    <3>2. CASE req[r].row.used
      BY <2>0, <2>2, <3>2, SpentFields DEF ReadSession
    <3> QED BY <3>1, <3>2
  <2>3. CASE ReadSibling(r)
    BY <2>0, <2>g, <2>w, <2>n, <2>c, <2>3 DEF ReadSibling
  <2>4. CASE RereadSession(r)
    BY <2>0, <2>a, <2>g, <2>c, <2>d, <2>4 DEF RereadSession, CheckRow
  <2>5. CASE RevokeFamilySessions(r)
    BY <1>0, <1>r, <2>g, <2>c, <2>5 DEF RevokeFamilySessions, Typed
  <2>6. CASE RevokeFamilyTokens(r)
    <3>1. \A t \in Tokens : [tok[t] EXCEPT !.revoked = TRUE] \in TokenRow
      BY <1>0 DEF TokenRow
    <3>2. tok' \in [Tokens -> TokenRow]
      BY <1>0, <2>6, <3>1 DEF RevokeFamilyTokens
    <3> QED BY <1>0, <3>2, <2>6, <2>a, <2>d DEF RevokeFamilyTokens, Typed
  <2>7. CASE TxRead(r)
    <3>1. req[r].shown \in Tokens
      BY <2>7, WorkingSession DEF TxRead, Working, InTx
    <3> QED BY <2>0, <2>a, <2>w, <2>c, <2>d, <2>7, <3>1 DEF TxRead
  <2>8. CASE TxReadSibling(r)
    BY <2>0, <2>a, <2>w, <2>n, <2>c, <2>d, <2>8 DEF TxReadSibling
  <2>9. ASSUME NEW n \in Tokens, Commit(r, n) PROVE Typed'
    <3> DEFINE row == req[r].row
    <3>0. row.session \in Sessions /\ row \in TokenRow /\ RowSound(req[r])
      BY <2>9, WorkingSession DEF Commit, Working, InTx
    <3>1. /\ [row EXCEPT !.used = TRUE, !.next = n] \in TokenRow
          /\ NewToken(row.session, row.family) \in TokenRow
      BY <3>0 DEF TokenRow, NewToken
    <3>2. tok' = [tok EXCEPT ![req[r].cur] = [row EXCEPT !.used = TRUE, !.next = n],
                             ![n] = NewToken(row.session, row.family)]
      BY <2>9 DEF Commit
    <3> HIDE DEF row
    <3>3. tok' \in [Tokens -> TokenRow]
      BY <1>0, <3>0, <3>1, <3>2 DEF RowSound
    <3>4. [sess[row.session] EXCEPT !.revoked = FALSE] \in SessionRow
      BY <1>0, <3>0 DEF SessionRow
    <3>5. sess' \in [Sessions -> SessionRow]
      BY <1>0, <2>9, <3>0, <3>4 DEF Commit, row
    <3> QED BY <2>9, <3>3, <3>5, <2>a, <2>d DEF Commit, Typed
  <2>10. CASE Fail(r)
    BY <2>0, <2>a, <2>d, <2>10 DEF Fail
  <2>11. CASE Respond(r)
    BY <1>0, <2>0, <2>11 DEF Respond, Idle, NoToken, Request, TokenRow, Where, Answers
  <2> QED
    BY <1>6, <2>1, <2>2, <2>3, <2>4, <2>5, <2>6, <2>7, <2>8, <2>9, <2>10, <2>11
       DEF Refresh
<1>7. CASE UNCHANGED vars
  BY <1>0, <1>7 DEF vars, Typed
<1> QED
  BY <1>1, <1>2, <1>3, <1>4, <1>5, <1>6, <1>7 DEF Next

-----------------------------------------------------------------------------
(* What a step may do to the token table: rows are never taken away, never *)
(* change their session or family, stay spent, and, once spent or revoked, *)
(* never become live again.                                                *)
RowsGrow ==
    \A t \in Tokens : Issued(t) =>
        /\ Issued(t)'
        /\ tok'[t].session = tok[t].session
        /\ tok'[t].family = tok[t].family
        /\ tok[t].used => tok'[t].used
        /\ tok[t].used \/ tok[t].revoked => tok'[t].used \/ tok'[t].revoked

(* The only steps that write the token table. *)
LEMMA TokenWriters ==
    ASSUME [Next]_vars
    PROVE  \/ tok' = tok
           \/ \E u \in Users, s \in Sessions, t \in Tokens : Login(u, s, t)
           \/ \E r \in Requests : RevokeFamilyTokens(r)
           \/ \E r \in Requests, n \in Tokens : Commit(r, n)
<1> QED
  BY DEF Next, vars, Refresh, Logout, Expire, RevokeSession, LogoutAll, Present,
         ReadSession, ReadSibling, RereadSession, RevokeFamilySessions, TxRead,
         TxReadSibling, Fail, Respond

(* What COMMIT writes, in terms of the rows. *)
LEMMA CommitRows ==
    ASSUME IInv, NEW r \in Requests, NEW n \in Tokens, Commit(r, n)
    PROVE  LET c == req[r].cur IN
           /\ c \in Tokens /\ Issued(c) /\ ~Issued(n) /\ c # n
           /\ tok'[c].session = tok[c].session /\ tok'[c].family = tok[c].family
           /\ tok'[c].used /\ tok'[c].next = n
           /\ tok'[n] = NewToken(tok[c].session, tok[c].family)
           /\ \A t \in Tokens \ {c, n} : tok'[t] = tok[t]
<1>1. /\ req[r] \in Request /\ tok \in [Tokens -> TokenRow]
      /\ req[r].pc = "commit"
  BY DEF IInv, Typed, Commit
<1>2. RowSound(req[r])
  BY <1>1 DEF IInv, RequestsSound, ReqSound, Working, InTx
<1>3. /\ req[r].cur \in Tokens /\ Issued(req[r].cur)
      /\ ~Issued(n) /\ req[r].cur # n
  BY <1>2 DEF RowSound, Commit
<1>4. req[r].row \in TokenRow
  BY <1>1 DEF Request
<1> QED
  BY <1>1, <1>2, <1>3, <1>4 DEF Commit, RowSound, TokenRow

LEMMA RowsGrowStep == IInv /\ [Next]_vars => RowsGrow
<1> SUFFICES ASSUME IInv, [Next]_vars PROVE RowsGrow
  OBVIOUS
<1>0. tok \in [Tokens -> TokenRow]
  BY DEF IInv, Typed
<1>1. CASE tok' = tok
  BY <1>1 DEF RowsGrow, Issued
<1>2. ASSUME NEW u \in Users, NEW s \in Sessions, NEW t \in Tokens, Login(u, s, t)
      PROVE  RowsGrow
  BY <1>0, <1>2 DEF RowsGrow, Issued, Login
<1>3. ASSUME NEW r \in Requests, RevokeFamilyTokens(r)
      PROVE  RowsGrow
  BY <1>0, <1>3 DEF RowsGrow, Issued, RevokeFamilyTokens, TokenRow
<1>4. ASSUME NEW r \in Requests, NEW n \in Tokens, Commit(r, n)
      PROVE  RowsGrow
  BY <1>0, <1>4, CommitRows DEF RowsGrow, Issued
<1> QED BY <1>1, <1>2, <1>3, <1>4, TokenWriters

(* A row that is not issued yet is nobody's replacement. *)
Fresh == \A t, v \in Tokens : ~Issued(t) => tok[v].next # t

LEMMA FreshRows == IInv => Fresh
  BY NullAssumption DEF IInv, Typed, ChainSound, Fresh, TokenRow

(* The rotation chain stays sound: a login adds a row, a commit points the *)
(* row it spends at a fresh one, a revocation touches neither.             *)
LEMMA ChainStep == IInv /\ [Next]_vars => ChainSound'
<1> SUFFICES ASSUME IInv, [Next]_vars PROVE ChainSound'
  OBVIOUS
<1>0. /\ tok \in [Tokens -> TokenRow] /\ ChainSound /\ Fresh
  BY FreshRows DEF IInv, Typed
<1>1. CASE tok' = tok
  BY <1>0, <1>1 DEF ChainSound, Issued
<1>2. ASSUME NEW u \in Users, NEW s \in Sessions, NEW t \in Tokens, Login(u, s, t)
      PROVE  ChainSound'
  <2>1. /\ tok'[t] = NewToken(s, s) /\ ~Issued(t)
        /\ \A v \in Tokens \ {t} : tok'[v] = tok[v]
    BY <1>0, <1>2 DEF Login
  <2>2. \A v \in Tokens : tok[v].next # t
    BY <1>0, <2>1 DEF Fresh
  <2>3. tok'[t].next = Null /\ tok'[t].used = FALSE
    BY <2>1 DEF NewToken
  <2>4. ASSUME NEW v \in Tokens, v # t
        PROVE  /\ tok'[v].session # Null => tok'[v].family = tok'[v].session
               /\ tok'[v].used <=> tok'[v].next # Null
               /\ tok'[v].used =>
                     /\ tok'[tok[v].next].session # Null /\ tok'[v].next = tok[v].next
                     /\ tok'[tok[v].next].session = tok'[v].session
                     /\ \A w \in Tokens \ {v} : tok'[w].next # tok[v].next
    <3>1. tok'[v] = tok[v]
      BY <2>1, <2>4
    <3>2. tok[v].used => /\ tok[v].next # t /\ tok[v].next # Null
                         /\ tok[v].next \in Tokens
      BY <1>0, <2>2 DEF ChainSound, TokenRow
    <3> QED BY <1>0, <2>1, <2>3, <2>4, <3>1, <3>2 DEF ChainSound, Issued
  <2>5. tok'[t].session # Null => tok'[t].family = tok'[t].session
    BY <2>1 DEF NewToken
  <2> QED BY <2>3, <2>4, <2>5 DEF ChainSound, Issued
<1>3. ASSUME NEW r \in Requests, RevokeFamilyTokens(r)
      PROVE  ChainSound'
  <2>1. \A t \in Tokens : /\ tok'[t].session = tok[t].session
                          /\ tok'[t].family = tok[t].family
                          /\ tok'[t].used = tok[t].used
                          /\ tok'[t].next = tok[t].next
    BY <1>0, <1>3 DEF RevokeFamilyTokens, TokenRow
  <2> QED BY <1>0, <2>1 DEF ChainSound, Issued, TokenRow
<1>4. ASSUME NEW r \in Requests, NEW n \in Tokens, Commit(r, n)
      PROVE  ChainSound'
  <2> DEFINE c == req[r].cur
  <2>1. /\ c \in Tokens /\ Issued(c) /\ ~Issued(n) /\ c # n
        /\ tok'[c].session = tok[c].session /\ tok'[c].family = tok[c].family
        /\ tok'[c].used /\ tok'[c].next = n
        /\ tok'[n] = NewToken(tok[c].session, tok[c].family)
        /\ \A v \in Tokens \ {c, n} : tok'[v] = tok[v]
    BY <1>4, CommitRows
  <2>2. \A v \in Tokens : tok[v].next # n
    BY <2>1, <1>0 DEF Fresh
  <2>3. /\ tok'[n].next = Null /\ tok'[n].used = FALSE
        /\ tok'[n].session = tok[c].session /\ tok'[n].family = tok[c].family
    BY <2>1 DEF NewToken
  <2>4. tok[c].family = tok[c].session /\ n # Null
    BY <1>0, <2>1, NullAssumption DEF ChainSound
  <2> HIDE DEF c
  <2>5. ASSUME NEW v \in Tokens
        PROVE  /\ tok'[v].session # Null => tok'[v].family = tok'[v].session
               /\ tok'[v].used <=> tok'[v].next # Null
               /\ tok'[v].used =>
                     /\ tok'[tok'[v].next].session # Null
                     /\ tok'[tok'[v].next].session = tok'[v].session
                     /\ \A w \in Tokens \ {v} : tok'[w].next # tok'[v].next
    <3>1. CASE v = n
      BY <3>1, <2>3, <2>4
    <3>2. CASE v = c
      BY <3>2, <2>1, <2>2, <2>3, <2>4 DEF Issued
    <3>3. CASE v # n /\ v # c
      BY <3>3, <1>0, <2>1, <2>2, <2>3 DEF ChainSound, Issued, TokenRow
    <3> QED BY <3>1, <3>2, <3>3
  <2> QED BY <2>5 DEF ChainSound, Issued
<1> QED BY <1>1, <1>2, <1>3, <1>4, TokenWriters

-----------------------------------------------------------------------------
(* A request that the step is not about keeps a sound copy: what it holds  *)
(* only speaks of rows that exist, and of their having been spent.         *)
LEMMA BystanderSound ==
    ASSUME IInv, RowsGrow, NEW q \in Request, ReqSound(q)
    PROVE  ReqSound(q)'
  BY DEF IInv, Typed, RowsGrow, ReqSound, RowSound, Issued, Request, TokenRow,
         Working, Reading, Revoking, InTx

(* Copying row t into the request makes the copy sound. *)
LEMMA CopySound ==
    ASSUME IInv, NEW t \in Tokens, Issued(t)
    PROVE  /\ tok[t].session # Null
           /\ tok[t].used <=> tok[t].next # Null
           /\ tok[t].used => /\ tok[t].next \in Tokens
                             /\ Issued(tok[t].next)
                             /\ tok[tok[t].next].session = tok[t].session
                             /\ tok[tok[t].next].family = tok[t].family
  BY DEF IInv, Typed, ChainSound, Issued, TokenRow

LEMMA RequestsStep == IInv /\ [Next]_vars => RequestsSound'
<1> SUFFICES ASSUME IInv, [Next]_vars PROVE RequestsSound'
  OBVIOUS
<1>0. /\ RowsGrow /\ Typed
      /\ tok \in [Tokens -> TokenRow] /\ req \in [Requests -> Request]
  BY RowsGrowStep DEF IInv, Typed
<1>1. ASSUME NEW r \in Requests, req'[r] = req[r]
      PROVE  ReqSound(req[r])'
  BY <1>0, <1>1, BystanderSound DEF IInv, RequestsSound
<1>2. CASE UNCHANGED req
  BY <1>1, <1>2 DEF RequestsSound
<1>3. ASSUME NEW r \in Requests, Refresh(r)
      PROVE  RequestsSound'
  <2> DEFINE q == req[r]
             Spent == {"sibling", "txSibling"} \cup Revoking
             Shown == {"found", "sibling"} \cup Revoking
  <2>0. q \in Request /\ ReqSound(q)
    BY <1>0 DEF IInv, RequestsSound
  <2>a. \A p \in Requests \ {r} : req'[p] = req[p]
    BY <1>0, <1>3, OneRequest
  <2>b. SUFFICES ReqSound(req[r])'
    BY <1>1, <2>a DEF RequestsSound
  <2>c. ASSUME NEW a \in Answers, NEW n \in Tokens \cup {Null}, Answer(r, a, n),
               q.pc # "idle"
        PROVE  ReqSound(req[r])'
    <3>1. req'[r].pc = "answered" /\ req'[r].shown = q.shown
      BY <1>0, <2>c, AnswerFields
    <3>2. q.shown \in Tokens /\ tok'[q.shown].session # Null
      BY <1>0, <2>0, <2>c DEF ReqSound, RowsGrow, Issued
    <3> QED BY <3>1, <3>2 DEF ReqSound, Issued, Working, Reading, Revoking, InTx
  <2>d. {"refused", "reuse", "failed", "rotated"} \subseteq Answers
    BY DEF Answers
  <2>w. ASSUME NEW t \in Tokens, NEW pc \in Working, WorkOn(r, t, pc), tok' = tok,
               q.pc \in Working, Issued(t), tok[t].session = tok[q.shown].session,
               pc \in {"reread", "commit"} => ~tok[t].used,
               pc \in Spent => tok[t].used,
               pc \in Shown => t = q.shown
        PROVE  ReqSound(req[r])'
    <3>0. pc \in Where
      BY DEF Where, Working
    <3>1. /\ req'[r].pc = pc /\ req'[r].cur = t /\ req'[r].row = tok[t]
          /\ req'[r].shown = q.shown
      BY <1>0, <2>w, <3>0, WorkOnFields
    <3>2. q.shown \in Tokens /\ Issued(q.shown)
      BY <2>w, WorkingSession
    <3>3. RowSound(req[r])'
      BY <2>w, <3>1, CopySound DEF RowSound, Issued
    <3> QED BY <2>w, <3>1, <3>2, <3>3 DEF ReqSound, Issued
  <2>g. ASSUME NEW pc \in Working, Goto(r, pc), tok' = tok, q.pc \in Working,
               pc \in {"reread", "commit"} => ~q.row.used,
               pc \in Spent => q.row.used,
               pc \in Shown => q.cur = q.shown
        PROVE  ReqSound(req[r])'
    <3>0. pc \in Where
      BY DEF Where, Working
    <3>1. /\ req'[r].pc = pc /\ req'[r].cur = q.cur /\ req'[r].row = q.row
          /\ req'[r].shown = q.shown
      BY <1>0, <2>g, <3>0, GotoFields
    <3>2. q.shown \in Tokens /\ Issued(q.shown) /\ RowSound(q)
      BY <2>g, WorkingSession
    <3>3. RowSound(req[r])'
      BY <2>g, <3>1, <3>2 DEF RowSound, Issued
    <3> QED BY <2>g, <3>1, <3>2, <3>3 DEF ReqSound, Issued
  <2>e. {"tx", "revokeSessions", "revokeTokens", "reread", "commit", "txSibling",
         "found", "sibling"} \subseteq Working
    BY DEF Working, Reading, Revoking, InTx
  <2>f. {"revokeSessions", "revokeTokens"} = Revoking
    BY DEF Revoking
  <2>n. ASSUME q.pc \in {"sibling", "txSibling"}
        PROVE  /\ q.row.next \in Tokens /\ Issued(q.row.next)
               /\ tok[q.row.next].session = tok[q.shown].session
    <3>1. RowSound(q) /\ q.row.used /\ q.row \in TokenRow
      BY <2>0, <2>e, <2>n, WorkingSession DEF ReqSound
    <3>2. q.row.session # Null
      BY <3>1 DEF RowSound, Issued
    <3> QED BY <3>1, <3>2 DEF RowSound, Issued, TokenRow
  <2>1. ASSUME NEW t \in Tokens, Present(r, t) PROVE ReqSound(req[r])'
    <3>1. /\ req'[r].pc = "found" /\ req'[r].cur = t /\ req'[r].shown = t
          /\ req'[r].row = tok[t] /\ tok' = tok /\ Issued(t)
      BY <1>0, <2>1, PresentFields DEF Present
    <3>2. RowSound(req[r])'
      BY <3>1, CopySound DEF RowSound, Issued
    <3> QED BY <3>1, <3>2 DEF ReqSound, Issued, Revoking
  <2>2. CASE ReadSession(r)
    <3>1. CASE ~q.row.used
      BY <2>2, <3>1, <2>c, <2>d, <2>e, <2>f, <2>g DEF ReadSession, CheckRow
    <3>2. CASE q.row.used
      <4>1. /\ req'[r].pc = "sibling" /\ req'[r].cur = q.cur
            /\ req'[r].row = q.row /\ req'[r].shown = q.shown /\ tok' = tok
        BY <2>2, <3>2, SpentFields DEF ReadSession
      <4>2. /\ q.shown \in Tokens /\ Issued(q.shown) /\ RowSound(q)
        BY <2>2, <2>e, WorkingSession DEF ReadSession
      <4>3. q.cur = q.shown
        BY <2>0, <2>2 DEF ReqSound, ReadSession
      <4> QED BY <3>2, <4>1, <4>2, <4>3 DEF ReqSound, RowSound, Issued
    <3> QED BY <3>1, <3>2
  <2>3. CASE ReadSibling(r)
    <3>1. q.row.used /\ q.cur = q.shown
      BY <2>0, <2>3 DEF ReqSound, ReadSibling
    <3>2. CASE SiblingLive(q.row.next, q.late)
      BY <2>3, <3>2, <2>n, <2>w, <2>e, <2>f DEF ReadSibling, SiblingLive
    <3>3. CASE ~SiblingLive(q.row.next, q.late)
      BY <2>3, <3>1, <3>3, <2>g, <2>e DEF ReadSibling
    <3> QED BY <3>2, <3>3
  <2>4. CASE RereadSession(r)
    BY <2>4, <2>c, <2>d, <2>e, <2>f, <2>g DEF RereadSession, CheckRow
  <2>5. CASE RevokeFamilySessions(r)
    <3>1. q.row.used /\ q.cur = q.shown
      BY <2>0, <2>5, <2>f DEF ReqSound, RevokeFamilySessions
    <3> QED BY <2>5, <3>1, <2>e, <2>g DEF RevokeFamilySessions
  <2>6. CASE RevokeFamilyTokens(r)
    BY <2>c, <2>d, <2>6 DEF RevokeFamilyTokens
  <2>7. CASE TxRead(r)
    <3>1. q.shown \in Tokens /\ Issued(q.shown)
      BY <2>7, <2>e, WorkingSession DEF TxRead
    <3> QED BY <2>7, <3>1, <2>c, <2>d, <2>e, <2>f, <2>w DEF TxRead
  <2>8. CASE TxReadSibling(r)
    <3>2. CASE SiblingLive(q.row.next, q.late)
      BY <2>8, <3>2, <2>n, <2>w, <2>e, <2>f DEF TxReadSibling, SiblingLive
    <3>3. CASE ~SiblingLive(q.row.next, q.late)
      BY <2>8, <3>3, <2>c, <2>d DEF TxReadSibling
    <3> QED BY <3>2, <3>3
  <2>9. ASSUME NEW n \in Tokens, Commit(r, n) PROVE ReqSound(req[r])'
    BY <2>c, <2>d, <2>9 DEF Commit
  <2>10. CASE Fail(r)
    BY <2>c, <2>d, <2>10 DEF Fail, Reading, InTx, Revoking
  <2>11. CASE Respond(r)
    <3>1. req'[r] = Idle
      BY <1>0, <2>11 DEF Respond
    <3> QED BY <3>1 DEF Idle, ReqSound, Working, Reading, Revoking, InTx
  <2> QED
    BY <1>3, <2>1, <2>2, <2>3, <2>4, <2>5, <2>6, <2>7, <2>8, <2>9, <2>10, <2>11
       DEF Refresh
<1> QED BY <1>2, <1>3 DEF Next, vars, Login, Logout, Expire, RevokeSession, LogoutAll

-----------------------------------------------------------------------------
(* What makes a revocation for reuse legitimate, for request r. *)
Legitimate(r) ==
    /\ tok[req[r].shown].used
    /\ tok[req[r].row.next].used \/ tok[req[r].row.next].revoked \/ req[r].late

LEMMA ReuseStep == IInv /\ [Next]_vars => ReuseIsReal'
<1> SUFFICES ASSUME IInv, [Next]_vars, NEW r \in Requests, req'[r].pc \in Revoking
             PROVE  Legitimate(r)'
  BY DEF ReuseIsReal, Legitimate
<1>0. /\ RowsGrow /\ Typed /\ ReqSound(req[r])
      /\ tok \in [Tokens -> TokenRow] /\ req \in [Requests -> Request]
  BY RowsGrowStep DEF IInv, Typed, RequestsSound
<1>1. ASSUME req[r].pc \in {"sibling"} \cup Revoking, Legitimate(r),
             req'[r].shown = req[r].shown, req'[r].row = req[r].row,
             req'[r].late = req[r].late
      PROVE  Legitimate(r)'
  <2>1. RowSound(req[r]) /\ req[r].row.used
    BY <1>0, <1>1 DEF ReqSound, Working, Reading, Revoking
  <2>2. /\ req[r].shown \in Tokens /\ Issued(req[r].shown)
        /\ req[r].row.next \in Tokens /\ Issued(req[r].row.next)
    <3>1. req[r].row \in TokenRow /\ req[r].shown \in Tokens /\ Issued(req[r].shown)
      BY <1>1, WorkingSession DEF Working, Reading, Revoking
    <3> QED BY <2>1, <3>1 DEF RowSound, Issued, TokenRow
  <2> QED BY <1>0, <1>1, <2>2 DEF Legitimate, RowsGrow
<1>2. CASE req'[r] = req[r]
  BY <1>1, <1>2 DEF IInv, ReuseIsReal, Legitimate
<1>3. CASE Refresh(r)
  <2>1. CASE ReadSibling(r)
    <3>1. CASE SiblingLive(req[r].row.next, req[r].late)
      <4>1. /\ req[r].row.next \in Tokens
        BY <1>0, <2>1, WorkingSession DEF ReadSibling, ReqSound, RowSound, TokenRow,
           Working, Reading
      <4> QED BY <1>0, <2>1, <3>1, <4>1, WorkOnFields
              DEF ReadSibling, Where, Reading, Revoking
    <3>2. CASE ~SiblingLive(req[r].row.next, req[r].late)
      <4>1. /\ req[r].pc = "sibling" /\ Goto(r, "revokeSessions")
        BY <2>1, <3>2 DEF ReadSibling
      <4>2. /\ req'[r].shown = req[r].shown /\ req'[r].row = req[r].row
            /\ req'[r].late = req[r].late
        BY <1>0, <4>1, GotoFields DEF Where, Revoking
      <4>3. RowSound(req[r]) /\ req[r].row.used /\ req[r].cur = req[r].shown
        BY <1>0, <4>1 DEF ReqSound, Working, Reading
      <4>4. req[r].row.session # Null
        BY <4>3 DEF RowSound, Issued
      <4>5. Legitimate(r)
        BY <3>2, <4>3, <4>4 DEF Legitimate, RowSound, SiblingLive, Issued
      <4> QED BY <1>1, <4>1, <4>2, <4>5
    <3> QED BY <3>1, <3>2
  <2>2. CASE RevokeFamilySessions(r)
    <3>1. /\ req'[r].shown = req[r].shown /\ req'[r].row = req[r].row
          /\ req'[r].late = req[r].late
      BY <1>0, <2>2, GotoFields DEF RevokeFamilySessions, Where, Revoking
    <3>2. req[r].pc \in Revoking
      BY <2>2 DEF RevokeFamilySessions, Revoking
    <3>3. Legitimate(r)
      BY <3>2 DEF IInv, ReuseIsReal, Legitimate
    <3> QED BY <1>1, <3>1, <3>2, <3>3
  <2>a. ASSUME NEW a \in Answers, NEW n \in Tokens \cup {Null}, Answer(r, a, n)
        PROVE  FALSE
    BY <1>0, <2>a, AnswerFields DEF Revoking
  <2>g. ASSUME Goto(r, "tx") PROVE FALSE
    BY <1>0, <2>g, GotoFields DEF Where, InTx, Revoking
  <2>w. ASSUME NEW t \in Tokens, NEW pc \in {"commit", "txSibling"}, WorkOn(r, t, pc)
        PROVE  FALSE
    <3>1. pc \in Where
      BY DEF Where, InTx
    <3> QED BY <1>0, <2>w, <3>1, WorkOnFields DEF Revoking
  <2>d. {"refused", "reuse", "failed", "rotated"} \subseteq Answers
    BY DEF Answers
  <2>3. ASSUME NEW t \in Tokens, Present(r, t) PROVE FALSE
    BY <1>0, <2>3, PresentFields DEF Revoking
  <2>4. ~ReadSession(r)
    BY <1>0, <2>a, <2>d, <2>g, SpentFields DEF ReadSession, CheckRow, Revoking
  <2>5. ~RereadSession(r)
    BY <2>a, <2>d, <2>g DEF RereadSession, CheckRow
  <2>6. ~RevokeFamilyTokens(r)
    BY <2>a, <2>d DEF RevokeFamilyTokens
  <2>7. ~TxRead(r)
    <3>1. TxRead(r) => req[r].shown \in Tokens
      BY WorkingSession DEF TxRead, Working, InTx
    <3> QED BY <2>a, <2>d, <2>w, <3>1 DEF TxRead
  <2>8. ~TxReadSibling(r)
    <3>1. TxReadSibling(r) => req[r].row.next \in Tokens
      BY <1>0, WorkingSession DEF TxReadSibling, ReqSound, RowSound, TokenRow,
         Working, InTx
    <3> QED BY <2>a, <2>d, <2>w, <3>1 DEF TxReadSibling
  <2>9. ASSUME NEW n \in Tokens, Commit(r, n) PROVE FALSE
    BY <2>a, <2>d, <2>9 DEF Commit
  <2>10. ~Fail(r)
    BY <2>a, <2>d DEF Fail
  <2>11. ~Respond(r)
    BY <1>0 DEF Respond, Idle, Revoking
  <2> QED
    BY <1>3, <2>1, <2>2, <2>3, <2>4, <2>5, <2>6, <2>7, <2>8, <2>9, <2>10, <2>11
       DEF Refresh
<1>4. ASSUME NEW p \in Requests \ {r}, Refresh(p) PROVE req'[r] = req[r]
  BY <1>0, <1>4, OneRequest
<1> QED BY <1>2, <1>3, <1>4
        DEF Next, vars, Login, Logout, Expire, RevokeSession, LogoutAll

-----------------------------------------------------------------------------
(* Revoking rows of sessions that exist, and nothing else. *)
LEMMA RevokeRowsFields ==
    ASSUME Typed, NEW S, RevokeRows(S)
    PROVE  \A s \in Sessions : /\ sess'[s].user = sess[s].user
                               /\ sess'[s].revoked <=> s \in S \/ sess[s].revoked
                               /\ s \notin S => sess'[s] = sess[s]
  BY DEF Typed, RevokeRows, SessionRow

LEMMA RootedStep == IInv /\ [Next]_vars => Rooted'
<1> SUFFICES ASSUME IInv, [Next]_vars PROVE Rooted'
  OBVIOUS
<1>0. /\ Typed /\ Rooted /\ ChainSound
      /\ sess \in [Sessions -> SessionRow] /\ tok \in [Tokens -> TokenRow]
  BY DEF IInv, Typed
(* It is enough that rows are created for blank sessions and that new      *)
(* tokens are issued for sessions that exist.                              *)
<1>1. ASSUME \A s \in Sessions : Exists(s) => sess'[s].user # Null,
             \A s \in Sessions : sess'[s].user = Null => sess'[s] = sess[s],
             \A t \in Tokens : \/ tok'[t].session = tok[t].session
                               \/ /\ tok'[t].session \in Sessions
                                  /\ sess'[tok'[t].session].user # Null
      PROVE  Rooted'
  BY <1>0, <1>1 DEF Rooted, Exists, Issued, TokenRow
<1>2. CASE UNCHANGED <<sess, tok>>
  BY <1>0, <1>1, <1>2 DEF Exists
<1>3. ASSUME NEW u \in Users, NEW s \in Sessions, NEW t \in Tokens, Login(u, s, t)
      PROVE  Rooted'
  <2>1. /\ sess'[s].user = u /\ u # Null
        /\ \A v \in Sessions \ {s} : sess'[v] = sess[v]
        /\ tok'[t].session = s
        /\ \A v \in Tokens \ {t} : tok'[v] = tok[v]
    BY <1>0, <1>3, NullAssumption DEF Login, NewToken, NoSession
  <2> QED BY <1>1, <2>1 DEF Exists
<1>4. ASSUME NEW S, RevokeRows(S), \A s \in S : s \in Sessions /\ Exists(s),
             tok' = tok
      PROVE  Rooted'
  BY <1>0, <1>1, <1>4, RevokeRowsFields DEF Exists
<1>5. ASSUME NEW s \in Sessions, Logout(s) PROVE Rooted'
  BY <1>4, <1>5 DEF Logout
<1>6. ASSUME NEW s \in Sessions, Expire(s) PROVE Rooted'
  <2>1. /\ Exists(s) /\ sess'[s].user = sess[s].user
        /\ \A v \in Sessions \ {s} : sess'[v] = sess[v]
    BY <1>0, <1>6 DEF Expire, SessionRow
  <2> QED BY <1>1, <1>6, <2>1 DEF Exists, Expire
<1>7. ASSUME NEW p \in Sessions, NEW s \in Sessions, RevokeSession(p, s) PROVE Rooted'
  BY <1>4, <1>7 DEF RevokeSession
<1>8. ASSUME NEW u \in Users, NEW e \in Sessions \cup {Null}, LogoutAll(u, e)
      PROVE Rooted'
  BY <1>4, <1>8, NullAssumption DEF LogoutAll, Exists
<1>9. ASSUME NEW r \in Requests, Refresh(r) PROVE Rooted'
  <2>1. CASE RevokeFamilySessions(r)
    <3>1. req[r].row.family \in Sessions /\ Exists(req[r].row.family)
      BY <1>0, <2>1, WorkingSession DEF RevokeFamilySessions, Working, Revoking,
         RowSound, Issued, Rooted, ChainSound
    <3> QED BY <1>2, <1>4, <2>1, <3>1 DEF RevokeFamilySessions
  <2>2. CASE RevokeFamilyTokens(r)
    <3>1. \A t \in Tokens : tok'[t].session = tok[t].session
      BY <1>0, <2>2 DEF RevokeFamilyTokens, TokenRow
    <3> QED BY <1>1, <2>2, <3>1 DEF RevokeFamilyTokens, Exists
  <2>3. ASSUME NEW n \in Tokens, Commit(r, n) PROVE Rooted'
    <3> DEFINE s == req[r].row.session
               c == req[r].cur
    <3>0. /\ s \in Sessions /\ s = tok[c].session /\ c \in Tokens /\ Issued(c)
      BY <2>3, WorkingSession DEF Commit, Working, InTx, RowSound
    <3>1. /\ tok'[c].session = tok[c].session
          /\ tok'[n] = NewToken(tok[c].session, tok[c].family)
          /\ \A t \in Tokens \ {c, n} : tok'[t] = tok[t]
      BY <2>3, CommitRows
    <3>2. tok'[n].session = s
      BY <3>0, <3>1 DEF NewToken
    <3>3. /\ Exists(s) /\ sess'[s].user = sess[s].user
          /\ \A v \in Sessions \ {s} : sess'[v] = sess[v]
      BY <1>0, <2>3, <3>0 DEF Commit, Rooted, SessionRow
    <3> HIDE DEF s, c
    <3> QED BY <1>1, <3>0, <3>1, <3>2, <3>3 DEF Exists
  <2> QED BY <1>2, <1>9, <2>1, <2>2, <2>3
          DEF Refresh, Present, ReadSession, ReadSibling, RereadSession, TxRead,
              TxReadSibling, Fail, Respond
<1> QED BY <1>2, <1>3, <1>5, <1>6, <1>7, <1>8, <1>9 DEF Next, vars

-----------------------------------------------------------------------------
(* The invariants hold in every behaviour. *)
THEOREM Inductive == Spec => []IInv
<1>1. Init => IInv
  <2> SUFFICES ASSUME Init PROVE IInv
    OBVIOUS
  <2>1. Typed
    BY DEF Init, Typed, SessionRow, TokenRow, Request, NoSession, NoToken, Idle,
           Where, Answers
  <2>2. ChainSound
    BY DEF Init, ChainSound, Issued, NoToken
  <2>3. RequestsSound /\ ReuseIsReal
    BY DEF Init, RequestsSound, ReqSound, ReuseIsReal, Idle, Working, Reading,
           Revoking, InTx
  <2>4. Rooted
    BY DEF Init, Rooted, Issued, NoToken
  <2> QED BY <2>1, <2>2, <2>3, <2>4 DEF IInv
<1>2. IInv /\ [Next]_vars => IInv'
  BY TypeStep, ChainStep, RequestsStep, ReuseStep, RootedStep DEF IInv
<1> QED BY <1>1, <1>2, PTL DEF Spec

(* Every row and every request keeps its type, and a request at work holds *)
(* the row of a token that was issued.                                     *)
THEOREM TypeCorrect == Spec => []TypeOK
<1>1. IInv => TypeOK
  <2> SUFFICES ASSUME IInv, NEW r \in Requests, req[r].pc \in Working
               PROVE  req[r].row.session # Null
    BY DEF IInv, Typed, TypeOK, Working
  <2> QED BY WorkingSession, NullAssumption
<1> QED BY <1>1, Inductive, PTL

(* The chain of replacements is sound, however requests overlap. *)
THEOREM ChainIsSound == Spec => []ChainSound
  BY Inductive, PTL DEF IInv

(* While a family is being revoked for reuse, the presented token is spent *)
(* and its replacement is spent, revoked or late.                          *)
THEOREM ReuseNeverFalse == Spec => []ReuseIsReal
  BY Inductive, PTL DEF IInv

-----------------------------------------------------------------------------
(* How the steps of a request change what it is admitted for. *)
AdmittedFor(r) == IF req[r].pc \in InTx THEN req[r].row.session ELSE Null

LEMMA AdmittedChange ==
    ASSUME IInv, NEW r \in Requests, Refresh(r)
    PROVE  Admitted' = [Admitted EXCEPT ![r] = AdmittedFor(r)']
<1>1. \A p \in Requests \ {r} : req'[p] = req[p]
  BY OneRequest DEF IInv
<1>2. \A p \in Requests \ {r} : Admitted'[p] = Admitted[p]
  BY <1>1 DEF Admitted
<1>3. Admitted'[r] = AdmittedFor(r)'
  BY DEF Admitted, AdmittedFor
<1>4. /\ Admitted' = [p \in Requests |-> Admitted'[p]]
      /\ Admitted = [p \in Requests |-> Admitted[p]]
  BY DEF Admitted
<1> HIDE DEF Admitted, AdmittedFor
<1> QED BY <1>2, <1>3, <1>4

(* A step that leaves the session rows and r's admission alone. *)
LEMMA Stutter ==
    ASSUME IInv, NEW r \in Requests, Refresh(r), sess' = sess,
           AdmittedFor(r)' = AdmittedFor(r)
    PROVE  UNCHANGED Promise!vars
<1>1. Admitted' = Admitted
  BY AdmittedChange DEF Admitted, AdmittedFor
<1> QED BY <1>1 DEF Promise!vars, OpenSessions, RevokedSessions, Exists

LEMMA Abandons ==
    ASSUME IInv, NEW r \in Requests, Refresh(r), sess' = sess,
           AdmittedFor(r)' = Null
    PROVE  [Promise!Next]_Promise!vars
<1>1. CASE AdmittedFor(r) = Null
  BY <1>1, Stutter
<1>2. CASE AdmittedFor(r) # Null
  <2>1. Promise!Abandon(r)
    BY <1>2, AdmittedChange
       DEF Promise!Abandon, Admitted, AdmittedFor, OpenSessions, RevokedSessions, Exists
  <2> QED BY <2>1 DEF Promise!Next
<1> QED BY <1>1, <1>2

(* The check before the transaction admits the request or answers it. *)
LEMMA CheckAdmits ==
    ASSUME IInv, NEW r \in Requests, Refresh(r), NEW late, CheckRow(r, late),
           req[r].pc \in Reading, UNCHANGED <<sess, tok>>
    PROVE  [Promise!Next]_Promise!vars
<1>0. Typed /\ AdmittedFor(r) = Null
  BY DEF IInv, AdmittedFor, Reading, InTx
<1>1. CASE Answer(r, "refused", Null)
  BY <1>0, <1>1, Abandons, AnswerFields DEF AdmittedFor, InTx, Answers
<1>2. CASE Goto(r, "tx") /\ ~sess[req[r].row.session].revoked
  <2> DEFINE s == req[r].row.session
  <2>1. req'[r].pc = "tx" /\ req'[r].row = req[r].row
    BY <1>0, <1>2, GotoFields DEF Where, InTx
  <2>2. s \in Sessions /\ Exists(s)
    BY WorkingSession DEF Working, IInv, Rooted, RowSound, Issued
  <2>3. AdmittedFor(r)' = s
    BY <2>1 DEF AdmittedFor, InTx
  <2>4. Promise!Admit(r, s)
    BY <1>0, <1>2, <2>2, <2>3, AdmittedChange
       DEF Promise!Admit, Admitted, AdmittedFor, OpenSessions, RevokedSessions, Exists
  <2> QED BY <2>2, <2>4 DEF Promise!Next
<1> QED BY <1>1, <1>2 DEF CheckRow

LEMMA PromiseStep == IInv /\ [Next]_vars => [Promise!Next]_Promise!vars
<1> SUFFICES ASSUME IInv, [Next]_vars PROVE [Promise!Next]_Promise!vars
  OBVIOUS
<1>0. /\ Typed /\ Rooted
      /\ sess \in [Sessions -> SessionRow] /\ tok \in [Tokens -> TokenRow]
  BY DEF IInv, Typed
<1>1. ASSUME NEW u \in Users, NEW s \in Sessions, NEW t \in Tokens, Login(u, s, t)
      PROVE  [Promise!Next]_Promise!vars
  <2>1. /\ ~Exists(s) /\ sess'[s].user # Null /\ ~sess'[s].revoked
        /\ ~sess[s].revoked
        /\ \A v \in Sessions \ {s} : sess'[v] = sess[v]
    BY <1>0, <1>1, NullAssumption DEF Login, Rooted, NoSession
  <2>2. Admitted' = Admitted
    BY <1>1 DEF Login, Admitted
  <2>3. Promise!Open(s)
    BY <2>1, <2>2 DEF Promise!Open, OpenSessions, RevokedSessions, Exists
  <2> QED BY <2>3 DEF Promise!Next
<1>2. ASSUME NEW S \in SUBSET Sessions, RevokeRows(S), \A s \in S : Exists(s),
             Admitted' = Admitted
      PROVE  [Promise!Next]_Promise!vars
  <2>1. Promise!Revoke(S)
    BY <1>0, <1>2, RevokeRowsFields
       DEF Promise!Revoke, OpenSessions, RevokedSessions, Exists
  <2> QED BY <2>1 DEF Promise!Next
<1>3. ASSUME NEW s \in Sessions, Logout(s) PROVE [Promise!Next]_Promise!vars
  BY <1>2, <1>3 DEF Logout, Admitted
<1>4. ASSUME NEW s \in Sessions, Expire(s) PROVE [Promise!Next]_Promise!vars
  <2>1. \A v \in Sessions : /\ sess'[v].user = sess[v].user
                            /\ sess'[v].revoked = sess[v].revoked
    BY <1>0, <1>4 DEF Expire, SessionRow
  <2> QED BY <1>4, <2>1
          DEF Expire, Promise!vars, OpenSessions, RevokedSessions, Admitted, Exists
<1>5. ASSUME NEW p \in Sessions, NEW s \in Sessions, RevokeSession(p, s)
      PROVE  [Promise!Next]_Promise!vars
  BY <1>2, <1>5 DEF RevokeSession, Admitted
<1>6. ASSUME NEW u \in Users, NEW e \in Sessions \cup {Null}, LogoutAll(u, e)
      PROVE  [Promise!Next]_Promise!vars
  <2> DEFINE S == {s \in Sessions : sess[s].user = u /\ s # e}
  <2>1. S \in SUBSET Sessions /\ \A s \in S : Exists(s)
    BY NullAssumption DEF Exists
  <2>2. RevokeRows(S) /\ Admitted' = Admitted
    BY <1>6 DEF LogoutAll, Admitted
  <2> HIDE DEF S
  <2> QED BY <1>2, <2>1, <2>2
<1>7. ASSUME NEW r \in Requests, Refresh(r) PROVE [Promise!Next]_Promise!vars
  <2>a. ASSUME NEW a \in Answers, NEW n \in Tokens \cup {Null}, Answer(r, a, n),
               sess' = sess
        PROVE  [Promise!Next]_Promise!vars
    BY <1>0, <1>7, <2>a, Abandons, AnswerFields DEF AdmittedFor, InTx
  <2>d. {"refused", "reuse", "failed", "rotated"} \subseteq Answers
    BY DEF Answers
  <2>1. ASSUME NEW t \in Tokens, Present(r, t) PROVE [Promise!Next]_Promise!vars
    BY <1>0, <1>7, <2>1, Stutter, PresentFields DEF Present, AdmittedFor, InTx
  <2>2. CASE ReadSession(r)
    <3>1. CASE ~req[r].row.used
      BY <1>7, <2>2, <3>1, CheckAdmits DEF ReadSession, Reading
    <3>2. CASE req[r].row.used
      BY <1>7, <2>2, <3>2, Stutter, SpentFields DEF ReadSession, AdmittedFor, InTx
    <3> QED BY <3>1, <3>2
  <2>3. CASE ReadSibling(r)
    <3>1. req'[r].pc \in {"reread", "revokeSessions"}
      <4>1. req[r].row.next \in Tokens
        BY <2>3, WorkingSession DEF ReadSibling, IInv, RequestsSound, ReqSound,
           RowSound, TokenRow, Working, Reading
      <4> QED BY <1>0, <2>3, <4>1, WorkOnFields, GotoFields
              DEF ReadSibling, Where, Reading, Revoking
    <3> QED BY <1>7, <2>3, <3>1, Stutter DEF ReadSibling, AdmittedFor, InTx
  <2>4. CASE RereadSession(r)
    BY <1>7, <2>4, CheckAdmits DEF RereadSession, Reading
  <2>5. CASE RevokeFamilySessions(r)
    <3> DEFINE f == req[r].row.family
    <3>1. f \in Sessions /\ Exists(f)
      BY <2>5, WorkingSession DEF RevokeFamilySessions, Working, Revoking,
         RowSound, Issued, IInv, Rooted, ChainSound
    <3>2. req[r].pc \notin InTx /\ req'[r].pc \notin InTx
      BY <1>0, <2>5, GotoFields DEF RevokeFamilySessions, Where, Revoking, InTx
    <3>3. Admitted' = Admitted
      BY <1>7, <3>2, AdmittedChange DEF Admitted, AdmittedFor
    <3>4. CASE RevokeRows({f})
      BY <1>2, <3>1, <3>3, <3>4
    <3>5. CASE sess' = sess
      BY <1>7, <3>2, <3>5, Stutter DEF AdmittedFor
    <3> QED BY <2>5, <3>4, <3>5 DEF RevokeFamilySessions
  <2>6. CASE RevokeFamilyTokens(r)
    BY <2>6, <2>a, <2>d DEF RevokeFamilyTokens
  <2>w. ASSUME NEW t \in Tokens, NEW pc \in InTx, WorkOn(r, t, pc), sess' = sess,
               req[r].pc \in InTx, tok[t].session = req[r].row.session
        PROVE  [Promise!Next]_Promise!vars
    <3>1. pc \in Where
      BY DEF Where
    <3>2. req'[r].pc = pc /\ req'[r].row = tok[t]
      BY <1>0, <2>w, <3>1, WorkOnFields
    <3>3. AdmittedFor(r)' = AdmittedFor(r)
      BY <2>w, <3>2 DEF AdmittedFor
    <3> QED BY <1>7, <2>w, <3>3, Stutter
  <2>e. {"tx", "txSibling", "commit"} = InTx
    BY DEF InTx
  <2>7. CASE TxRead(r)
    <3>1. /\ req[r].shown \in Tokens
          /\ tok[req[r].shown].session = req[r].row.session
      BY <2>7, WorkingSession DEF TxRead, Working, InTx, RowSound
    <3> QED BY <2>7, <3>1, <2>a, <2>d, <2>e, <2>w DEF TxRead
  <2>8. CASE TxReadSibling(r)
    <3>1. /\ req[r].row.next \in Tokens
          /\ tok[req[r].row.next].session = req[r].row.session
      BY <2>8, WorkingSession DEF TxReadSibling, IInv, RequestsSound, ReqSound,
         RowSound, Issued, TokenRow, Working, InTx
    <3> QED BY <2>8, <3>1, <2>a, <2>d, <2>e, <2>w DEF TxReadSibling
  <2>9. ASSUME NEW n \in Tokens, Commit(r, n) PROVE [Promise!Next]_Promise!vars
    <3> DEFINE s == req[r].row.session
    <3>1. s \in Sessions /\ s # Null
      BY <2>9, WorkingSession, NullAssumption DEF Commit, Working, InTx
    <3>2. AdmittedFor(r) = s
      BY <2>9 DEF Commit, AdmittedFor, InTx
    <3>3. AdmittedFor(r)' = Null
      BY <1>0, <2>9, AnswerFields DEF Commit, AdmittedFor, InTx, Answers
    <3>4. /\ sess'[s].user = sess[s].user /\ ~sess'[s].revoked
          /\ \A v \in Sessions \ {s} : sess'[v] = sess[v]
      BY <1>0, <2>9, <3>1 DEF Commit, SessionRow
    <3>5. Admitted' = [Admitted EXCEPT ![r] = Null] /\ Admitted[r] = s
      BY <1>7, <3>2, <3>3, AdmittedChange DEF Admitted, AdmittedFor
    <3>6. /\ OpenSessions' = OpenSessions
          /\ RevokedSessions' = RevokedSessions \ {s}
      BY <3>1, <3>4 DEF OpenSessions, RevokedSessions, Exists
    <3> HIDE DEF s
    <3>7. Promise!Rotate(r)
      BY <3>1, <3>5, <3>6 DEF Promise!Rotate
    <3> QED BY <3>7 DEF Promise!Next
  <2>10. CASE Fail(r)
    BY <2>10, <2>a, <2>d DEF Fail
  <2>11. CASE Respond(r)
    <3>1. req'[r].pc = "idle" /\ req[r].pc = "answered"
      BY <1>0, <2>11 DEF Respond, Idle, Typed
    <3> QED BY <1>7, <2>11, <3>1, Stutter DEF Respond, AdmittedFor, InTx
  <2> QED
    BY <1>7, <2>1, <2>2, <2>3, <2>4, <2>5, <2>6, <2>7, <2>8, <2>9, <2>10, <2>11
       DEF Refresh
<1>8. CASE UNCHANGED vars
  BY <1>8 DEF vars, Promise!vars, OpenSessions, RevokedSessions, Admitted, Exists
<1> QED BY <1>1, <1>3, <1>4, <1>5, <1>6, <1>7, <1>8 DEF Next

(* The refresh flow implements the promise of SessionPromise. *)
THEOREM PromiseKept == Spec => KeepsPromise
<1>1. Init => Promise!Init
  BY DEF Init, Promise!Init, OpenSessions, RevokedSessions, Admitted, Exists,
         NoSession, Idle, InTx
<1>2. IInv /\ [Next]_vars => [Promise!Next]_Promise!vars
  BY PromiseStep
<1> QED BY <1>1, <1>2, Inductive, PTL DEF Spec, Promise!Spec, KeepsPromise

-----------------------------------------------------------------------------
(* A session is quiesced when the promise says so: revoked, with no        *)
(* rotation admitted for it.                                               *)
QuiescedPromise(s) ==
    s \in OpenSessions /\ s \in RevokedSessions /\ \A r \in Requests : Admitted[r] # s

LEMMA QuiescedIsPromise ==
    ASSUME IInv, NEW s \in Sessions PROVE Quiesced(s) <=> QuiescedPromise(s)
<1>1. \A r \in Requests : req[r].pc \in InTx =>
         req[r].row.session = tok[req[r].shown].session
  BY WorkingSession DEF Working, RowSound
<1>2. s # Null
  BY NullAssumption
<1> QED BY <1>1, <1>2
        DEF Quiesced, QuiescedPromise, OpenSessions, RevokedSessions, Admitted

(* In the abstract specification, what is quiesced stays so. *)
LEMMA PromiseFinal ==
    ASSUME [Promise!Next]_Promise!vars, NEW s \in Sessions, QuiescedPromise(s),
           Admitted \in [Requests -> Sessions \cup {Null}]
    PROVE  QuiescedPromise(s)'
<1>1. ASSUME NEW v \in Sessions, Promise!Open(v) PROVE QuiescedPromise(s)'
  BY <1>1 DEF Promise!Open, QuiescedPromise
<1>2. ASSUME NEW S \in SUBSET Sessions, Promise!Revoke(S) PROVE QuiescedPromise(s)'
  BY <1>2 DEF Promise!Revoke, QuiescedPromise
<1>3. ASSUME NEW r \in Requests, NEW v \in Sessions, Promise!Admit(r, v)
      PROVE  QuiescedPromise(s)'
  BY <1>3 DEF Promise!Admit, QuiescedPromise
<1>4. ASSUME NEW r \in Requests, Promise!Rotate(r) PROVE QuiescedPromise(s)'
  BY <1>4, NullAssumption DEF Promise!Rotate, QuiescedPromise
<1>5. ASSUME NEW r \in Requests, Promise!Abandon(r) PROVE QuiescedPromise(s)'
  BY <1>5, NullAssumption DEF Promise!Abandon, QuiescedPromise
<1>6. CASE UNCHANGED Promise!vars
  BY <1>6 DEF Promise!vars, QuiescedPromise
<1> QED BY <1>1, <1>2, <1>3, <1>4, <1>5, <1>6 DEF Promise!Next

(* Tokens are only issued by a login, for a new session, and by the commit *)
(* of an admitted rotation.                                                *)
LEMMA NoNewToken ==
    ASSUME IInv, [Next]_vars, NEW s \in Sessions, Quiesced(s), NEW t \in Tokens,
           tok'[t].session = s
    PROVE  tok[t].session = s
<1>0. tok \in [Tokens -> TokenRow] /\ Exists(s)
  BY DEF IInv, Typed, Quiesced
<1>1. ASSUME NEW u \in Users, NEW v \in Sessions, NEW w \in Tokens, Login(u, v, w)
      PROVE  tok[t].session = s
  BY <1>0, <1>1 DEF Login, NewToken
<1>2. ASSUME NEW r \in Requests, RevokeFamilyTokens(r)
      PROVE  tok[t].session = s
  BY <1>0, <1>2 DEF RevokeFamilyTokens, TokenRow
<1>3. ASSUME NEW r \in Requests, NEW n \in Tokens, Commit(r, n)
      PROVE  tok[t].session = s
  <2> DEFINE c == req[r].cur
  <2>1. tok[c].session # s
    BY <1>3, WorkingSession DEF Commit, Working, InTx, RowSound, Quiesced
  <2>2. /\ tok'[c].session = tok[c].session
        /\ tok'[n] = NewToken(tok[c].session, tok[c].family)
        /\ \A v \in Tokens \ {c, n} : tok'[v] = tok[v]
    BY <1>3, CommitRows
  <2>3. tok'[n].session = tok[c].session
    BY <2>2 DEF NewToken
  <2> HIDE DEF c
  <2> QED BY <2>1, <2>2, <2>3
<1> QED BY <1>1, <1>2, <1>3, TokenWriters

(* A revocation that no rotation overlaps is final. *)
THEOREM LogoutIsFinal == Spec => LogoutFinal
<1>1. ASSUME IInv, IInv', [Next]_vars PROVE QuiescedForGood
  <2> SUFFICES ASSUME NEW s \in Sessions, Quiesced(s)
               PROVE  /\ Quiesced(s)'
                      /\ \A t \in Tokens : tok'[t].session = s => tok[t].session = s
    BY DEF QuiescedForGood
  <2>1. Admitted \in [Requests -> Sessions \cup {Null}]
    BY <1>1, WorkingSession DEF Admitted, Working
  <2>2. QuiescedPromise(s)'
    BY <1>1, <2>1, QuiescedIsPromise, PromiseStep, PromiseFinal
  <2>3. \A r \in Requests : req'[r].pc \in InTx =>
           req'[r].row.session = tok'[req'[r].shown].session
    BY <1>1 DEF IInv, RequestsSound, ReqSound, RowSound, Working
  <2>4. Quiesced(s)'
    BY <2>2, <2>3, NullAssumption
       DEF Quiesced, QuiescedPromise, OpenSessions, RevokedSessions, Admitted, Exists
  <2> QED BY <1>1, <2>4, NoNewToken
<1>2. IInv /\ IInv' /\ [Next]_vars => [QuiescedForGood]_vars
  BY <1>1
<1> QED BY <1>2, Inductive, PTL DEF Spec, LogoutFinal

-----------------------------------------------------------------------------
(* One request at a time *)

(* The tokens of session s that a client could still rotate. *)
Unspent(s) == {t \in Tokens : tok[t].session = s /\ ~tok[t].used}

(* Rotation moves one token on: a session has exactly one unspent token.   *)
OneUnspentToken ==
    \A s \in Sessions : Exists(s) => \E t \in Tokens : Unspent(s) = {t}

(* A request about to commit spends a token nobody has spent meanwhile.    *)
SpendsUnspent == \A r \in Requests : req[r].pc = "commit" => ~tok[req[r].cur].used

(* Sessions are only created by a login. *)
LEMMA CommitStays ==
    ASSUME IInv, NEW r \in Requests, NEW n \in Tokens, Commit(r, n)
    PROVE  \A v \in Sessions : Exists(v)' <=> Exists(v)
  BY DEF IInv, Typed, Commit, Exists, SessionRow

LEMMA SessionsStay ==
    ASSUME IInv, [Next]_vars
    PROVE  \/ \E u \in Users, s \in Sessions, t \in Tokens : Login(u, s, t)
           \/ \A s \in Sessions : Exists(s)' <=> Exists(s)
<1>1. Typed /\ sess \in [Sessions -> SessionRow]
  BY DEF IInv, Typed
<1>2. CASE sess' = sess
  BY <1>2 DEF Exists
<1>3. ASSUME NEW S, RevokeRows(S) PROVE \A s \in Sessions : Exists(s)' <=> Exists(s)
  BY <1>1, <1>3, RevokeRowsFields DEF Exists
<1>4. ASSUME NEW s \in Sessions, Expire(s)
      PROVE  \A v \in Sessions : Exists(v)' <=> Exists(v)
  BY <1>1, <1>4 DEF Expire, Exists, SessionRow
<1>5. ASSUME NEW r \in Requests, NEW n \in Tokens, Commit(r, n)
      PROVE  \A v \in Sessions : Exists(v)' <=> Exists(v)
  BY <1>5, CommitStays
<1> QED BY <1>2, <1>3, <1>4, <1>5
        DEF Next, vars, Refresh, Logout, RevokeSession, LogoutAll, RevokeFamilySessions,
            Present, ReadSession, ReadSibling, RereadSession, RevokeFamilyTokens,
            TxRead, TxReadSibling, Fail, Respond

(* A login starts the chain of a new session. *)
LEMMA LoginStarts ==
    ASSUME IInv, OneUnspentToken,
           NEW u \in Users, NEW s \in Sessions, NEW t \in Tokens, Login(u, s, t)
    PROVE  OneUnspentToken'
<1>1. /\ tok'[t] = NewToken(s, s)
      /\ \A v \in Tokens \ {t} : tok'[v] = tok[v]
      /\ \A v \in Sessions \ {s} : sess'[v] = sess[v]
      /\ ~Exists(s) /\ ~Issued(t)
  BY DEF IInv, Typed, Login
<1>2. \A v \in Tokens : tok[v].session # s
  BY <1>1, NullAssumption DEF IInv, Rooted, Issued
<1>3. Unspent(s)' = {t}
  BY <1>1, <1>2 DEF Unspent, NewToken
<1>4. ASSUME NEW p \in Sessions \ {s} PROVE Unspent(p)' = Unspent(p)
  BY <1>1, <1>4, NullAssumption DEF Unspent, NewToken, Issued
<1> QED BY <1>1, <1>3, <1>4 DEF OneUnspentToken, Exists

(* A commit of the only request moves the chain on by one token. *)
LEMMA CommitMovesOn ==
    ASSUME IInv, OneUnspentToken, SpendsUnspent,
           NEW r \in Requests, NEW n \in Tokens, Commit(r, n)
    PROVE  OneUnspentToken'
<1>1. PICK c \in Tokens, s \in Sessions : c = req[r].cur /\ s = tok[c].session
  BY WorkingSession DEF Commit, Working, InTx, RowSound
<1>2. /\ Issued(c) /\ ~Issued(n) /\ c # n
      /\ tok'[c].session = s /\ tok'[c].used
      /\ tok'[n] = NewToken(s, tok[c].family)
      /\ \A t \in Tokens \ {c, n} : tok'[t] = tok[t]
  BY <1>1, CommitRows
<1>3. tok'[n].session = s /\ ~tok'[n].used /\ tok[n].session = Null
  BY <1>2 DEF NewToken, Issued
<1>4. \A v \in Sessions : Exists(v)' <=> Exists(v)
  BY CommitStays
<1>5. Unspent(s) = {c}
  <2>1. Exists(s)
    BY <1>1, <1>2 DEF IInv, Rooted
  <2>2. c \in Unspent(s)
    BY <1>1 DEF Unspent, SpendsUnspent, Commit
  <2> QED BY <2>1, <2>2 DEF OneUnspentToken
<1>6. Unspent(s)' = {n}
  BY <1>2, <1>3, <1>5 DEF Unspent
<1>7. ASSUME NEW p \in Sessions \ {s} PROVE Unspent(p)' = Unspent(p)
  BY <1>1, <1>2, <1>3, <1>7, NullAssumption DEF Unspent
<1> QED BY <1>4, <1>6, <1>7 DEF OneUnspentToken

(* No other step of a request touches a chain; only the reads inside the   *)
(* transaction lead to its commit.                                         *)
LEMMA OtherStepsKeep ==
    ASSUME IInv, [Next]_vars, OneUnspentToken,
           \A u \in Users, s \in Sessions, t \in Tokens : ~Login(u, s, t),
           \A r \in Requests, n \in Tokens : ~Commit(r, n)
    PROVE  /\ OneUnspentToken'
           /\ \A t \in Tokens : tok'[t].used <=> tok[t].used
<1>1. \A t \in Tokens : /\ tok'[t].session = tok[t].session
                        /\ tok'[t].used <=> tok[t].used
  <2>1. CASE tok' = tok
    BY <2>1
  <2>2. ASSUME NEW r \in Requests, RevokeFamilyTokens(r)
        PROVE  \A t \in Tokens : /\ tok'[t].session = tok[t].session
                                 /\ tok'[t].used <=> tok[t].used
    BY <2>2 DEF RevokeFamilyTokens, IInv, Typed, TokenRow
  <2> QED BY <2>1, <2>2, TokenWriters
<1>2. \A s \in Sessions : Exists(s)' <=> Exists(s)
  BY SessionsStay
<1>3. \A s \in Sessions : Unspent(s)' = Unspent(s)
  BY <1>1 DEF Unspent
<1> QED BY <1>1, <1>2, <1>3 DEF OneUnspentToken

(* Where a request comes from when it is about to commit. *)
LEMMA BeforeCommit ==
    ASSUME IInv, NEW r \in Requests, Refresh(r), req'[r].pc = "commit"
    PROVE  tok' = tok /\ ~tok[req'[r].cur].used
<1> DEFINE n == req[r].row.next
<1>1. /\ Typed /\ req[r] \in Request
      /\ req[r].pc = "tx" => req[r].shown \in Tokens
      /\ req[r].pc \in {"sibling", "txSibling"} => n \in Tokens
  BY NullAssumption, WorkingSession
     DEF IInv, Typed, RequestsSound, ReqSound, RowSound, Request, TokenRow, Working, Reading, InTx
<1>2. ASSUME NEW t \in Tokens, NEW pc \in {"commit", "txSibling"},
             WorkOn(r, t, pc), pc = "commit" => ~tok[t].used
      PROVE  ~tok[req'[r].cur].used
  BY <1>1, <1>2, WorkOnFields DEF Where, InTx
<1>3. CASE TxRead(r)
  BY <1>1, <1>2, <1>3, AnswerFields DEF TxRead, Answers
<1>4. CASE TxReadSibling(r)
  BY <1>1, <1>2, <1>4, AnswerFields DEF TxReadSibling, SiblingLive, Answers
<1>5. req'[r].pc # "commit" \/ TxRead(r) \/ TxReadSibling(r)
  <2>1. ASSUME NEW late, CheckRow(r, late) PROVE req'[r].pc # "commit"
    BY <1>1, <2>1, AnswerFields, GotoFields DEF CheckRow, Where, InTx, Answers
  <2>2. ASSUME ReadSession(r), req[r].row.used PROVE req'[r].pc # "commit"
    BY <2>2, SpentFields
  <2>3. CASE ReadSession(r)
    BY <2>1, <2>2, <2>3 DEF ReadSession
  <2>4. CASE \E t \in Tokens : Present(r, t)
    BY <1>1, <2>4, PresentFields
  <2>5. CASE ReadSibling(r)
    BY <1>1, <2>5, WorkOnFields, GotoFields DEF ReadSibling, Where, Reading, Revoking
  <2>6. CASE RereadSession(r)
    BY <2>1, <2>6 DEF RereadSession
  <2>7. CASE RevokeFamilySessions(r)
    BY <1>1, <2>7, GotoFields DEF RevokeFamilySessions, Where, Revoking
  <2>8. CASE RevokeFamilyTokens(r) \/ Fail(r) \/ \E m \in Tokens : Commit(r, m)
    BY <1>1, <2>8, AnswerFields DEF RevokeFamilyTokens, Fail, Commit, Answers
  <2>9. CASE Respond(r)
    BY <1>1, <2>9 DEF Respond, Idle, Typed
  <2> QED BY <2>3, <2>4, <2>5, <2>6, <2>7, <2>8, <2>9 DEF Refresh
<1>6. TxRead(r) \/ TxReadSibling(r) => tok' = tok
  BY DEF TxRead, TxReadSibling
<1> QED BY <1>3, <1>4, <1>5, <1>6

(* With one request at a time (the single refresh of a client), a session  *)
(* has exactly one unspent token through lost answers, retries, failures   *)
(* and revocations: Refresh.                                               *)
THEOREM OneAtATime ==
    ASSUME NEW r \in Requests, Requests = {r}
    PROVE  Spec => []OneUnspentToken
<1>1. Init => OneUnspentToken /\ SpendsUnspent
  BY DEF Init, OneUnspentToken, SpendsUnspent, Exists, NoSession, Idle
<1>2. ASSUME IInv, [Next]_vars, OneUnspentToken, SpendsUnspent
      PROVE  OneUnspentToken' /\ SpendsUnspent'
  <2>1. CASE \E u \in Users, s \in Sessions, t \in Tokens : Login(u, s, t)
    <3>1. OneUnspentToken'
      BY <1>2, <2>1, LoginStarts
    <3>2. req[r].pc = "commit" => req[r].cur \in Tokens /\ Issued(req[r].cur)
      BY <1>2, WorkingSession DEF Working, InTx, RowSound
    <3>3. SpendsUnspent'
      BY <1>2, <2>1, <3>2 DEF SpendsUnspent, Login, Issued
    <3> QED BY <3>1, <3>3
  <2>2. CASE \E n \in Tokens : Commit(r, n)
    <3>1. req'[r].pc = "answered"
      BY <1>2, <2>2, AnswerFields, NullAssumption DEF Commit, Answers, IInv
    <3> QED BY <1>2, <2>2, <3>1, CommitMovesOn DEF SpendsUnspent
  <2>3. CASE /\ \A u \in Users, s \in Sessions, t \in Tokens : ~Login(u, s, t)
             /\ \A n \in Tokens : ~Commit(r, n)
    <3>1. OneUnspentToken' /\ \A t \in Tokens : tok'[t].used <=> tok[t].used
      BY <1>2, <2>3, OtherStepsKeep
    <3>2. CASE Refresh(r)
      BY <1>2, <3>1, <3>2, BeforeCommit DEF SpendsUnspent
    <3>3. CASE req' = req
      <4>1. req[r].pc = "commit" => req[r].cur \in Tokens
        BY <1>2, WorkingSession DEF Working, InTx, RowSound
      <4> QED BY <1>2, <3>1, <3>3, <4>1 DEF SpendsUnspent
    <3> QED BY <1>2, <3>1, <3>2, <3>3
            DEF Next, vars, Login, Logout, Expire, RevokeSession, LogoutAll
  <2> QED BY <2>1, <2>2, <2>3
<1>3. IInv /\ [Next]_vars /\ OneUnspentToken /\ SpendsUnspent
        => OneUnspentToken' /\ SpendsUnspent'
  BY <1>2
<1> QED BY <1>1, <1>3, Inductive, PTL DEF Spec

-----------------------------------------------------------------------------
(* Reuse, one request at a time *)

(* What the only request has read still is what the table says, and the      *)
(* replacement it found live still is.                                       *)
Alone(r) ==
    LET q == req[r]
        n == tok[q.shown].next IN
    /\ q.pc \in {"found", "sibling"} \cup Revoking => q.row.family = tok[q.shown].family
    /\ q.pc \in {"found", "sibling", "txSibling"} => q.row.next = n
    /\ q.pc = "found" => (q.row.used <=> tok[q.shown].used)
    /\ q.pc \in {"reread", "txSibling"} => tok[q.shown].used /\ SiblingLive(n, q.late)
    /\ q.pc = "tx" /\ tok[q.shown].used => SiblingLive(n, q.late)

(* Other steps than those of the request leave its rows alone. *)
LEMMA AloneUndisturbed ==
    ASSUME IInv, NEW r \in Requests, Alone(r), req' = req,
           \A t \in Tokens : Issued(t) => tok'[t] = tok[t]
    PROVE  Alone(r)'
<1>1. CASE req[r].pc \in Working
  <2>1. req[r].shown \in Tokens /\ Issued(req[r].shown)
    BY <1>1, WorkingSession
  <2>2. tok'[req[r].shown] = tok[req[r].shown]
    BY <2>1
  <2>3. tok[req[r].shown].used => /\ tok[req[r].shown].next \in Tokens
                                 /\ Issued(tok[req[r].shown].next)
    BY <2>1 DEF IInv, Typed, ChainSound, TokenRow
  <2> QED BY <2>2, <2>3 DEF Alone, SiblingLive, Issued
<1>2. CASE req[r].pc \notin Working
  BY <1>2 DEF Alone, Working, Reading, Revoking, InTx
<1> QED BY <1>1, <1>2

(* A step of the request itself. *)
LEMMA AloneMoves ==
    ASSUME IInv, NEW r \in Requests, Alone(r), Refresh(r)
    PROVE  Alone(r)'
<1>0. Typed /\ {"tx", "revokeSessions", "revokeTokens", "reread", "txSibling", "commit"} \subseteq Where
  BY DEF IInv, Typed, Where, Reading, Revoking, InTx
<1>1. ASSUME req'[r].pc \in {"idle", "answered", "commit"} PROVE Alone(r)'
  BY <1>1 DEF Alone, Revoking
<1>2. ASSUME NEW a \in Answers, NEW n \in Tokens \cup {Null}, Answer(r, a, n) PROVE Alone(r)'
  BY <1>0, <1>1, <1>2, AnswerFields
<1>3. {"refused", "reuse", "failed", "rotated"} \subseteq Answers
  BY DEF Answers
<1>4. ASSUME NEW t \in Tokens, Present(r, t) PROVE Alone(r)'
  <2>1. /\ req'[r].pc = "found" /\ req'[r].shown = t /\ req'[r].row = tok[t] /\ tok' = tok
    BY <1>0, <1>4, PresentFields DEF Present
  <2> QED BY <2>1 DEF Alone
<1>5. ASSUME NEW late, req[r].pc \in {"found", "reread"}, CheckRow(r, late), tok' = tok,
             tok[req[r].shown].used => SiblingLive(tok[req[r].shown].next, req[r].late)
      PROVE  Alone(r)'
  BY <1>0, <1>2, <1>3, <1>5, GotoFields DEF CheckRow, Alone, Revoking, SiblingLive, Issued
<1>6. CASE ReadSession(r)
  <2>1. CASE req[r].row.used
    BY <1>6, <2>1, SpentFields DEF ReadSession, Alone, Revoking
  <2>2. CASE ~req[r].row.used
    BY <1>5, <1>6, <2>2 DEF ReadSession, Alone
  <2> QED BY <2>1, <2>2
<1>7. CASE ReadSibling(r)
  <2> DEFINE n == req[r].row.next
  <2>1. /\ req[r].pc = "sibling" /\ tok' = tok
        /\ \/ SiblingLive(n, req[r].late) /\ WorkOn(r, n, "reread")
           \/ Goto(r, "revokeSessions")
    BY <1>7 DEF ReadSibling
  <2>2. /\ n = tok[req[r].shown].next /\ n \in Tokens /\ tok[req[r].shown].used
        /\ req[r].row.family = tok[req[r].shown].family
    BY <2>1, WorkingSession, NullAssumption
       DEF Alone, IInv, RequestsSound, ReqSound, RowSound, TokenRow, Working, Reading
  <2>3. CASE SiblingLive(n, req[r].late) /\ WorkOn(r, n, "reread")
    BY <1>0, <2>1, <2>2, <2>3, WorkOnFields DEF Alone, Revoking, SiblingLive, Issued
  <2>4. CASE Goto(r, "revokeSessions")
    BY <1>0, <2>1, <2>2, <2>4, GotoFields DEF Alone, Revoking
  <2> QED BY <2>1, <2>3, <2>4
<1>8. CASE RereadSession(r)
  BY <1>5, <1>8 DEF RereadSession, Alone
<1>9. CASE RevokeFamilySessions(r)
  BY <1>0, <1>9, GotoFields DEF RevokeFamilySessions, Alone, Revoking
<1>10. CASE TxRead(r)
  <2> DEFINE t == req[r].shown
  <2>1. req[r].pc = "tx" /\ tok' = tok /\ t \in Tokens
    BY <1>10, WorkingSession DEF TxRead, Working, InTx
  <2>2. CASE WorkOn(r, t, "commit")
    BY <1>0, <1>1, <2>1, <2>2, WorkOnFields
  <2>3. CASE Answer(r, "reuse", Null)
    BY <1>2, <1>3, <2>3
  <2>4. CASE tok[t].used /\ WorkOn(r, t, "txSibling")
    BY <1>0, <2>1, <2>4, WorkOnFields DEF Alone, Revoking, SiblingLive, Issued
  <2> QED BY <1>10, <2>2, <2>3, <2>4 DEF TxRead
<1>11. CASE TxReadSibling(r)
  <2> DEFINE n == req[r].row.next
  <2>1. req[r].pc = "txSibling" /\ n \in Tokens
    BY <1>11, WorkingSession, NullAssumption
       DEF TxReadSibling, IInv, RequestsSound, ReqSound, RowSound, TokenRow, Working, InTx
  <2>2. CASE WorkOn(r, n, "commit")
    BY <1>0, <1>1, <2>1, <2>2, WorkOnFields
  <2> QED BY <1>2, <1>3, <1>11, <2>2 DEF TxReadSibling
<1>12. CASE RevokeFamilyTokens(r) \/ Fail(r) \/ \E n \in Tokens : Commit(r, n)
  BY <1>2, <1>3, <1>12 DEF RevokeFamilyTokens, Fail, Commit
<1>13. CASE Respond(r)
  BY <1>0, <1>1, <1>13 DEF Respond, Idle, Typed
<1> QED BY <1>4, <1>6, <1>7, <1>8, <1>9, <1>10, <1>11, <1>12, <1>13 DEF Refresh

(* The only request notices a reuse before its transaction, where the family *)
(* is revoked for good.                                                      *)
LEMMA ReuseNoticedEarly ==
    ASSUME IInv, NEW r \in Requests, Alone(r), Refresh(r),
           req[r].answer # "reuse", req'[r].answer = "reuse"
    PROVE  RevokeFamilyTokens(r)
<1>0. Typed /\ {"refused", "failed", "rotated"} \subseteq Answers
  BY DEF IInv, Answers
<1>1. ASSUME NEW a \in {"refused", "failed", "rotated"}, NEW n \in Tokens \cup {Null}, Answer(r, a, n)
      PROVE  FALSE
  BY <1>0, <1>1, AnswerFields
<1>2. ASSUME NEW t, NEW pc, WorkOn(r, t, pc) \/ Goto(r, pc) PROVE FALSE
  BY <1>0, <1>2 DEF WorkOn, Goto, Typed, Request
<1>3. ~TxRead(r)
  <2>1. req[r].pc = "tx" => req[r].shown \in Tokens
    BY WorkingSession DEF Working, InTx
  <2> QED BY <1>2, <2>1 DEF TxRead, IInv, ChainSound
<1>4. ~TxReadSibling(r)
  BY <1>2 DEF TxReadSibling, Alone
<1>5. ASSUME NEW late, CheckRow(r, late) PROVE FALSE
  BY <1>1, <1>2, <1>5 DEF CheckRow
<1>6. ~ReadSession(r)
  <2>1. ASSUME ReadSession(r), req[r].row.used PROVE FALSE
    <3>1. PICK late, pc : req' = [req EXCEPT ![r] = [req[r] EXCEPT !.late = late, !.pc = pc]]
      BY <2>1 DEF ReadSession
    <3>2. req'[r].answer = req[r].answer
      BY <1>0, <3>1 DEF Typed, Request
    <3> QED BY <3>2
  <2> QED BY <1>5, <2>1 DEF ReadSession
<1>7. ~(Fail(r) \/ \E n \in Tokens : Commit(r, n))
  BY <1>1 DEF Fail, Commit
<1>8. ~(Respond(r) \/ \E t \in Tokens : Present(r, t))
  <2>1. ASSUME Respond(r) PROVE FALSE
    BY <1>0, <2>1 DEF Respond, Idle, Typed
  <2>2. ASSUME NEW t \in Tokens, Present(r, t) PROVE FALSE
    <3> DEFINE new == [Idle EXCEPT !.pc = "found", !.shown = t, !.cur = t, !.row = tok[t]]
    <3>1. new.answer = "none"
      BY DEF Idle
    <3>2. req' = [req EXCEPT ![r] = new]
      BY <2>2 DEF Present
    <3> HIDE DEF new
    <3> QED BY <1>0, <3>1, <3>2 DEF Typed
  <2> QED BY <2>1, <2>2
<1> QED BY <1>2, <1>3, <1>4, <1>5, <1>6, <1>7, <1>8
        DEF Refresh, ReadSibling, RereadSession, RevokeFamilySessions

(* With one request at a time and a database that answers, a client that is  *)
(* told of a reuse has every token of its family revoked: the reuse branch   *)
(* of the transaction, whose revocation rolls back, needs a second request   *)
(* (Refresh).                                                                *)
THEOREM ReuseRevokesAlone ==
    ASSUME NEW x \in Requests, Requests = {x}, ~DbErrors
    PROVE  Spec => ReuseAnswerRevokes
<1> DEFINE Revokes ==
        \A r \in Requests :
            req[r].answer # "reuse" /\ req'[r].answer = "reuse" =>
                \A t \in Tokens : tok'[t].family = tok[req[r].shown].family => tok'[t].revoked
<1>1. Init => Alone(x)
  BY DEF Init, Idle, Alone, Revoking
<1>2. ASSUME IInv, [Next]_vars, Alone(x) PROVE Alone(x)'
  <2>1. CASE Refresh(x)
    BY <1>2, <2>1, AloneMoves
  <2>2. CASE ~Refresh(x)
    <3>1. req' = req
      BY <1>2, <2>2 DEF Next, vars, Login, Logout, Expire, RevokeSession, LogoutAll
    <3>2. \A t \in Tokens : Issued(t) => tok'[t] = tok[t]
      <4>1. \A q \in Requests : ~RevokeFamilyTokens(q) /\ \A n \in Tokens : ~Commit(q, n)
        BY <2>2 DEF Refresh
      <4>2. tok' = tok \/ \E u \in Users, s \in Sessions, t \in Tokens : Login(u, s, t)
        BY <1>2, <4>1, TokenWriters
      <4> QED BY <1>2, <4>2 DEF Login, IInv, Typed
    <3> QED BY <1>2, <3>1, <3>2, AloneUndisturbed
  <2> QED BY <2>1, <2>2
<1>3. ASSUME IInv, Alone(x), Next PROVE Revokes
  <2> SUFFICES ASSUME req[x].answer # "reuse", req'[x].answer = "reuse"
               PROVE  \A t \in Tokens : tok'[t].family = tok[req[x].shown].family => tok'[t].revoked
    OBVIOUS
  <2>1. Refresh(x)
    BY <1>3 DEF Next, Login, Logout, Expire, RevokeSession, LogoutAll
  <2>2. RevokeFamilyTokens(x)
    BY <1>3, <2>1, ReuseNoticedEarly
  <2>3. /\ req[x].row.family = tok[req[x].shown].family
        /\ tok' = [t \in Tokens |-> IF tok[t].family = req[x].row.family
                                   THEN [tok[t] EXCEPT !.revoked = TRUE] ELSE tok[t]]
    BY <1>3, <2>2 DEF RevokeFamilyTokens, Alone, Revoking
  <2> QED BY <1>3, <2>3 DEF IInv, Typed, TokenRow
<1>4. IInv /\ [Next]_vars /\ Alone(x) => Alone(x)'
  BY <1>2
<1>5. IInv /\ [Next]_vars /\ Alone(x) => [Revokes]_vars
  BY <1>3
<1>6. Spec => []Alone(x)
  BY <1>1, <1>4, Inductive, PTL DEF Spec
<1> QED BY <1>5, <1>6, Inductive, PTL DEF Spec, ReuseAnswerRevokes

=============================================================================
