-------------------------- MODULE WebSession_proofs -------------------------
(***************************************************************************)
(* Proofs about WebSession, for any number of tabs, tokens and messages.   *)
(***************************************************************************)
EXTENDS WebSession, SequenceTheorems, TLAPS

(* The type of the world an event works on. *)
Worlds == [record : TokenOrNull, own : TokenOrNull, ui : Ui, timer : BOOLEAN, sent : Seq(TokenOrNull)]

(* v is what becomes of w when the session is told as Notify tells it: a     *)
(* page that is loading is not signed out.                                   *)
Quiet(w, v) == w.ui.status = "loading" => v.ui.status # "unauthenticated"

(* A world in which there is no session and no other tab was told of one. *)
Silent(w) == \A i \in 1 .. Len(w.sent) : w.sent[i] = Null
Empty(w) == w.record = Null /\ w.own = Null /\ Silent(w)

-----------------------------------------------------------------------------
LEMMA UiTyped ==
    ASSUME NEW k \in TokenOrNull, NEW u \in Ui
    PROVE  /\ k # Null => [status |-> "authenticated", access |-> k] \in Ui
           /\ [status |-> "unauthenticated", access |-> Null] \in Ui
           /\ [status |-> "loading", access |-> Null] \in Ui
           /\ u.status \in {"authenticated", "loading", "unauthenticated"}
  BY DEF Ui, TokenOrNull

LEMMA WorldTyped == ASSUME TypeOK, NEW t \in Tab PROVE World(t) \in Worlds
<1>1. own[t] \in TokenOrNull /\ ui[t] \in Ui /\ timer[t] \in BOOLEAN /\ record \in TokenOrNull
  BY DEF TypeOK
<1>2. <<>> \in Seq(TokenOrNull)
  OBVIOUS
<1> QED BY <1>1, <1>2 DEF World, Worlds

(* Every helper takes a world to a world, and what it does to the record and *)
(* to what is shown.                                                         *)
LEMMA NotifyTyped ==
    ASSUME NEW w \in Worlds, NEW k \in TokenOrNull
    PROVE  /\ Notify(w, k) \in Worlds /\ Quiet(w, Notify(w, k))
           /\ Notify(w, k).record = w.record /\ Notify(w, k).own = w.own /\ Notify(w, k).sent = w.sent
           /\ k = Null => /\ Notify(w, k).ui.status # "authenticated"
                          /\ w.ui.status = "loading" => Notify(w, k).ui.status = "loading"
<1> DEFINE u == IF k # Null THEN [status |-> "authenticated", access |-> k]
                ELSE [status |-> IF w.ui.status = "loading" THEN "loading" ELSE "unauthenticated",
                      access |-> Null]
<1>1. w.ui \in Ui
  BY DEF Worlds
<1>2. u \in Ui /\ (w.ui.status = "loading" => u.status # "unauthenticated")
      /\ (k = Null => u.status # "authenticated" /\ (w.ui.status = "loading" => u.status = "loading"))
  BY <1>1, UiTyped
<1>3. Notify(w, k) = [w EXCEPT !.ui = u]
  BY DEF Notify
<1> HIDE DEF u
<1>4. /\ Notify(w, k) \in Worlds /\ Notify(w, k).ui = u
      /\ Notify(w, k).record = w.record /\ Notify(w, k).own = w.own /\ Notify(w, k).sent = w.sent
  BY <1>2, <1>3 DEF Worlds
<1> QED BY <1>2, <1>4 DEF Quiet

LEMMA WriteTyped ==
    ASSUME NEW w \in Worlds, NEW k \in TokenOrNull
    PROVE  /\ Write(w, k) \in Worlds /\ Write(w, k).record = k /\ Write(w, k).own = k
           /\ Write(w, k).ui = w.ui /\ Write(w, k).sent = w.sent
  BY DEF Write, Worlds

LEMMA ClearedTyped ==
    ASSUME NEW w \in Worlds
    PROVE  /\ Cleared(w) \in Worlds /\ Quiet(w, Cleared(w))
           /\ Silent(w) => Empty(Cleared(w))
           /\ Cleared(w).ui.status # "authenticated"
           /\ w.ui.status = "loading" => Cleared(w).ui.status = "loading"
<1> DEFINE x == Write(w, Null)
           s == Append(x.sent, Null)
           v == [x EXCEPT !.sent = s, !.timer = FALSE]
<1>1. Null \in TokenOrNull
  BY DEF TokenOrNull
<1>2. x \in Worlds /\ x.record = Null /\ x.own = Null /\ x.ui = w.ui /\ x.sent = w.sent
  BY <1>1, WriteTyped
<1>3. s \in Seq(TokenOrNull) /\ (Silent(w) => \A i \in 1 .. Len(s) : s[i] = Null)
  <2>1. x.sent \in Seq(TokenOrNull)
    BY <1>2 DEF Worlds
  <2> HIDE DEF x
  <2> QED BY <1>1, <1>2, <2>1 DEF Silent
<1>4. v \in Worlds /\ v.record = Null /\ v.own = Null /\ v.ui = w.ui /\ v.sent = s
  <2> HIDE DEF x, s
  <2> QED BY <1>2, <1>3 DEF Worlds
<1>5. Cleared(w) = Notify(v, Null)
  BY DEF Cleared
<1> HIDE DEF v
<1>6. /\ Notify(v, Null) \in Worlds /\ Quiet(v, Notify(v, Null)) /\ Notify(v, Null).record = v.record
      /\ Notify(v, Null).own = v.own /\ Notify(v, Null).sent = v.sent
      /\ Notify(v, Null).ui.status # "authenticated"
      /\ v.ui.status = "loading" => Notify(v, Null).ui.status = "loading"
  BY <1>1, <1>4, NotifyTyped
<1>7. Silent(w) => Empty(Cleared(w))
  <2> HIDE DEF s
  <2> QED BY <1>3, <1>4, <1>5, <1>6 DEF Silent, Empty
<1> QED BY <1>4, <1>5, <1>6, <1>7 DEF Quiet

LEMMA SavedTyped ==
    ASSUME NEW w \in Worlds, NEW k \in TokenOrNull
    PROVE  Saved(w, k) \in Worlds /\ Quiet(w, Saved(w, k))
<1> DEFINE x == Write(w, k)
           s == Append(x.sent, k)
           v == [x EXCEPT !.sent = s]
<1>1. x \in Worlds /\ x.ui = w.ui
  BY WriteTyped
<1>2. s \in Seq(TokenOrNull)
  BY <1>1 DEF Worlds
<1>3. v \in Worlds /\ v.ui = w.ui
  <2> HIDE DEF x, s
  <2> QED BY <1>1, <1>2 DEF Worlds
<1>4. Saved(w, k) = Notify(v, k)
  BY DEF Saved
<1> HIDE DEF v
<1> QED BY <1>3, <1>4, NotifyTyped DEF Quiet

LEMMA FoundTyped == ASSUME NEW w \in Worlds PROVE Found(w) \in TokenOrNull
  BY DEF Found, Worlds

LEMMA LoadsTyped ==
    ASSUME NEW w \in Worlds, NEW v \in Loads(w)
    PROVE  v \in Worlds /\ Quiet(w, v) /\ (w.ui.status = "loading" => v.ui.status = "loading")
<1>1. v = w \/ v = Write(w, Found(w)) \/ v = Cleared(w)
  BY DEF Loads
<1>2. CASE v = w
  BY <1>2 DEF Quiet
<1>3. CASE v = Write(w, Found(w))
  <2>1. v \in Worlds /\ v.ui = w.ui
    BY <1>3, WriteTyped, FoundTyped
  <2> QED BY <2>1 DEF Quiet
<1>4. CASE v = Cleared(w)
  BY <1>4, ClearedTyped
<1> QED BY <1>1, <1>2, <1>3, <1>4

LEMMA AutoTyped ==
    ASSUME NEW w \in Worlds, NEW k \in TokenOrNull, NEW x \in AutoContinues(w, k)
    PROVE  /\ x \in Worlds /\ Quiet(w, x)
           /\ Found(w) = Null /\ Silent(w) => Empty(x) /\ x.ui.status # "authenticated"
<1>1. CASE x = Cleared(w)
  BY <1>1, ClearedTyped
<1>2. CASE x # Cleared(w)
  <2>1. PICK v \in Loads(w) : x = IF Found(v) # Null THEN Saved(v, k) ELSE Cleared(v)
    BY <1>2 DEF AutoContinues
  <2>2. v \in Worlds /\ Quiet(w, v) /\ (w.ui.status = "loading" => v.ui.status = "loading")
    BY LoadsTyped
  <2>3. x \in Worlds /\ Quiet(v, x)
    BY <2>1, <2>2, SavedTyped, ClearedTyped
  <2>4. Found(w) # Null
    BY <1>2, <2>1 DEF Loads
  <2> QED BY <2>2, <2>3, <2>4 DEF Quiet
<1> QED BY <1>1, <1>2

LEMMA BootTyped ==
    ASSUME NEW w \in Worlds, NEW k \in TokenOrNull
    PROVE  BootContinues(w, k) \in Worlds /\ (Empty(w) => Empty(BootContinues(w, k)))
<1>1. CASE k # Null
  <2> DEFINE u == [status |-> "authenticated", access |-> k]
  <2>1. u \in Ui
    BY <1>1 DEF Ui, TokenOrNull
  <2> HIDE DEF u
  <2>2. [w EXCEPT !.ui = u] \in Worlds /\ (Empty(w) => Empty([w EXCEPT !.ui = u]))
    BY <2>1 DEF Worlds, Empty, Silent
  <2> QED BY <1>1, <2>2 DEF BootContinues, u
<1>2. CASE k = Null
  <2> DEFINE v == Cleared(w)
             u == [status |-> "unauthenticated", access |-> Null]
  <2>1. v \in Worlds /\ u \in Ui /\ (Empty(w) => Empty(v))
    BY ClearedTyped DEF Ui, Empty
  <2> HIDE DEF u, v
  <2>2. [v EXCEPT !.ui = u] \in Worlds /\ (Empty(v) => Empty([v EXCEPT !.ui = u]))
    BY <2>1 DEF Worlds, Empty, Silent
  <2> QED BY <1>2, <2>1, <2>2 DEF BootContinues, u, v
<1> QED BY <1>1, <1>2

(* What the continuations of a refresh of t make of its world. *)
LEMMA ContinuedTyped ==
    ASSUME TypeOK, NEW t \in Tab, NEW k \in TokenOrNull, NEW w \in Continued(t, k)
    PROVE  /\ w \in Worlds
           /\ Gone(t) => Empty(w)
           /\ boot[t] # "waiting" =>
                 /\ Quiet(World(t), w)
                 /\ Gone(t) /\ w.ui.status = "authenticated" => World(t).ui.status = "authenticated"
<1> DEFINE o == World(t)
           a(v) == IF auto[t] THEN AutoContinues(v, k) ELSE {v}
           b(v) == IF boot[t] = "waiting" THEN BootContinues(v, k) ELSE v
<1>1. o \in Worlds /\ (Gone(t) => Empty(o))
  BY WorldTyped DEF World, Gone, Empty, Silent
<1>2. w \in a(b(o)) \/ \E v \in a(o) : w = b(v)
  BY DEF Continued
<1> HIDE DEF o
<1>3. \A v \in Worlds : \A x \in a(v) : x \in Worlds /\ (Empty(v) => Empty(x))
  BY AutoTyped DEF Empty, Found
<1>4. \A v \in Worlds : b(v) \in Worlds /\ (Empty(v) => Empty(b(v)))
  BY BootTyped
<1>5. w \in Worlds /\ (Gone(t) => Empty(w))
  <2> HIDE DEF a, b
  <2>1. CASE w \in a(b(o))
    BY <1>1, <1>3, <1>4, <2>1
  <2>2. CASE \E v \in a(o) : w = b(v)
    BY <1>1, <1>3, <1>4, <2>2
  <2> QED BY <1>2, <2>1, <2>2
<1>6. ASSUME boot[t] # "waiting"
      PROVE  /\ Quiet(o, w)
             /\ Gone(t) /\ w.ui.status = "authenticated" => o.ui.status = "authenticated"
  <2>1. w \in AutoContinues(o, k) \/ w = o
    BY <1>2, <1>6
  <2>2. Quiet(o, o) /\ (Gone(t) => Found(o) = Null /\ Silent(o))
    BY <1>1 DEF Quiet, Found, Empty
  <2> QED BY <1>1, <2>1, <2>2, AutoTyped
<1> QED BY <1>5, <1>6 DEF o

-----------------------------------------------------------------------------
(* A committed world is typed, and shows what it says to its tab only. *)
LEMMA CommitTyped ==
    ASSUME TypeOK, NEW t \in Tab, NEW w \in Worlds, Commit(t, w)
    PROVE  /\ record' = w.record /\ record' \in TokenOrNull
           /\ own' \in [Tab -> TokenOrNull] /\ ui' \in [Tab -> Ui] /\ timer' \in [Tab -> BOOLEAN]
           /\ ui'[t] = w.ui /\ own'[t] = w.own
           /\ \A x \in Tab : x # t => ui'[x] = ui[x]
<1>1. w.record \in TokenOrNull /\ w.own \in TokenOrNull /\ w.ui \in Ui /\ w.timer \in BOOLEAN
  BY DEF Worlds
<1> QED BY <1>1 DEF TypeOK, Commit

LEMMA BroadcastTyped ==
    ASSUME TypeOK, NEW t \in Tab, NEW w \in Worlds, NEW box \in Seq(TokenOrNull), Broadcast(t, box, w.sent)
    PROVE  inbox' \in [Tab -> Seq(TokenOrNull)]
<1>1. \A o \in Tab : inbox[o] \in Seq(TokenOrNull) /\ inbox[o] \o w.sent \in Seq(TokenOrNull)
  BY DEF TypeOK, Worlds
<1> QED BY <1>1 DEF Broadcast

LEMMA ServiceTyped ==
    ASSUME TypeOK, NEW t \in Tab, NEW k \in TokenOrNull,
           \/ Load(t) \/ Refresh(t) \/ Resolved(t, k) \/ StartLogout(t) \/ EndLogout(t)
           \/ UNCHANGED serviceVars
    PROVE  ServiceTypeOK'
<1>1. ServiceTypeOK
  BY DEF TypeOK
<1>2. CASE Resolved(t, k)
  <2> DEFINE v == IF boot[t] = "waiting" THEN IF k # Null THEN "in" ELSE "out" ELSE boot[t]
  <2>1. v \in {"no", "waiting", "in", "out"}
    BY <1>1 DEF ServiceTypeOK
  <2>2. boot' = [boot EXCEPT ![t] = v] /\ UNCHANGED leaving /\ refreshing' = [refreshing EXCEPT ![t] = FALSE]
    BY <1>2 DEF Resolved
  <2> HIDE DEF v
  <2> QED BY <1>1, <2>1, <2>2 DEF ServiceTypeOK
<1>3. CASE Load(t)
  BY <1>1, <1>3 DEF Load, ServiceTypeOK
<1>4. CASE Refresh(t) \/ StartLogout(t) \/ EndLogout(t) \/ UNCHANGED serviceVars
  BY <1>1, <1>4 DEF Refresh, StartLogout, EndLogout, serviceVars, ServiceTypeOK
<1> QED BY <1>2, <1>3, <1>4

(* The page load. *)
LEMMA OpenPageTyped ==
    ASSUME TypeOK, NEW t \in Tab, OpenPage(t)
    PROVE  \E w \in Worlds : Commit(t, w) /\ Broadcast(t, <<>>, w.sent) /\ w.ui.status # "unauthenticated"
<1> DEFINE f == [World(t) EXCEPT !.ui = [status |-> "loading", access |-> Null], !.timer = FALSE]
<1>1. f \in Worlds /\ f.ui.status = "loading"
  <2> DEFINE o == World(t)
             u == [status |-> "loading", access |-> Null]
  <2>1. o \in Worlds /\ u \in Ui /\ u.status = "loading"
    BY WorldTyped DEF Ui
  <2> HIDE DEF o, u
  <2>2. [o EXCEPT !.ui = u, !.timer = FALSE] \in Worlds /\ [o EXCEPT !.ui = u, !.timer = FALSE].ui = u
    BY <2>1 DEF Worlds
  <2> QED BY <2>1, <2>2 DEF o, u
<1>2. PICK k \in TokenOrNull :
          \E v \in Loads(IF k # Null THEN Write(f, k) ELSE f) :
              Commit(t, Notify(v, Found(v))) /\ Broadcast(t, <<>>, v.sent)
  BY DEF OpenPage
<1> HIDE DEF f
<1> DEFINE g == IF k # Null THEN Write(f, k) ELSE f
<1>0. PICK v \in Loads(g) : Commit(t, Notify(v, Found(v))) /\ Broadcast(t, <<>>, v.sent)
  BY <1>2
<1>3. g \in Worlds /\ g.ui.status = "loading"
  BY <1>1, WriteTyped
<1> HIDE DEF g
<1>4. v \in Worlds /\ v.ui.status = "loading"
  BY <1>3, LoadsTyped
<1> DEFINE w == Notify(v, Found(v))
<1>5. w \in Worlds /\ w.sent = v.sent /\ w.ui.status # "unauthenticated"
  BY <1>4, FoundTyped, NotifyTyped DEF Quiet
<1> QED BY <1>0, <1>5

(* A check commits what it loads. *)
LEMMA CheckTyped ==
    ASSUME TypeOK, NEW t \in Tab, CheckSession(t)
    PROVE  \E w \in Worlds : Commit(t, w) /\ Broadcast(t, inbox[t], w.sent) /\ Quiet(World(t), w)
<1>1. PICK w \in Loads(World(t)) : Commit(t, w) /\ Broadcast(t, inbox[t], w.sent)
  BY DEF CheckSession
<1> QED BY <1>1, WorldTyped, LoadsTyped

LEMMA SignInTyped ==
    ASSUME TypeOK, NEW t \in Tab, SignIn(t)
    PROVE  \E w \in Worlds : Commit(t, w) /\ Broadcast(t, inbox[t], w.sent) /\ Quiet(World(t), w)
<1>1. PICK k \in Token : LET w == [Saved(World(t), k) EXCEPT !.timer = TRUE]
                         IN  Commit(t, w) /\ Broadcast(t, inbox[t], w.sent)
  BY DEF SignIn
<1> DEFINE v == Saved(World(t), k)
           w == [v EXCEPT !.timer = TRUE]
<1>2. v \in Worlds /\ Quiet(World(t), v)
  BY WorldTyped, SavedTyped DEF TokenOrNull
<1>3. w \in Worlds /\ w.ui = v.ui
  <2> HIDE DEF v
  <2> QED BY <1>2 DEF Worlds
<1> QED BY <1>1, <1>2, <1>3 DEF Quiet

LEMMA SignOutTyped ==
    ASSUME TypeOK, NEW t \in Tab, SignOut(t)
    PROVE  \E w \in Worlds : Commit(t, w) /\ Broadcast(t, inbox[t], w.sent)
<1> DEFINE v == Cleared(World(t))
           u == [status |-> "unauthenticated", access |-> Null]
           w == [v EXCEPT !.ui = u]
<1>1. Commit(t, w) /\ Broadcast(t, inbox[t], w.sent)
  BY DEF SignOut
<1>2. v \in Worlds /\ u \in Ui
  BY WorldTyped, ClearedTyped DEF Ui
<1>3. w \in Worlds
  <2> HIDE DEF v, u
  <2> QED BY <1>2 DEF Worlds
<1> QED BY <1>1, <1>3

LEMMA InactiveTyped ==
    ASSUME TypeOK, NEW t \in Tab, Inactive(t)
    PROVE  \E w \in Worlds : Commit(t, w) /\ Broadcast(t, inbox[t], w.sent) /\ Quiet(World(t), w)
<1> DEFINE o == World(t)
           v == [o EXCEPT !.timer = FALSE]
<1>1. PICK w \in {Cleared(o), v} : Commit(t, w) /\ Broadcast(t, inbox[t], w.sent)
  BY DEF Inactive
<1>2. o \in Worlds
  BY WorldTyped
<1> HIDE DEF o
<1>3. v \in Worlds /\ v.ui = o.ui
  BY <1>2 DEF Worlds
<1>4. v \in Worlds /\ Quiet(o, v)
  <2>1. o.ui \in Ui
    BY <1>2 DEF Worlds
  <2> QED BY <1>3, <2>1 DEF Quiet, Ui
<1>5. w \in Worlds /\ Quiet(o, w)
  BY <1>1, <1>2, <1>4, ClearedTyped
<1> QED BY <1>1, <1>5 DEF o

LEMMA ReceiveTyped ==
    ASSUME TypeOK, NEW t \in Tab, Receive(t)
    PROVE  /\ \E w \in Worlds : Commit(t, w) /\ Quiet(World(t), w)
           /\ inbox' \in [Tab -> Seq(TokenOrNull)]
<1> DEFINE k == Head(inbox[t])
           v == Write(World(t), k)
<1>1. k \in TokenOrNull /\ Tail(inbox[t]) \in Seq(TokenOrNull)
  BY DEF Receive, TypeOK
<1>2. v \in Worlds /\ v.ui = World(t).ui
  BY <1>1, WorldTyped, WriteTyped
<1>3. Notify(v, k) \in Worlds /\ Quiet(v, Notify(v, k))
  BY <1>1, <1>2, NotifyTyped
<1>4. Commit(t, Notify(v, k)) /\ inbox' = [inbox EXCEPT ![t] = Tail(inbox[t])]
  BY DEF Receive
<1>5. inbox' \in [Tab -> Seq(TokenOrNull)]
  BY <1>1, <1>4 DEF TypeOK
<1> QED BY <1>2, <1>3, <1>4, <1>5 DEF Quiet

-----------------------------------------------------------------------------
LEMMA InitTyped == Init => TypeOK
<1> SUFFICES ASSUME Init PROVE TypeOK
  OBVIOUS
<1>1. Null \in TokenOrNull /\ [status |-> "loading", access |-> Null] \in Ui /\ <<>> \in Seq(TokenOrNull)
  BY DEF TokenOrNull, Ui
<1>2. ServiceTypeOK
  BY DEF Init, ServiceInit, ServiceTypeOK
<1> QED BY <1>1, <1>2 DEF Init, TypeOK

(* A step that commits a world. *)
LEMMA CommitKeeps ==
    ASSUME TypeOK, NEW t \in Tab, NEW w \in Worlds, NEW box \in Seq(TokenOrNull),
           Commit(t, w), Broadcast(t, box, w.sent), ServiceTypeOK', auto' \in [Tab -> BOOLEAN]
    PROVE  TypeOK'
  BY CommitTyped, BroadcastTyped DEF TypeOK

LEMMA NextTyped == TypeOK /\ [Next]_vars => TypeOK'
<1> SUFFICES ASSUME TypeOK, [Next]_vars PROVE TypeOK'
  OBVIOUS
<1>1. /\ <<>> \in Seq(TokenOrNull) /\ Null \in TokenOrNull /\ auto \in [Tab -> BOOLEAN]
      /\ \A t \in Tab : inbox[t] \in Seq(TokenOrNull)
  BY DEF TypeOK, TokenOrNull
<1>2. CASE UNCHANGED vars
  BY <1>2 DEF vars, sessionVars, serviceVars, TypeOK, ServiceTypeOK
<1>3. ASSUME NEW t \in Tab, OpenPage(t) PROVE TypeOK'
  <2>1. Load(t) /\ auto' \in [Tab -> BOOLEAN]
    BY <1>1, <1>3 DEF OpenPage
  <2>2. ServiceTypeOK'
    BY <1>1, <2>1, ServiceTyped
  <2> QED BY <1>1, <1>3, <2>1, <2>2, OpenPageTyped, CommitKeeps
<1>4. ASSUME NEW t \in Tab, CheckSession(t) PROVE TypeOK'
  <2>1. auto' \in [Tab -> BOOLEAN] /\ (Refresh(t) \/ UNCHANGED serviceVars)
    BY <1>1, <1>4 DEF CheckSession
  <2>2. ServiceTypeOK'
    BY <1>1, <2>1, ServiceTyped
  <2> QED BY <1>1, <1>4, <2>1, <2>2, CheckTyped, CommitKeeps
<1>5. ASSUME NEW t \in Tab, NEW k \in TokenOrNull, RefreshEnds(t, k) PROVE TypeOK'
  <2>1. PICK w \in Continued(t, k) : Commit(t, w) /\ Broadcast(t, inbox[t], w.sent)
    BY <1>5 DEF RefreshEnds
  <2>2. Resolved(t, k) /\ auto' \in [Tab -> BOOLEAN]
    BY <1>1, <1>5 DEF RefreshEnds
  <2>3. ServiceTypeOK' /\ w \in Worlds
    BY <2>1, <2>2, ServiceTyped, ContinuedTyped
  <2> QED BY <1>1, <2>1, <2>2, <2>3, CommitKeeps
<1>6. ASSUME NEW t \in Tab, SignIn(t) PROVE TypeOK'
  <2>1. UNCHANGED <<serviceVars, auto>>
    BY <1>6 DEF SignIn
  <2>2. ServiceTypeOK'
    BY <1>1, <2>1, ServiceTyped
  <2> QED BY <1>1, <1>6, <2>1, <2>2, SignInTyped, CommitKeeps
<1>7. ASSUME NEW t \in Tab, SignOut(t) PROVE TypeOK'
  <2>1. EndLogout(t) /\ UNCHANGED auto
    BY <1>7 DEF SignOut
  <2>2. ServiceTypeOK'
    BY <1>1, <2>1, ServiceTyped
  <2> QED BY <1>1, <1>7, <2>1, <2>2, SignOutTyped, CommitKeeps
<1>8. ASSUME NEW t \in Tab, Inactive(t) PROVE TypeOK'
  <2>1. UNCHANGED <<serviceVars, auto>>
    BY <1>8 DEF Inactive
  <2>2. ServiceTypeOK'
    BY <1>1, <2>1, ServiceTyped
  <2> QED BY <1>1, <1>8, <2>1, <2>2, InactiveTyped, CommitKeeps
<1>9. ASSUME NEW t \in Tab, Receive(t) PROVE TypeOK'
  <2>1. UNCHANGED <<serviceVars, auto>>
    BY <1>9 DEF Receive
  <2>2. ServiceTypeOK'
    BY <1>1, <2>1, ServiceTyped
  <2> QED BY <1>1, <1>9, <2>1, <2>2, ReceiveTyped, CommitTyped DEF TypeOK
<1>10. ASSUME NEW t \in Tab, SignOutBegins(t) \/ SignOutFails(t) \/ RequestRefreshes(t) PROVE TypeOK'
  <2>1. UNCHANGED sessionVars /\ (Refresh(t) \/ StartLogout(t) \/ EndLogout(t))
    BY <1>10 DEF SignOutBegins, SignOutFails, RequestRefreshes
  <2>2. ServiceTypeOK'
    BY <1>1, <2>1, ServiceTyped
  <2> QED BY <2>1, <2>2 DEF TypeOK, sessionVars
<1>11. ASSUME NEW t \in Tab, TrackActivity(t) PROVE TypeOK'
  <2>1. UNCHANGED serviceVars
    BY <1>11 DEF TrackActivity
  <2>2. ServiceTypeOK'
    BY <1>1, <1>11, <2>1, ServiceTyped
  <2> QED BY <1>11, <2>2 DEF TrackActivity, TypeOK
<1> QED BY <1>2, <1>3, <1>4, <1>5, <1>6, <1>7, <1>8, <1>9, <1>10, <1>11 DEF Next

(* Type correctness: a page shows a session just when it has an access       *)
(* token, and every record and message is one the tabs have.                 *)
THEOREM TypeCorrect == Spec => []TypeOK
  BY InitTyped, NextTyped, PTL DEF Spec

(* A page that is loading is only shown as signed out by its own bootstrap() *)
(* or logout: the guard of the listener in AuthContext.tsx.                  *)
THEOREM NoFlashEver == Spec => NoFlash
<1> DEFINE Calm ==
        \A t \in Tab : ui[t].status = "loading" /\ ui'[t].status = "unauthenticated" =>
            \/ boot[t] = "waiting" /\ boot'[t] # "waiting"
            \/ leaving[t] /\ ~leaving'[t]
<1>1. ASSUME TypeOK, Next PROVE Calm
  <2> SUFFICES ASSUME NEW x \in Tab, ui[x].status = "loading", ui'[x].status = "unauthenticated"
               PROVE  \/ boot[x] = "waiting" /\ boot'[x] # "waiting"
                      \/ leaving[x] /\ ~leaving'[x]
    OBVIOUS
  <2>1. ASSUME NEW t \in Tab, NEW w \in Worlds, Commit(t, w), Quiet(World(t), w) PROVE FALSE
    <3>1. ui'[t] = w.ui /\ (x # t => ui'[x] = ui[x]) /\ World(t).ui = ui[t]
      BY <1>1, <2>1, CommitTyped DEF World
    <3> QED BY <2>1, <3>1 DEF Quiet
  <2>2. ASSUME NEW t \in Tab, NEW k \in TokenOrNull, RefreshEnds(t, k)
        PROVE  boot[x] = "waiting" /\ boot'[x] # "waiting"
    <3>1. PICK w \in Continued(t, k) : Commit(t, w)
      BY <2>2 DEF RefreshEnds
    <3>2. w \in Worlds /\ (boot[t] # "waiting" => Quiet(World(t), w))
      BY <1>1, ContinuedTyped
    <3>3. boot[t] = "waiting"
      BY <2>1, <3>1, <3>2
    <3>4. x = t
      BY <1>1, <3>1, <3>2, CommitTyped
    <3>5. boot'[t] # "waiting"
      BY <1>1, <2>2 DEF RefreshEnds, Resolved, TypeOK, ServiceTypeOK
    <3> QED BY <3>3, <3>4, <3>5
  <2>3. ASSUME NEW t \in Tab, SignOut(t) PROVE leaving[x] /\ ~leaving'[x]
    <3>1. x = t
      BY <1>1, <2>3, SignOutTyped, CommitTyped
    <3> QED BY <1>1, <2>3, <3>1 DEF SignOut, EndLogout, TypeOK, ServiceTypeOK
  <2>4. ASSUME NEW t \in Tab, OpenPage(t) PROVE FALSE
    BY <1>1, <2>4, OpenPageTyped, CommitTyped
  <2>5. ASSUME NEW t \in Tab, CheckSession(t) \/ SignIn(t) \/ Inactive(t) \/ Receive(t) PROVE FALSE
    BY <1>1, <2>1, <2>5, CheckTyped, SignInTyped, InactiveTyped, ReceiveTyped
  <2>6. ASSUME NEW t \in Tab, SignOutBegins(t) \/ SignOutFails(t) \/ RequestRefreshes(t) \/ TrackActivity(t)
        PROVE  FALSE
    BY <2>6 DEF SignOutBegins, SignOutFails, RequestRefreshes, TrackActivity, sessionVars
  <2> QED BY <1>1, <2>2, <2>3, <2>4, <2>5, <2>6 DEF Next
<1>2. TypeOK /\ [Next]_vars => [Calm]_vars
  BY <1>1
<1> QED BY <1>2, TypeCorrect, PTL DEF Spec, NoFlash

(* What a silent world is broadcast as: no message but "no session". *)
LEMMA BroadcastSilent ==
    ASSUME TypeOK, NEW t \in Tab, NEW w \in Worlds, Silent(w), Broadcast(t, inbox[t], w.sent), NEW o \in Tab
    PROVE  \A i \in 1 .. Len(inbox'[o]) : i > Len(inbox[o]) => inbox'[o][i] = Null
<1>1. inbox[o] \in Seq(TokenOrNull) /\ w.sent \in Seq(TokenOrNull)
  BY DEF TypeOK, Worlds
<1>2. inbox'[o] = inbox[o] \/ inbox'[o] = inbox[o] \o w.sent
  BY DEF Broadcast
<1>3. PICK q : q = inbox'[o]
  OBVIOUS
<1>4. \A i \in 1 .. Len(q) : i > Len(inbox[o]) => q[i] = Null
  <2>1. PICK b, m : b = inbox[o] /\ m = w.sent
    OBVIOUS
  <2>2. b \in Seq(TokenOrNull) /\ m \in Seq(TokenOrNull) /\ (q = b \/ q = b \o m)
    BY <1>1, <1>2, <1>3, <2>1
  <2>3. \A i \in 1 .. Len(m) : m[i] = Null
    BY <2>1 DEF Silent
  <2>4. CASE q = b \o m
    <3>1. Len(q) = Len(b) + Len(m) /\ Len(b) \in Nat /\ Len(m) \in Nat
      BY <2>2, <2>4
    <3>2. ASSUME NEW i \in 1 .. Len(q), i > Len(b) PROVE q[i] = Null
      <4>1. i \in Nat /\ i - Len(b) \in 1 .. Len(m)
        BY <3>1, <3>2
      <4>2. \A j \in 1 .. Len(b) + Len(m) : (b \o m)[j] = IF j <= Len(b) THEN b[j] ELSE m[j - Len(b)]
        BY <2>2, ConcatProperties
      <4>3. i \in 1 .. Len(b) + Len(m) /\ ~(i <= Len(b))
        BY <3>1, <3>2
      <4> QED BY <2>3, <2>4, <4>1, <4>2, <4>3
    <3> QED BY <2>1, <3>2
  <2>5. CASE q = b
    <3>1. Len(b) \in Nat
      BY <2>2
    <3> QED BY <2>1, <2>5, <3>1
  <2> QED BY <2>2, <2>4, <2>5
<1> QED BY <1>3, <1>4

(* A refresh that ends after the session went from localStorage and from the *)
(* tab neither brings it back nor tells another tab of one, a bootstrap()    *)
(* included: the record is read again after the await.                       *)
THEOREM NoRevivalEver == Spec => NoRevival
<1> DEFINE Stays ==
        \A t \in Tab : refreshing[t] /\ ~refreshing'[t] /\ Gone(t) =>
            /\ Gone(t)'
            /\ \A o \in Tab : \A i \in 1 .. Len(inbox'[o]) : i > Len(inbox[o]) => inbox'[o][i] = Null
            /\ boot[t] # "waiting" /\ ui'[t].status = "authenticated" => ui[t].status = "authenticated"
<1>1. ASSUME TypeOK, Next PROVE Stays
  <2> SUFFICES ASSUME NEW x \in Tab, refreshing[x], ~refreshing'[x], Gone(x)
               PROVE  /\ Gone(x)'
                      /\ \A o \in Tab : \A i \in 1 .. Len(inbox'[o]) : i > Len(inbox[o]) => inbox'[o][i] = Null
                      /\ boot[x] # "waiting" /\ ui'[x].status = "authenticated" => ui[x].status = "authenticated"
    OBVIOUS
  <2>0. refreshing \in [Tab -> BOOLEAN]
    BY <1>1 DEF TypeOK, ServiceTypeOK
  <2>1. PICK t \in Tab, k \in TokenOrNull : RefreshEnds(t, k)
    <3>1. ASSUME NEW t \in Tab,
                 Load(t) \/ Refresh(t) \/ StartLogout(t) \/ EndLogout(t) \/ UNCHANGED serviceVars
          PROVE  FALSE
      BY <2>0, <3>1 DEF Load, Refresh, StartLogout, EndLogout, serviceVars
    <3> QED BY <1>1, <3>1
            DEF Next, OpenPage, CheckSession, RequestRefreshes, SignIn, SignOutBegins, SignOut, SignOutFails,
                Receive, TrackActivity, Inactive
  <2>2. t = x
    BY <2>0, <2>1 DEF RefreshEnds, Resolved
  <2>3. PICK w \in Continued(t, k) : Commit(t, w) /\ Broadcast(t, inbox[t], w.sent)
    BY <2>1 DEF RefreshEnds
  <2>4. /\ w \in Worlds /\ Empty(w)
        /\ boot[x] # "waiting" /\ w.ui.status = "authenticated" => ui[x].status = "authenticated"
    BY <1>1, <2>2, ContinuedTyped DEF World
  <2>5. Gone(x)' /\ ui'[x] = w.ui
    BY <1>1, <2>2, <2>3, <2>4, CommitTyped DEF Empty, Gone
  <2>6. \A o \in Tab : \A i \in 1 .. Len(inbox'[o]) : i > Len(inbox[o]) => inbox'[o][i] = Null
    BY <1>1, <2>3, <2>4, BroadcastSilent DEF Empty
  <2> QED BY <2>4, <2>5, <2>6
<1>2. TypeOK /\ [Next]_vars => [Stays]_vars
  BY <1>1
<1> QED BY <1>2, TypeCorrect, PTL DEF Spec, NoRevival

(* The context uses auth.ts only as TokenService has it, whatever messages   *)
(* and timers run: ClientTokens, which implements the same promise, can      *)
(* stand for it.                                                             *)
THEOREM UsesService == Spec => ServiceSpec
<1>1. Init => ServiceInit
  BY DEF Init
<1>2. [Next]_vars => [ServiceNext]_serviceVars
  BY DEF Next, vars, OpenPage, CheckSession, RequestRefreshes, RefreshEnds, SignIn, SignOutBegins,
         SignOut, SignOutFails, Receive, TrackActivity, Inactive, TokenOrNull, ServiceNext
<1> QED BY <1>1, <1>2, PTL DEF Spec, ServiceSpec
=============================================================================
