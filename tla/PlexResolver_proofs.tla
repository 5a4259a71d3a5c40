------------------------- MODULE PlexResolver_proofs -------------------------
(***************************************************************************)
(* Proofs about PlexResolver, for any number of saves: the types for any   *)
(* number of concurrent calls, what a call returns and what it leaves in   *)
(* the cache for calls that do not overlap.                                *)
(***************************************************************************)
EXTENDS PlexResolver, TLAPS

Clients == Keys \cup {Env, Null}
Points == {"idle", "check", "other", "serve", "take", "done"}

Assignments == [field : {"client"}, value : Clients]
          \cup [field : {"dbKey"}, value : Keys \cup {NoKey}]
          \cup [field : {"dbNone"}, value : BOOLEAN]

Call == [pc : Points, read : Row \cup {Null}, todo : Seq(Assignments),
         got : Clients \cup {Disabled}]

Typed ==
    /\ hasEnv \in BOOLEAN
    /\ row \in Row \cup {Null} /\ saves \in 0 .. MaxSaves
    /\ cached \in Cached
    /\ req \in [Requests -> Call]
    /\ \A r \in Requests : At(r, "check") => req[r].read \in Row

Usable(x) == x # Null /\ x.enabled /\ x.usable

(* The cached fields between two calls: a row's client under the row's key,  *)
(* the environment's (before the first call, its flag is not set), or none.  *)
Settled ==
    \/ cached.client \in Keys /\ cached.dbKey = cached.client /\ ~cached.dbNone
    \/ cached.client = Env /\ cached.dbKey = NoKey /\ hasEnv
    \/ cached.client = Null /\ cached.dbKey = NoKey

(* The same within a call that is taking over the client of the row under    *)
(* key, dropping the cached client or taking over that of the environment:   *)
(* what it has assigned stands.                                              *)
Adopting(todo, key) ==
    \/ todo = UseRow(key)
    \/ /\ todo = <<Set("dbKey", key), Set("dbNone", FALSE)>>
       /\ cached.client = key
    \/ /\ todo = <<Set("dbNone", FALSE)>>
       /\ cached.client = key /\ cached.dbKey = key
    \/ /\ todo = <<>>
       /\ cached.client = key /\ cached.dbKey = key /\ ~cached.dbNone

Dropping(todo) ==
    \/ todo = DropClient
    \/ todo = <<Set("dbKey", NoKey)>> /\ cached.client = Null
    \/ todo = <<>> /\ cached.client = Null /\ cached.dbKey = NoKey

FallingBack(todo) ==
    \/ todo = UseEnv
    \/ todo = <<Set("dbKey", NoKey), Set("dbNone", TRUE)>> /\ cached.client = Env
    \/ todo = <<Set("dbNone", TRUE)>> /\ cached.client = Env /\ cached.dbKey = NoKey

(* What the only call knows at each of its points. *)
CallSound(r) ==
    /\ At(r, "idle") => req[r].read = Null
    /\ At(r, "idle") \/ At(r, "check") \/ At(r, "other") \/ At(r, "done") =>
          Settled /\ req[r].todo = <<>>
    /\ At(r, "other") => req[r].read = Null \/ ~req[r].read.enabled
    /\ At(r, "check") \/ At(r, "serve") => req[r].read # Null /\ req[r].read.enabled
    /\ At(r, "serve") => IF req[r].read.usable THEN Adopting(req[r].todo, req[r].read.key)
                         ELSE Dropping(req[r].todo)
    /\ At(r, "take") => \/ /\ req[r].todo = <<>>
                           /\ Settled /\ cached.client = Wanted(req[r].read)
                        \/ hasEnv /\ ~Usable(req[r].read) /\ FallingBack(req[r].todo)
    /\ At(r, "done") => req[r].got = Wanted(req[r].read)

(* A key belongs to one row, and is only kept for a row that is usable. *)
KeysSound(r) ==
    /\ cached.dbKey <= saves
    /\ row # Null => /\ row.key <= saves
                     /\ cached.dbKey = row.key => row.enabled /\ row.usable
    /\ req[r].read # Null =>
          /\ req[r].read.key <= saves
          /\ cached.dbKey = req[r].read.key => req[r].read.enabled /\ req[r].read.usable
          /\ row # Null /\ row.key = req[r].read.key => row = req[r].read

IInv(r) == Typed /\ CallSound(r) /\ KeysSound(r)

-----------------------------------------------------------------------------
(* Types, whatever the number of calls under way *)

LEMMA AssignmentsTyped ==
    /\ \A k \in Keys : UseRow(k) \in Seq(Assignments)
    /\ DropClient \in Seq(Assignments) /\ UseEnv \in Seq(Assignments)
    /\ <<>> \in Seq(Assignments)
<1>1. \A v \in Clients : Set("client", v) \in Assignments
  BY DEF Set, Assignments
<1>2. \A v \in Keys \cup {NoKey} : Set("dbKey", v) \in Assignments
  BY DEF Set, Assignments
<1>3. \A v \in BOOLEAN : Set("dbNone", v) \in Assignments
  BY DEF Set, Assignments
<1>4. \A a, b, c \in Assignments :
          <<a, b, c>> \in Seq(Assignments) /\ <<a, b>> \in Seq(Assignments)
  OBVIOUS
<1>5. Set("client", Null) \in Assignments /\ Set("client", Env) \in Assignments
  BY <1>1 DEF Clients
<1>6. Set("dbKey", NoKey) \in Assignments
  BY <1>2
<1>7. Set("dbNone", TRUE) \in Assignments /\ Set("dbNone", FALSE) \in Assignments
  BY <1>3
<1>8. ASSUME NEW k \in Keys PROVE UseRow(k) \in Seq(Assignments)
  <2>1. Set("client", k) \in Assignments /\ Set("dbKey", k) \in Assignments
    BY <1>1, <1>2 DEF Clients
  <2> QED BY <1>4, <1>7, <2>1 DEF UseRow
<1>9. DropClient \in Seq(Assignments)
  BY <1>4, <1>5, <1>6 DEF DropClient
<1>10. UseEnv \in Seq(Assignments)
  BY <1>4, <1>5, <1>6, <1>7 DEF UseEnv
<1> QED BY <1>8, <1>9, <1>10

LEMMA IdleTyped == Idle \in Call
  BY DEF Idle, Call, Points, Clients

LEMMA CallChanged ==
    ASSUME NEW q \in Call
    PROVE  /\ \A x \in Row \cup {Null}, p \in Points : [q EXCEPT !.read = x, !.pc = p] \in Call
           /\ \A p \in Points : [q EXCEPT !.pc = p] \in Call
           /\ \A p \in Points, t \in Seq(Assignments) : [q EXCEPT !.pc = p, !.todo = t] \in Call
           /\ \A p \in Points, g \in Clients \cup {Disabled} : [q EXCEPT !.pc = p, !.got = g] \in Call
           /\ \A t \in Seq(Assignments) : [q EXCEPT !.todo = t] \in Call
<1>1. ASSUME NEW x \in Row \cup {Null}, NEW p \in Points PROVE [q EXCEPT !.read = x, !.pc = p] \in Call
  BY DEF Call
<1>2. ASSUME NEW p \in Points PROVE [q EXCEPT !.pc = p] \in Call
  BY DEF Call
<1>3. ASSUME NEW p \in Points, NEW t \in Seq(Assignments) PROVE [q EXCEPT !.pc = p, !.todo = t] \in Call
  BY DEF Call
<1>4. ASSUME NEW p \in Points, NEW g \in Clients \cup {Disabled} PROVE [q EXCEPT !.pc = p, !.got = g] \in Call
  BY DEF Call
<1>5. ASSUME NEW t \in Seq(Assignments) PROVE [q EXCEPT !.todo = t] \in Call
  BY DEF Call
<1> QED BY <1>1, <1>2, <1>3, <1>4, <1>5

(* A step of a call leaves another call of the same type in its place. *)
LEMMA ReqChanged ==
    ASSUME Typed, NEW r \in Requests, NEW q \in Call, req' = [req EXCEPT ![r] = q],
           q.pc = "check" => q.read \in Row
    PROVE  /\ req' \in [Requests -> Call] /\ req'[r] = q
           /\ \A s \in Requests : At(s, "check")' => req'[s].read \in Row
  BY DEF Typed, At

LEMMA CachedChanged ==
    ASSUME NEW c \in Cached, NEW a \in Assignments
    PROVE  [c EXCEPT ![a.field] = a.value] \in Cached
<1>1. CASE a.field = "client" /\ a.value \in Clients
  BY <1>1 DEF Cached, Clients
<1>2. CASE a.field = "dbKey" /\ a.value \in Keys \cup {NoKey}
  BY <1>2 DEF Cached
<1>3. CASE a.field = "dbNone" /\ a.value \in BOOLEAN
  BY <1>3 DEF Cached
<1> QED BY <1>1, <1>2, <1>3 DEF Assignments

LEMMA InitTyped == Init => Typed
<1> SUFFICES ASSUME Init PROVE Typed
  OBVIOUS
<1>1. cached \in Cached
  BY DEF Init, Cached
<1>2. req \in [Requests -> Call]
  BY IdleTyped DEF Init
<1>3. hasEnv \in BOOLEAN /\ row \in Row \cup {Null} /\ saves \in 0 .. MaxSaves
  BY ResolverAssumption DEF Init
<1>4. ASSUME NEW r \in Requests PROVE ~At(r, "check")
  BY DEF Init, Idle, At
<1> QED BY <1>1, <1>2, <1>3, <1>4 DEF Typed

LEMMA ReadTyped == ASSUME Typed, NEW r \in Requests, Read(r) PROVE Typed'
<1>1. PICK found \in {row, Null} :
          req' = [req EXCEPT ![r] = [Idle EXCEPT
                     !.read = found,
                     !.pc = IF found # Null /\ found.enabled THEN "check" ELSE "other"]]
  BY DEF Read
<1> DEFINE q == [Idle EXCEPT !.read = found,
                             !.pc = IF found # Null /\ found.enabled THEN "check" ELSE "other"]
<1>2. found \in Row \cup {Null}
  BY DEF Typed
<1>3. q \in Call
  BY <1>2, IdleTyped, CallChanged, AssignmentsTyped DEF Points
<1>4. q.pc = "check" => q.read \in Row
  BY <1>2 DEF Idle
<1> HIDE DEF q
<1>5. req' = [req EXCEPT ![r] = q]
  BY <1>1 DEF q
<1> QED BY <1>3, <1>4, <1>5, ReqChanged DEF Read, Typed

LEMMA CheckTyped == ASSUME Typed, NEW r \in Requests, Check(r) PROVE Typed'
<1>1. PICK t : /\ t = <<>> \/ t = Rebuild(req[r].read)
               /\ req' = [req EXCEPT ![r] = [req[r] EXCEPT !.pc = "serve", !.todo = t]]
  BY DEF Check
<1>2. req[r].read.key \in Keys
  BY DEF Check, Typed, Row
<1>3. Rebuild(req[r].read) \in Seq(Assignments)
  BY <1>2, AssignmentsTyped DEF Rebuild
<1> DEFINE q == [req[r] EXCEPT !.pc = "serve", !.todo = t]
<1>4. req[r] \in Call /\ t \in Seq(Assignments)
  BY <1>1, <1>3, AssignmentsTyped DEF Typed
<1>5. q \in Call
  BY <1>4, CallChanged DEF Points
<1>6. q.pc # "check"
  BY <1>4 DEF Call
<1> HIDE DEF q
<1>7. req' = [req EXCEPT ![r] = q]
  BY <1>1 DEF q
<1> QED BY <1>5, <1>6, <1>7, ReqChanged DEF Check, Typed

LEMMA AssignTyped == ASSUME Typed, NEW r \in Requests, Assign(r) PROVE Typed'
<1> DEFINE todo == req[r].todo
           q == [req[r] EXCEPT !.todo = Tail(todo)]
<1>1. req[r] \in Call /\ todo \in Seq(Assignments) /\ todo # <<>>
  BY DEF Typed, Call, Assign
<1>2. Head(todo) \in Assignments /\ Tail(todo) \in Seq(Assignments)
  BY <1>1
<1>3. cached' \in Cached
  BY <1>2, CachedChanged DEF Assign, Typed
<1>4. q \in Call
  BY <1>1, <1>2, CallChanged
<1>5. q.pc = "check" => q.read \in Row
  BY <1>1 DEF Typed, At, Call
<1> HIDE DEF q, todo
<1>6. req' = [req EXCEPT ![r] = q]
  BY DEF q, todo, Assign
<1> QED BY <1>3, <1>4, <1>5, <1>6, ReqChanged DEF Assign, Typed

(* What is left of a call that chooses, takes a client or returns. *)
LEMMA CallMoves ==
    ASSUME Typed, NEW r \in Requests, NEW q \in Call, q.pc # "check",
           req' = [req EXCEPT ![r] = q], UNCHANGED <<hasEnv, row, saves, cached>>
    PROVE  Typed'
  BY ReqChanged DEF Typed

LEMMA ChooseTyped == ASSUME Typed, NEW r \in Requests, Choose(r) PROVE Typed'
<1>1. req[r] \in Call
  BY DEF Typed
<1>2. PICK q : /\ req' = [req EXCEPT ![r] = q]
               /\ \/ q = [req[r] EXCEPT !.pc = "take"]
                  \/ q = [req[r] EXCEPT !.pc = "take", !.todo = UseEnv]
                  \/ q = [req[r] EXCEPT !.pc = "done", !.got = Disabled]
  BY DEF Choose, Goto
<1>3. q \in Call
  <2>1. UseEnv \in Seq(Assignments) /\ Disabled \in Clients \cup {Disabled}
        /\ "take" \in Points /\ "done" \in Points
    BY AssignmentsTyped DEF Points
  <2>2. [req[r] EXCEPT !.pc = "take"] \in Call
    BY <1>1, <2>1, CallChanged
  <2>3. [req[r] EXCEPT !.pc = "take", !.todo = UseEnv] \in Call
    BY <1>1, <2>1, CallChanged
  <2>4. [req[r] EXCEPT !.pc = "done", !.got = Disabled] \in Call
    BY <1>1, <2>1, CallChanged
  <2> QED BY <1>2, <2>2, <2>3, <2>4
<1>4. q.pc # "check"
  BY <1>1, <1>2 DEF Call
<1> QED BY <1>2, <1>3, <1>4, CallMoves DEF Choose

LEMMA TakeTyped == ASSUME Typed, NEW r \in Requests, Take(r) PROVE Typed'
<1> DEFINE q == [req[r] EXCEPT !.pc = "done", !.got = cached.client]
<1>1. req[r] \in Call /\ cached.client \in Clients \cup {Disabled}
  BY DEF Typed, Cached, Clients
<1>2. q \in Call
  BY <1>1, CallChanged DEF Points
<1>3. q.pc # "check"
  BY <1>1 DEF Call
<1> HIDE DEF q
<1>4. req' = [req EXCEPT ![r] = q]
  BY DEF q, Take
<1> QED BY <1>2, <1>3, <1>4, CallMoves DEF Take

LEMMA ReturnTyped == ASSUME Typed, NEW r \in Requests, Return(r) PROVE Typed'
<1>1. Idle.pc # "check"
  BY DEF Idle
<1> QED BY <1>1, IdleTyped, CallMoves DEF Return

LEMMA RowTyped == ASSUME Typed, SaveRow \/ DeleteRow PROVE Typed'
<1>1. CASE SaveRow
  <2>1. saves + 1 \in Keys /\ saves' \in 0 .. MaxSaves
    BY <1>1, ResolverAssumption DEF SaveRow, Typed, Keys
  <2>2. row' \in Row
    BY <1>1, <2>1 DEF SaveRow, Row
  <2> QED BY <1>1, <2>1, <2>2 DEF SaveRow, Typed, At
<1>2. CASE DeleteRow
  BY <1>2 DEF DeleteRow, Typed, At
<1> QED BY <1>1, <1>2

LEMMA ResolveTyped == ASSUME Typed, NEW r \in Requests, Resolve(r) PROVE Typed'
  BY ReadTyped, CheckTyped, AssignTyped, ChooseTyped, TakeTyped, ReturnTyped DEF Resolve

LEMMA TypedHolds == Spec => []Typed
<1>1. Typed /\ [Next]_vars => Typed'
  <2> SUFFICES ASSUME Typed, [Next]_vars PROVE Typed'
    OBVIOUS
  <2>1. CASE UNCHANGED vars
    BY <2>1 DEF vars, Typed, At
  <2> QED BY <2>1, RowTyped, ResolveTyped DEF Next
<1> QED BY <1>1, InitTyped, PTL DEF Spec

(* However many calls are under way, the cached client is a row's, the       *)
(* environment's or none, and so is what a call returns.                     *)
THEOREM ResolverTyped == Spec => []TypeOK
<1>1. Typed => TypeOK
  BY DEF Typed, TypeOK, Call, Clients
<1> QED BY <1>1, TypedHolds, PTL

-----------------------------------------------------------------------------
(* One call at a time *)

LEMMA InitSound == ASSUME NEW r \in Requests, Init PROVE IInv(r)
<1>1. req[r] = Idle /\ Idle.read = Null /\ Idle.pc = "idle" /\ Idle.todo = <<>>
  BY DEF Init, Idle
<1>2. Settled
  BY DEF Init, Settled
<1>3. CallSound(r)
  BY <1>1, <1>2 DEF CallSound, At
<1>4. KeysSound(r)
  BY <1>1 DEF Init, KeysSound, NoKey
<1> QED BY <1>3, <1>4, InitTyped DEF IInv

(* The handlers that save and delete rows leave the call and the cache alone *)
(* and give every row a key of its own.                                      *)
LEMMA RowSound ==
    ASSUME NEW r \in Requests, IInv(r), SaveRow \/ DeleteRow
    PROVE  CallSound(r)' /\ KeysSound(r)'
<1>1. UNCHANGED <<hasEnv, cached, req>>
  BY DEF SaveRow, DeleteRow
<1>2. CallSound(r)'
  BY <1>1 DEF IInv, CallSound, At, Settled, Adopting, Dropping, FallingBack, Wanted, Usable
<1>3. saves \in Nat /\ cached.dbKey \in Nat /\ (req[r].read # Null => req[r].read.key \in Nat)
  BY ResolverAssumption DEF IInv, Typed, Cached, Call, Row, Keys, NoKey
<1>4. CASE SaveRow
  <2>1. saves' = saves + 1 /\ row'.key = saves + 1
    BY <1>4 DEF SaveRow
  <2> QED BY <1>1, <1>2, <1>3, <2>1 DEF IInv, KeysSound
<1>5. CASE DeleteRow
  BY <1>1, <1>2, <1>5 DEF DeleteRow, IInv, KeysSound
<1> QED BY <1>4, <1>5

(* A step of the call that assigns nothing keeps what is known of the keys,  *)
(* when the row it has read is one that was known, or none.                  *)
LEMMA KeysKept ==
    ASSUME NEW r \in Requests, KeysSound(r), UNCHANGED <<row, saves, cached>>,
           req'[r].read \in {req[r].read, row, Null}
    PROVE  KeysSound(r)'
  BY DEF KeysSound

LEMMA ReadSound ==
    ASSUME NEW r \in Requests, IInv(r), Read(r)
    PROVE  CallSound(r)' /\ KeysSound(r)'
<1>1. PICK found \in {row, Null} :
          req' = [req EXCEPT ![r] = [Idle EXCEPT
                     !.read = found,
                     !.pc = IF found # Null /\ found.enabled THEN "check" ELSE "other"]]
  BY DEF Read
<1>2. /\ req'[r].read = found /\ req'[r].todo = <<>>
      /\ req'[r].pc = IF found # Null /\ found.enabled THEN "check" ELSE "other"
  BY <1>1 DEF IInv, Typed, Idle
<1>3. Settled'
  BY DEF IInv, CallSound, Read, Settled
<1>4. CallSound(r)'
  BY <1>2, <1>3 DEF CallSound, At
<1>5. KeysSound(r)'
  BY <1>2, KeysKept DEF IInv, Read
<1> QED BY <1>4, <1>5

(* A fresh client is the row's: a key is only kept for a usable row. *)
LEMMA CheckSound ==
    ASSUME NEW r \in Requests, IInv(r), Check(r)
    PROVE  CallSound(r)' /\ KeysSound(r)'
<1> DEFINE read == req[r].read
           fresh == cached.client # Null /\ cached.dbKey = read.key
           todo == IF fresh THEN <<>> ELSE Rebuild(read)
<1>1. req[r] \in Call /\ req' = [req EXCEPT ![r] = [req[r] EXCEPT !.pc = "serve", !.todo = todo]]
  BY DEF IInv, Typed, Check
<1> HIDE DEF todo
<1>2. req'[r].read = read /\ req'[r].todo = todo /\ req'[r].pc = "serve"
  BY <1>1 DEF IInv, Typed, Call
<1>3. read # Null /\ read.enabled /\ Settled /\ read \in Row
  BY DEF IInv, CallSound, Check, Typed
<1>4. IF read.usable THEN Adopting(todo, read.key) ELSE Dropping(todo)
  <2>1. CASE fresh
    <3>1. cached.client = read.key /\ ~cached.dbNone
      BY <1>3, <2>1 DEF Settled, Row, Keys, NoKey
    <3>2. read.usable
      BY <1>3, <2>1 DEF IInv, KeysSound
    <3> QED BY <2>1, <3>1, <3>2 DEF Adopting, todo
  <2>2. CASE ~fresh
    BY <2>2 DEF Adopting, Dropping, Rebuild, todo
  <2> QED BY <2>1, <2>2
<1>5. CallSound(r)'
  BY <1>2, <1>3, <1>4 DEF CallSound, At, Adopting, Dropping, Check
<1>6. KeysSound(r)'
  BY <1>2, KeysKept DEF IInv, Check
<1> QED BY <1>5, <1>6

LEMMA ChooseSound ==
    ASSUME NEW r \in Requests, IInv(r), Choose(r)
    PROVE  CallSound(r)' /\ KeysSound(r)'
<1> DEFINE read == req[r].read
<1>1. req[r] \in Call /\ req[r].todo = <<>> /\ UNCHANGED <<hasEnv, row, saves, cached>>
  BY DEF IInv, Typed, Choose
<1>2. Settled /\ (At(r, "serve") => IF read.usable THEN cached.client = read.key /\ ~cached.dbNone /\ read \in Row
                                    ELSE cached.client = Null)
  <2>1. CASE At(r, "serve")
    <3>1. read \in Row
      BY <2>1 DEF IInv, CallSound, Typed, Call
    <3> QED BY <1>1, <2>1, <3>1 DEF IInv, CallSound, Adopting, Dropping, UseRow, DropClient, Settled, Row
  <2>2. CASE At(r, "other")
    BY <2>2 DEF IInv, CallSound, At
  <2> QED BY <1>1, <2>1, <2>2 DEF Choose
<1>3. At(r, "other") => ~Usable(read)
  BY DEF IInv, CallSound, Usable
<1>4. At(r, "serve") => (Usable(read) <=> read.usable)
  BY DEF IInv, CallSound, Usable
<1>5. read # Null => read.key \in Nat
  BY <1>1 DEF Call, Row, Keys
<1>6. CASE /\ Goto(r, "take") /\ cached.client # Null
           /\ (At(r, "serve") /\ ~cached.dbNone) \/ (At(r, "other") /\ cached.dbNone)
  <2>1. req'[r].pc = "take" /\ req'[r].read = read /\ req'[r].todo = <<>>
    BY <1>1, <1>6 DEF Goto, IInv, Typed, Call
  <2>2. cached.client = Wanted(read)
    <3>1. CASE At(r, "serve")
      BY <1>2, <1>4, <1>6, <3>1 DEF Wanted, Usable
    <3>2. CASE At(r, "other") /\ cached.dbNone
      BY <1>2, <1>3, <1>6, <3>2 DEF Wanted, Usable, Settled
    <3> QED BY <1>6, <3>1, <3>2 DEF At
  <2>3. CallSound(r)'
    BY <1>1, <1>2, <2>1, <2>2 DEF CallSound, At, Settled, Wanted
  <2> QED BY <1>1, <2>1, <2>3, KeysKept DEF IInv
<1>7. CASE /\ (At(r, "serve") /\ (cached.client = Null \/ cached.dbNone)) \/ At(r, "other")
           /\ req' = [req EXCEPT ![r] = [req[r] EXCEPT !.pc = "take", !.todo = UseEnv]] /\ hasEnv
  <2>1. req'[r].pc = "take" /\ req'[r].read = read /\ req'[r].todo = UseEnv
    BY <1>1, <1>7 DEF IInv, Typed, Call
  <2>2. ~Usable(read)
    BY <1>2, <1>3, <1>4, <1>5, <1>7, ResolverAssumption DEF Usable
  <2>3. CallSound(r)'
    BY <1>1, <1>7, <2>1, <2>2 DEF CallSound, At, FallingBack, Usable
  <2> QED BY <1>1, <2>1, <2>3, KeysKept DEF IInv
<1>8. CASE /\ (At(r, "serve") /\ (cached.client = Null \/ cached.dbNone)) \/ At(r, "other")
           /\ req' = [req EXCEPT ![r] = [req[r] EXCEPT !.pc = "done", !.got = Disabled]] /\ ~hasEnv
  <2>1. /\ req'[r].pc = "done" /\ req'[r].read = read /\ req'[r].todo = <<>>
        /\ req'[r].got = Disabled
    BY <1>1, <1>8 DEF IInv, Typed, Call
  <2>2. ~Usable(read)
    BY <1>2, <1>3, <1>4, <1>5, <1>8, ResolverAssumption DEF Usable
  <2>3. Wanted(read) = Disabled
    BY <1>8, <2>2 DEF Wanted, Usable
  <2>4. CallSound(r)'
    BY <1>1, <1>2, <2>1, <2>3 DEF CallSound, At, Settled, Wanted
  <2> QED BY <1>1, <2>1, <2>4, KeysKept DEF IInv
<1> QED BY <1>6, <1>7, <1>8 DEF Choose

LEMMA TakeSound ==
    ASSUME NEW r \in Requests, IInv(r), Take(r)
    PROVE  CallSound(r)' /\ KeysSound(r)'
<1>1. req[r] \in Call /\ UNCHANGED <<hasEnv, row, saves, cached>>
  BY DEF IInv, Typed, Take
<1>2. /\ req'[r].pc = "done" /\ req'[r].read = req[r].read /\ req'[r].todo = <<>>
      /\ req'[r].got = cached.client
  BY <1>1 DEF Take, IInv, Typed, Call
<1>3. Settled /\ cached.client = Wanted(req[r].read)
  BY DEF Take, IInv, CallSound, FallingBack, UseEnv
<1>4. CallSound(r)'
  BY <1>1, <1>2, <1>3 DEF CallSound, At, Settled, Wanted
<1> QED BY <1>1, <1>2, <1>4, KeysKept DEF IInv

LEMMA ReturnSound ==
    ASSUME NEW r \in Requests, IInv(r), Return(r)
    PROVE  CallSound(r)' /\ KeysSound(r)'
<1>1. req'[r].pc = "idle" /\ req'[r].read = Null /\ req'[r].todo = <<>>
  BY DEF Return, IInv, Typed, Idle
<1>2. Settled'
  BY DEF IInv, CallSound, Return, Settled
<1>3. CallSound(r)'
  BY <1>1, <1>2 DEF CallSound, At
<1> QED BY <1>1, <1>3, KeysKept DEF IInv, Return

LEMMA HeadTail ==
    /\ \A a, b, c : Head(<<a, b, c>>) = a /\ Tail(<<a, b, c>>) = <<b, c>>
    /\ \A a, b : Head(<<a, b>>) = a /\ Tail(<<a, b>>) = <<b>>
    /\ \A a : Head(<<a>>) = a /\ Tail(<<a>>) = <<>>
  OBVIOUS

(* One assignment to a cached field. *)
Assigns(a) == cached' = [cached EXCEPT ![a.field] = a.value]

LEMMA Assigned ==
    ASSUME cached \in Cached, NEW v
    PROVE  /\ Assigns(Set("client", v)) =>
                cached'.client = v /\ cached'.dbKey = cached.dbKey
           /\ Assigns(Set("dbKey", v)) =>
                cached'.dbKey = v /\ cached'.client = cached.client
           /\ Assigns(Set("dbNone", v)) =>
                /\ cached'.dbNone = v /\ cached'.client = cached.client
                /\ cached'.dbKey = cached.dbKey
  BY DEF Cached, Set, Assigns

LEMMA AdoptingGoesOn ==
    ASSUME cached \in Cached, NEW k, NEW t, Adopting(t, k), t # <<>>, Assigns(Head(t)),
           NEW u, u = Tail(t)
    PROVE  Adopting(u, k)' /\ cached'.dbKey \in {cached.dbKey, k}
<1>1. CASE t = UseRow(k)
  <2>1. Head(t) = Set("client", k) /\ u = <<Set("dbKey", k), Set("dbNone", FALSE)>>
    BY <1>1, HeadTail DEF UseRow
  <2> QED BY <2>1, Assigned DEF Adopting
<1>2. CASE t = <<Set("dbKey", k), Set("dbNone", FALSE)>> /\ cached.client = k
  <2>1. Head(t) = Set("dbKey", k) /\ u = <<Set("dbNone", FALSE)>>
    BY <1>2, HeadTail
  <2> QED BY <1>2, <2>1, Assigned DEF Adopting
<1>3. CASE t = <<Set("dbNone", FALSE)>> /\ cached.client = k /\ cached.dbKey = k
  <2>1. Head(t) = Set("dbNone", FALSE) /\ u = <<>>
    BY <1>3, HeadTail
  <2> QED BY <1>3, <2>1, Assigned DEF Adopting
<1> QED BY <1>1, <1>2, <1>3 DEF Adopting

LEMMA DroppingGoesOn ==
    ASSUME cached \in Cached, NEW t, Dropping(t), t # <<>>, Assigns(Head(t)),
           NEW u, u = Tail(t)
    PROVE  Dropping(u)' /\ cached'.dbKey \in {cached.dbKey, NoKey}
<1>1. CASE t = DropClient
  <2>1. Head(t) = Set("client", Null) /\ u = <<Set("dbKey", NoKey)>>
    BY <1>1, HeadTail DEF DropClient
  <2> QED BY <2>1, Assigned DEF Dropping
<1>2. CASE t = <<Set("dbKey", NoKey)>> /\ cached.client = Null
  <2>1. Head(t) = Set("dbKey", NoKey) /\ u = <<>>
    BY <1>2, HeadTail
  <2> QED BY <1>2, <2>1, Assigned DEF Dropping
<1> QED BY <1>1, <1>2 DEF Dropping

LEMMA FallingBackGoesOn ==
    ASSUME cached \in Cached, NEW t, FallingBack(t), Assigns(Head(t)), NEW u, u = Tail(t)
    PROVE  /\ cached'.dbKey \in {cached.dbKey, NoKey}
           /\ FallingBack(u)' \/ (u = <<>> /\ cached'.client = Env /\ cached'.dbKey = NoKey)
<1>1. CASE t = UseEnv
  <2>1. Head(t) = Set("client", Env) /\ u = <<Set("dbKey", NoKey), Set("dbNone", TRUE)>>
    BY <1>1, HeadTail DEF UseEnv
  <2> QED BY <2>1, Assigned DEF FallingBack
<1>2. CASE t = <<Set("dbKey", NoKey), Set("dbNone", TRUE)>> /\ cached.client = Env
  <2>1. Head(t) = Set("dbKey", NoKey) /\ u = <<Set("dbNone", TRUE)>>
    BY <1>2, HeadTail
  <2> QED BY <1>2, <2>1, Assigned DEF FallingBack
<1>3. CASE t = <<Set("dbNone", TRUE)>> /\ cached.client = Env /\ cached.dbKey = NoKey
  <2>1. Head(t) = Set("dbNone", TRUE) /\ u = <<>>
    BY <1>3, HeadTail
  <2> QED BY <1>3, <2>1, Assigned
<1> QED BY <1>1, <1>2, <1>3 DEF FallingBack

LEMMA AssignSound ==
    ASSUME NEW r \in Requests, IInv(r), Assign(r)
    PROVE  CallSound(r)' /\ KeysSound(r)'
<1> DEFINE read == req[r].read
           todo == req[r].todo
<1>1. req[r] \in Call /\ cached \in Cached /\ todo # <<>> /\ UNCHANGED <<hasEnv, row, saves>>
  BY DEF IInv, Typed, Assign
<1>2. req'[r].pc = req[r].pc /\ req'[r].read = read /\ req'[r].todo = Tail(todo)
  BY <1>1 DEF Assign, IInv, Typed, Call
<1>3. Assigns(Head(todo))
  BY DEF Assign, Assigns
<1>4. At(r, "serve") \/ At(r, "take")
  BY <1>1 DEF IInv, CallSound, At, Call, Points
<1>5. read # Null => read.key \in Nat /\ read.key # NoKey
  BY <1>1 DEF Call, Row, Keys, NoKey
<1>6. ASSUME cached'.dbKey \in {cached.dbKey, NoKey} PROVE KeysSound(r)'
  <2>1. saves \in Nat /\ (row # Null => row.key # NoKey)
    BY ResolverAssumption DEF IInv, Typed, Row, Keys, NoKey
  <2> QED BY <1>1, <1>2, <1>5, <1>6, <2>1 DEF IInv, KeysSound, NoKey
<1>7. PICK t, u, k : t = todo /\ u = Tail(t) /\ k = read.key
  OBVIOUS
<1>8. CASE At(r, "serve") /\ read.usable
  <2>1. Adopting(t, k)
    BY <1>7, <1>8 DEF IInv, CallSound
  <2>2. Adopting(u, k)' /\ cached'.dbKey \in {cached.dbKey, k}
    BY <1>1, <1>3, <1>7, <2>1, AdoptingGoesOn
  <2>3. KeysSound(r)'
    BY <1>1, <1>2, <1>7, <1>8, <2>2 DEF IInv, KeysSound, CallSound
  <2>4. CallSound(r)'
    BY <1>2, <1>7, <1>8, <2>2 DEF IInv, CallSound, At, Adopting
  <2> QED BY <2>3, <2>4
<1>9. CASE At(r, "serve") /\ ~read.usable
  <2>1. Dropping(t)
    BY <1>7, <1>9 DEF IInv, CallSound
  <2>2. Dropping(u)' /\ cached'.dbKey \in {cached.dbKey, NoKey}
    BY <1>1, <1>3, <1>7, <2>1, DroppingGoesOn
  <2>3. CallSound(r)'
    BY <1>2, <1>7, <1>9, <2>2 DEF IInv, CallSound, At, Dropping
  <2> QED BY <1>6, <2>2, <2>3
<1>10. CASE At(r, "take")
  <2>1. FallingBack(t) /\ hasEnv /\ ~Usable(read)
    BY <1>1, <1>7, <1>10 DEF IInv, CallSound
  <2>2. /\ cached'.dbKey \in {cached.dbKey, NoKey}
        /\ FallingBack(u)' \/ (u = <<>> /\ cached'.client = Env /\ cached'.dbKey = NoKey)
    BY <1>1, <1>3, <1>7, <2>1, FallingBackGoesOn
  <2>3. ASSUME FallingBack(u)' PROVE CallSound(r)'
    BY <1>1, <1>2, <1>7, <1>10, <2>1, <2>3 DEF CallSound, At, Usable, FallingBack
  <2>4. ASSUME u = <<>>, cached'.client = Env, cached'.dbKey = NoKey PROVE CallSound(r)'
    BY <1>1, <1>2, <1>7, <1>10, <2>1, <2>4 DEF CallSound, At, Settled, Wanted, Usable
  <2> QED BY <1>6, <2>2, <2>3, <2>4
<1> QED BY <1>4, <1>8, <1>9, <1>10

LEMMA OneCallKeeps == ASSUME NEW r \in Requests, Requests = {r}, IInv(r), [Next]_vars PROVE IInv(r)'
<1>1. Typed'
  <2>1. CASE UNCHANGED vars
    BY <2>1 DEF vars, IInv, Typed, At
  <2> QED BY <2>1, RowTyped, ResolveTyped DEF Next, IInv
<1>2. CallSound(r)' /\ KeysSound(r)'
  <2>1. CASE UNCHANGED vars
    BY <2>1 DEF vars, IInv, CallSound, KeysSound, At, Settled, Adopting, Dropping, FallingBack,
                Wanted, Usable
  <2>2. CASE Resolve(r)
    BY <2>2, ReadSound, CheckSound, AssignSound, ChooseSound, TakeSound, ReturnSound DEF Resolve
  <2> QED BY <2>1, <2>2, RowSound DEF Next
<1> QED BY <1>1, <1>2 DEF IInv

LEMMA OneCallHolds == ASSUME NEW r, Requests = {r} PROVE Spec => []IInv(r)
<1>1. r \in Requests
  OBVIOUS
<1>2. Init => IInv(r)
  BY <1>1, InitSound
<1>3. IInv(r) /\ [Next]_vars => IInv(r)'
  BY <1>1, OneCallKeeps
<1> QED BY <1>2, <1>3, PTL DEF Spec

(* Calls that do not overlap return the client of the row they read, when it *)
(* is enabled and usable, or else of the environment, or PLEX_DISABLED:      *)
(* whatever rows were saved, disabled, broken or deleted before (resolve).   *)
THEOREM PriorityFollowed == ASSUME NEW r, Requests = {r} PROVE Spec => []FollowsPriority
<1>1. IInv(r) => FollowsPriority
  BY DEF IInv, CallSound, FollowsPriority
<1> QED BY <1>1, OneCallHolds, PTL

(* And the client such a call leaves under a row's key is that row's: resolve *)
(* only keeps another one when two calls interleave their assignments.       *)
THEOREM CachedStaysCurrent == ASSUME NEW r, Requests = {r} PROVE Spec => []CachedClientIsCurrent
<1>1. IInv(r) => CachedClientIsCurrent
  BY DEF IInv, CallSound, CachedClientIsCurrent, Settled, Typed, Row, Keys, NoKey
<1> QED BY <1>1, OneCallHolds, PTL

=============================================================================
