------------------------- MODULE PlexSignIn_proofs -------------------------
(***************************************************************************)
(* Proofs about PlexSignIn, for every set of pins, servers and requests.   *)
(***************************************************************************)
EXTENDS PlexSignIn, TLAPS

(* A sign-in in the map was started, and has the token of an account only  *)
(* when its user authorized the pin.                                       *)
SignInsSound ==
    \A p \in Pins : store[p] # Null =>
        p \in issued /\ (store[p].hasToken => p \in authorized)

(* What a request's local variables promise at each of its steps.          *)
Sound(q) ==
    /\ q.pc = "idle" => q.op = "none"
    /\ q.pc \in {"poll", "fetch", "list"} => q.op = "status" /\ q.pin \in issued
    /\ q.pc \in {"device", "find"} => q.op = "connect" /\ q.server \in Servers
    /\ q.pc = "fetch" => (store[q.pin] # Null => store[q.pin].hasToken)
    /\ q.pc \in {"list", "device", "find"} => q.token
    /\ q.pc \in {"create", "save"} => q.change \in Row
    /\ q.pc = "load" => q.change \in Change
    /\ q.pc = "merge" => q.server \in Servers
    /\ q.pc = "identify" => q.server \in Servers
    /\ q.token => q.pin \in authorized
    /\ q.op = "connect" /\ q.token => store[q.pin] = Null
    /\ q.change # Null => (q.change.config # Null => Whole(q.change.config))

RequestsSound == \A r \in Requests : Sound(req[r])

RowWhole == row # Null => Whole(row.config)

(* The inductive invariant: a pin is claimed once because a sign-in that   *)
(* was claimed is gone, and stays gone because a pin is issued once and a  *)
(* poll stores its token only in a sign-in that is there.                  *)
IInv == TypeOK /\ SignInsSound /\ RequestsSound /\ ClaimedOnce /\ RowWhole

(* What no step takes back: issued and authorized pins, a token in a       *)
(* sign-in, the absence of one whose pin was issued, a claim.              *)
Grows ==
    /\ issued \subseteq issued' /\ authorized \subseteq authorized'
    /\ \A p \in issued :
          store'[p] # Null => store[p] # Null /\ (store[p].hasToken => store'[p].hasToken)
    /\ \A r \in Requests :
          (req[r].op = "connect" /\ req[r].token) =>
              /\ req'[r].op = "connect" /\ req'[r].token
              /\ req'[r].pin = req[r].pin /\ req'[r].server = req[r].server

-----------------------------------------------------------------------------
(* A config that is whole stays so. *)
LEMMA WholeStays ==
    ASSUME IInv, Grows
    PROVE  \A c \in Config : Whole(c) => Whole(c)'
<1> SUFFICES ASSUME NEW c \in Config, Whole(c), c.account # Null
             PROVE  /\ store'[c.account] = Null
                    /\ \E r \in Requests : /\ req'[r].op = "connect" /\ req'[r].pin = c.account
                                           /\ req'[r].token /\ req'[r].server = c.server
  BY DEF Whole, Connecting
<1>1. PICK r \in Requests : Connecting(r, c.account) /\ req[r].server = c.server
  BY DEF Whole
<1>2. c.account \in issued
  BY <1>1 DEF IInv, RequestsSound, Sound, TypeOK, Connecting
<1>3. store'[c.account] = Null
  BY <1>2 DEF Grows, Whole
<1> QED BY <1>1, <1>3 DEF Grows, Connecting

(* The promises of a request survive the steps of the others. *)
LEMMA SoundStays ==
    ASSUME IInv, Grows
    PROVE  \A q \in Request : Sound(q) => Sound(q)'
<1> SUFFICES ASSUME NEW q \in Request, Sound(q)
             PROVE  Sound(q)'
  OBVIOUS
<1>1. q.change # Null => (q.change.config # Null => Whole(q.change.config)')
  <2> SUFFICES ASSUME q.change # Null, q.change.config # Null
               PROVE  Whole(q.change.config)'
    OBVIOUS
  <2>1. q.change.config \in Config
    BY PlexDistinct DEF Request, Change
  <2>2. Whole(q.change.config)
    BY DEF Sound
  <2> QED BY <2>1, <2>2, WholeStays
<1>2. issued \subseteq Pins /\ authorized \subseteq issued
  BY DEF IInv, TypeOK
<1>3. q.pc = "fetch" => (store'[q.pin] # Null => store'[q.pin].hasToken)
  BY DEF Sound, Grows
<1>4. q.op = "connect" /\ q.token => store'[q.pin] = Null
  BY <1>2 DEF Sound, Grows
<1>5. q.pc \in {"poll", "fetch", "list"} => q.op = "status" /\ q.pin \in issued'
  BY DEF Sound, Grows
<1>6. q.token => q.pin \in authorized'
  BY DEF Sound, Grows
<1> QED BY <1>1, <1>3, <1>4, <1>5, <1>6 DEF Sound

(* The invariant after a step that writes request r. *)
LEMMA Assemble ==
    ASSUME IInv, Grows, NEW r \in Requests, NEW q \in Request,
           req' = [req EXCEPT ![r] = q],
           issued' \subseteq Pins, authorized' \subseteq issued',
           store' \in [Pins -> Session \cup {Null}], row' \in Row \cup {Null},
           SignInsSound', Sound(q)', ClaimedOnce',
           row' # Null => Whole(row'.config)
    PROVE  IInv'
<1>1. req' \in [Requests -> Request]
  BY DEF IInv, TypeOK
<1>2. RequestsSound'
  <2> SUFFICES ASSUME NEW x \in Requests PROVE Sound(req[x])'
    BY DEF RequestsSound
  <2>1. PICK p \in Request : p = req'[x] /\ Sound(p)'
    <3>1. CASE x = r
      BY <3>1 DEF IInv, TypeOK
    <3>2. CASE x # r
      <4>1. req'[x] = req[x] /\ req[x] \in Request /\ Sound(req[x])
        BY <3>2 DEF IInv, TypeOK, RequestsSound
      <4>2. PICK p \in Request : p = req[x] /\ Sound(p)
        BY <4>1
      <4> QED BY <4>1, <4>2, SoundStays
    <3> QED BY <3>1, <3>2
  <2> QED BY <2>1 DEF Sound, Whole, Connecting
<1>3. RowWhole'
  <2> SUFFICES ASSUME row' # Null PROVE Whole(row.config)'
    BY DEF RowWhole
  <2>1. PICK c \in Config : c = row'.config
    BY DEF Row
  <2>2. Whole(c)
    BY <2>1
  <2>3. Whole(c)'
    BY <2>2, WholeStays
  <2> QED BY <2>1, <2>3 DEF Whole, Connecting
<1> QED BY <1>1, <1>2, <1>3 DEF IInv, TypeOK

(* A step about the map alone. *)
LEMMA AssembleMap ==
    ASSUME IInv, Grows, UNCHANGED <<row, req>>,
           issued' \subseteq Pins, authorized' \subseteq issued',
           store' \in [Pins -> Session \cup {Null}], SignInsSound'
    PROVE  IInv'
<1>1. RequestsSound'
  <2> SUFFICES ASSUME NEW x \in Requests PROVE Sound(req[x])'
    BY DEF RequestsSound
  <2>1. PICK p \in Request : p = req[x] /\ Sound(p)
    BY DEF IInv, TypeOK, RequestsSound
  <2>2. Sound(p)' /\ p = req'[x]
    BY <2>1, SoundStays
  <2> QED BY <2>2 DEF Sound, Whole, Connecting
<1>2. RowWhole'
  <2> SUFFICES ASSUME row' # Null PROVE Whole(row.config)'
    BY DEF RowWhole
  <2>1. PICK c \in Config : c = row.config /\ Whole(c)
    BY DEF IInv, TypeOK, RowWhole, Row
  <2>2. Whole(c)' /\ c = row'.config
    BY <2>1, WholeStays
  <2> QED BY <2>2 DEF Whole, Connecting
<1> QED BY <1>1, <1>2 DEF IInv, TypeOK, ClaimedOnce, Connecting

(* A step of a request that leaves the map alone and neither makes nor     *)
(* forgets a claim.                                                        *)
LEMMA LocalStep ==
    ASSUME IInv, NEW r \in Requests, NEW q \in Request,
           req' = [req EXCEPT ![r] = q], UNCHANGED <<issued, authorized, store>>,
           \/ /\ q.op = req[r].op /\ q.pin = req[r].pin
              /\ q.server = req[r].server /\ q.token = req[r].token
           \/ req[r].op = "none" /\ ~q.token,
           Sound(q), row' \in Row \cup {Null}, row' # Null => Whole(row'.config)
    PROVE  IInv'
<1>1. \A x \in Requests :
         (req[x].op = "connect" /\ req[x].token) <=> (req'[x].op = "connect" /\ req'[x].token)
  BY DEF IInv, TypeOK
<1>2. \A x \in Requests : (req[x].op = "connect" /\ req[x].token) =>
         req'[x].pin = req[x].pin /\ req'[x].server = req[x].server
  BY DEF IInv, TypeOK
<1>3. Grows
  BY <1>1, <1>2 DEF Grows
<1>4. Sound(q)'
  BY <1>3, SoundStays
<1>5. ClaimedOnce'
  BY <1>1, <1>2 DEF ClaimedOnce, Connecting, IInv
<1>6. SignInsSound' /\ issued' \subseteq Pins /\ authorized' \subseteq issued'
      /\ store' \in [Pins -> Session \cup {Null}]
  BY DEF IInv, TypeOK, SignInsSound
<1> QED BY <1>3, <1>4, <1>5, <1>6, Assemble

-----------------------------------------------------------------------------
(* The steps on the row. *)
LEMMA RowKept ==
    ASSUME IInv, row' = row
    PROVE  row' \in Row \cup {Null} /\ (row' # Null => Whole(row'.config))
  BY DEF IInv, TypeOK, RowWhole

(* Moving on, with the local variables as they are. *)
LEMMA GotoStep ==
    ASSUME IInv, NEW r \in Requests, NEW pc \in {"find", "merge", "done"}, Goto(r, pc),
           pc = "find" => req[r].pc = "device",
           pc = "merge" => req[r].pc = "identify",
           UNCHANGED <<issued, authorized, store>>,
           row' \in Row \cup {Null}, row' # Null => Whole(row'.config)
    PROVE  IInv'
<1> DEFINE q == [req[r] EXCEPT !.pc = pc]
<1>1. /\ q \in Request /\ q.pc = pc /\ q.op = req[r].op /\ q.pin = req[r].pin
      /\ q.server = req[r].server /\ q.token = req[r].token /\ q.change = req[r].change
  BY DEF IInv, TypeOK, Request
<1>2. req' = [req EXCEPT ![r] = q]
  BY DEF Goto
<1>3. Sound(req[r])
  BY DEF IInv, RequestsSound
<1> HIDE DEF q
<1>4. Sound(q)
  BY <1>1, <1>3 DEF Sound
<1> QED BY <1>1, <1>2, <1>4, LocalStep

LEMMA DeviceKeeps ==
    ASSUME IInv, NEW r \in Requests, Device(r)
    PROVE  IInv'
  BY RowKept, GotoStep DEF Device

LEMMA IdentifyKeeps ==
    ASSUME IInv, NEW r \in Requests, Identify(r)
    PROVE  IInv'
  BY RowKept, GotoStep DEF Identify

LEMMA EndKeeps ==
    ASSUME IInv, NEW r \in Requests, End(r)
    PROVE  IInv'
  BY RowKept, GotoStep DEF End

(* A request about to write the row has a whole one to write. *)
LEMMA CreateKeeps ==
    ASSUME IInv, NEW r \in Requests, Create(r)
    PROVE  IInv'
<1>1. req[r].change \in Row /\ (req[r].change # Null => Whole(req[r].change.config))
  BY NullIsNoRecord DEF Create, IInv, RequestsSound, Sound, Row
<1>2. row' \in Row \cup {Null} /\ (row' # Null => Whole(row'.config))
  BY <1>1 DEF Create, IInv, TypeOK, RowWhole
<1> QED BY <1>2, GotoStep DEF Create

LEMMA SaveKeeps ==
    ASSUME IInv, NEW r \in Requests, Save(r)
    PROVE  IInv'
<1>1. req[r].change \in Row /\ (req[r].change # Null => Whole(req[r].change.config))
  BY NullIsNoRecord DEF Save, IInv, RequestsSound, Sound, Row
<1>2. row' \in Row \cup {Null} /\ (row' # Null => Whole(row'.config))
  BY <1>1 DEF Save, IInv, TypeOK, RowWhole
<1> QED BY <1>2, GotoStep DEF Save

LEMMA DeleteKeeps ==
    ASSUME IInv, NEW r \in Requests, Delete(r)
    PROVE  IInv'
<1> DEFINE q == [NoRequest EXCEPT !.op = "delete", !.pc = "done"]
<1>1. /\ q \in Request /\ q.pc = "done" /\ q.op = "delete" /\ ~q.token /\ q.change = Null
  BY DEF NoRequest, Request, Ops
<1>2. req' = [req EXCEPT ![r] = q] /\ req[r].op = "none" /\ row' = Null
  BY DEF Delete, IInv, RequestsSound, Sound
<1>3. UNCHANGED <<issued, authorized, store>>
  BY DEF Delete
<1> HIDE DEF q
<1>4. Sound(q)
  BY <1>1 DEF Sound
<1> QED BY <1>1, <1>2, <1>3, <1>4, LocalStep

LEMMA IdentityKeeps ==
    ASSUME IInv, NEW r \in Requests, Identity(r)
    PROVE  IInv'
<1> DEFINE q == [NoRequest EXCEPT !.op = "identity", !.server = Resolved, !.pc = "identify"]
<1>0. Resolved \in Servers
  BY PlexDistinct DEF Identity, Resolved, IInv, TypeOK, Row, Config
<1>1. /\ q \in Request /\ q.pc = "identify" /\ q.op = "identity" /\ ~q.token /\ q.change = Null
      /\ q.server \in Servers
  BY <1>0 DEF NoRequest, Request, Ops
<1>2. req' = [req EXCEPT ![r] = q] /\ req[r].op = "none"
  BY DEF Identity, IInv, RequestsSound, Sound
<1>3. UNCHANGED <<issued, authorized, store, row>>
  BY DEF Identity
<1> HIDE DEF q
<1>4. Sound(q)
  BY <1>1 DEF Sound
<1> QED BY <1>1, <1>2, <1>3, <1>4, LocalStep, RowKept

(* What the settings page writes has no account. *)
LEMMA TypedWhole ==
    ASSUME NEW s \in Servers
    PROVE  Typed(s) \in Config /\ Whole(Typed(s))
  BY DEF Typed, Config, Whole

(* A request that starts with a change to save. *)
LEMMA ChangeStep ==
    ASSUME IInv, NEW r \in Requests, NEW ch \in Change, NEW op \in {"add", "edit"},
           NEW pc \in {"create", "load"}, pc = "create" => ch \in Row,
           req[r].pc = "idle",
           ch.config # Null => Whole(ch.config),
           req' = [req EXCEPT ![r] = [NoRequest EXCEPT !.op = op, !.pc = pc, !.change = ch]],
           UNCHANGED <<issued, authorized, store, row>>
    PROVE  IInv'
<1> DEFINE q == [NoRequest EXCEPT !.op = op, !.pc = pc, !.change = ch]
<1>1. /\ q \in Request /\ q.pc = pc /\ q.op = op /\ ~q.token /\ q.change = ch
  BY DEF NoRequest, Request, Ops
<1>2. req' = [req EXCEPT ![r] = q] /\ req[r].op = "none"
  BY DEF IInv, RequestsSound, Sound
<1> HIDE DEF q
<1>3. Sound(q)
  BY <1>1 DEF Sound
<1> QED BY <1>1, <1>2, <1>3, LocalStep, RowKept

LEMMA AddKeeps ==
    ASSUME IInv, NEW r \in Requests, Add(r)
    PROVE  IInv'
<1>1. PICK en \in BOOLEAN, s \in Servers :
         req' = [req EXCEPT ![r] = [NoRequest EXCEPT
                     !.op = "add", !.pc = "create",
                     !.change = [id |-> r, enabled |-> en, config |-> Typed(s)]]]
  BY DEF Add
<1> DEFINE ch == [id |-> r, enabled |-> en, config |-> Typed(s)]
<1>2. ch \in Change /\ ch \in Row /\ Whole(ch.config)
  BY TypedWhole DEF Change, Row
<1>3. req[r].pc = "idle" /\ UNCHANGED <<issued, authorized, store, row>>
  BY DEF Add
<1> HIDE DEF ch
<1>4. req' = [req EXCEPT ![r] = [NoRequest EXCEPT !.op = "add", !.pc = "create", !.change = ch]]
  BY <1>1 DEF ch
<1> QED BY <1>2, <1>3, <1>4, ChangeStep

LEMMA EditKeeps ==
    ASSUME IInv, NEW r \in Requests, Edit(r)
    PROVE  IInv'
<1>1. PICK en \in BOOLEAN \cup {Null}, c \in {Null} \cup {Typed(s) : s \in Servers} :
         req' = [req EXCEPT ![r] = [NoRequest EXCEPT
                     !.op = "edit", !.pc = "load",
                     !.change = [id |-> row.id, enabled |-> en, config |-> c]]]
  BY DEF Edit
<1> DEFINE ch == [id |-> row.id, enabled |-> en, config |-> c]
<1>2. row.id \in Requests \cup {Setup} /\ c \in Config \cup {Null} /\ (c # Null => Whole(c))
  BY TypedWhole DEF Edit, IInv, TypeOK, Row
<1>3. ch \in Change /\ (ch.config # Null => Whole(ch.config))
  BY <1>2 DEF Change
<1>4. req[r].pc = "idle" /\ UNCHANGED <<issued, authorized, store, row>>
  BY DEF Edit
<1> HIDE DEF ch
<1>5. req' = [req EXCEPT ![r] = [NoRequest EXCEPT !.op = "edit", !.pc = "load", !.change = ch]]
  BY <1>1 DEF ch
<1> QED BY <1>3, <1>4, <1>5, ChangeStep

(* A request at work that reads the row and decides what to save. *)
LEMMA DecideStep ==
    ASSUME IInv, NEW r \in Requests, NEW ch \in Change,
           NEW pc \in {"create", "load", "save"}, pc # "load" => ch \in Row,
           ch.config # Null => Whole(ch.config),
           req' = [req EXCEPT ![r] = [@ EXCEPT !.pc = pc, !.change = ch]],
           UNCHANGED <<issued, authorized, store, row>>
    PROVE  IInv'
<1> DEFINE q == [req[r] EXCEPT !.pc = pc, !.change = ch]
<1>1. /\ q \in Request /\ q.pc = pc /\ q.op = req[r].op /\ q.pin = req[r].pin
      /\ q.server = req[r].server /\ q.token = req[r].token /\ q.change = ch
  BY DEF IInv, TypeOK, Request
<1>2. req' = [req EXCEPT ![r] = q] /\ Sound(req[r])
  BY DEF IInv, RequestsSound
<1> HIDE DEF q
<1>3. Sound(q)
  BY <1>1, <1>2 DEF Sound
<1> QED BY <1>1, <1>2, <1>3, LocalStep, RowKept

(* The connect that holds the claim picks the config. *)
LEMMA ChosenWhole ==
    ASSUME IInv, NEW r \in Requests, req[r].pc = "find"
    PROVE  Chosen(r) \in Config /\ Whole(Chosen(r))
<1>1. /\ req[r].op = "connect" /\ req[r].token /\ req[r].server \in Servers
      /\ req[r].pin \in authorized /\ store[req[r].pin] = Null
  BY DEF IInv, RequestsSound, Sound
<1>2. req[r].pin \in Pins
  BY <1>1 DEF IInv, TypeOK
<1>3. Chosen(r) \in Config /\ Chosen(r).account = req[r].pin /\ Chosen(r).server = req[r].server
  BY <1>1, <1>2 DEF Chosen, Config
<1>4. Connecting(r, req[r].pin)
  BY <1>1 DEF Connecting
<1> QED BY <1>1, <1>3, <1>4 DEF Whole

LEMMA FindKeeps ==
    ASSUME IInv, NEW r \in Requests, Find(r)
    PROVE  IInv'
<1>1. PICK found \in {row, Null} : FindRow(r, found)
  BY DEF Find
<1> DEFINE pc == IF found = Null THEN "create" ELSE "load"
           ch == [id |-> IF found = Null THEN r ELSE found.id,
                  enabled |-> TRUE, config |-> Chosen(r)]
<1>2. req[r].pc = "find" /\ UNCHANGED <<issued, authorized, store, row>>
  BY DEF Find
<1>3. Chosen(r) \in Config /\ Whole(Chosen(r))
  BY <1>2, ChosenWhole
<1>4. (IF found = Null THEN r ELSE found.id) \in Requests \cup {Setup}
  BY DEF IInv, TypeOK, Row
<1>5. ch \in Row /\ ch \in Change /\ Whole(ch.config)
  BY <1>3, <1>4 DEF Row, Change
<1>6. pc \in {"create", "load", "save"}
  OBVIOUS
<1>7. req' = [req EXCEPT ![r] = [@ EXCEPT !.pc = pc, !.change = ch]]
  BY <1>1 DEF FindRow
<1> HIDE DEF pc, ch
<1> QED BY <1>2, <1>5, <1>6, <1>7, DecideStep

LEMMA MergeKeeps ==
    ASSUME IInv, NEW r \in Requests, Merge(r)
    PROVE  IInv'
<1>1. req[r].pc = "merge" /\ UNCHANGED <<issued, authorized, store, row>>
  BY DEF Merge
<1>2. CASE row = Null \/ row.config.machine = req[r].server
  <2>1. Goto(r, "done")
    BY <1>2 DEF Merge, Goto
  <2> QED BY <1>1, <2>1, GotoStep, RowKept
<1>3. CASE ~(row = Null \/ row.config.machine = req[r].server)
  <2> DEFINE c == [row.config EXCEPT !.machine = req[r].server]
             ch == [id |-> row.id, enabled |-> Null, config |-> c]
  <2>1. row \in Row /\ Whole(row.config) /\ req[r].server \in Servers
    BY <1>1, <1>3 DEF IInv, TypeOK, RowWhole, RequestsSound, Sound
  <2>2. c \in Config /\ c.account = row.config.account /\ c.server = row.config.server
    BY <2>1 DEF Row, Config
  <2>3. Whole(c)
    BY <2>1, <2>2 DEF Whole
  <2>4. req' = [req EXCEPT ![r] = [@ EXCEPT !.pc = "load", !.change = ch]]
    BY <1>3 DEF Merge
  <2> HIDE DEF c
  <2>5. ch \in Change /\ Whole(ch.config)
    BY <2>1, <2>2, <2>3 DEF Change, Row
  <2> HIDE DEF ch
  <2> QED BY <1>1, <2>4, <2>5, DecideStep
<1> QED BY <1>2, <1>3

LEMMA LoadKeeps ==
    ASSUME IInv, NEW r \in Requests, Load(r)
    PROVE  IInv'
<1>1. req[r].pc = "load" /\ UNCHANGED <<issued, authorized, store, row>>
  BY DEF Load
<1>2. CASE ~(row # Null /\ row.id = req[r].change.id)
  <2>1. Goto(r, "done")
    BY <1>2 DEF Load, Goto
  <2> QED BY <1>1, <2>1, GotoStep, RowKept
<1>3. CASE row # Null /\ row.id = req[r].change.id
  <2> DEFINE old == req[r].change
             ch == Changed(row, old)
  <2>1. /\ old \in Change /\ (old # Null => (old.config # Null => Whole(old.config)))
        /\ row \in Row /\ Whole(row.config)
    BY <1>1, <1>3 DEF IInv, TypeOK, RowWhole, RequestsSound, Sound
  <2>2. req' = [req EXCEPT ![r] = [@ EXCEPT !.pc = "save", !.change = ch]]
    BY <1>3 DEF Load
  <2> HIDE DEF old
  <2>3. ch \in Row /\ ch \in Change
    BY <2>1 DEF Changed, Row, Change
  <2>4. old # Null
    BY <2>1, NullIsNoRecord
  <2>5. Whole(ch.config)
    BY <2>1, <2>4 DEF Changed
  <2> HIDE DEF ch
  <2> QED BY <1>1, <2>2, <2>3, <2>5, DecideStep
<1> QED BY <1>2, <1>3

-----------------------------------------------------------------------------
(* The steps on the map of sign-ins. *)
LEMMA AuthStartKeeps ==
    ASSUME IInv, NEW p \in Pins, AuthStart(p)
    PROVE  IInv'
<1>1. /\ p \notin issued /\ issued' = issued \cup {p} /\ authorized' = authorized
      /\ UNCHANGED <<row, req>>
      /\ store' = [store EXCEPT ![p] = [hasToken |-> FALSE, aged |-> FALSE]]
  BY DEF AuthStart
<1>2. Grows
  BY <1>1 DEF Grows, IInv, TypeOK
<1>3. SignInsSound' /\ store' \in [Pins -> Session \cup {Null}]
  BY <1>1 DEF SignInsSound, IInv, TypeOK, Session
<1>4. issued' \subseteq Pins /\ authorized' \subseteq issued'
  BY <1>1 DEF IInv, TypeOK
<1> QED BY <1>1, <1>2, <1>3, <1>4, AssembleMap

LEMMA AuthorizeKeeps ==
    ASSUME IInv, NEW p \in Pins, Authorize(p)
    PROVE  IInv'
<1>1. /\ p \in issued /\ issued' = issued /\ authorized' = authorized \cup {p}
      /\ UNCHANGED <<store, row, req>>
  BY DEF Authorize
<1>2. Grows
  BY <1>1 DEF Grows
<1>3. SignInsSound' /\ store' \in [Pins -> Session \cup {Null}]
  BY <1>1 DEF SignInsSound, IInv, TypeOK
<1>4. issued' \subseteq Pins /\ authorized' \subseteq issued'
  BY <1>1 DEF IInv, TypeOK
<1> QED BY <1>1, <1>2, <1>3, <1>4, AssembleMap

LEMMA AgeKeeps ==
    ASSUME IInv, NEW p \in Pins, Age(p)
    PROVE  IInv'
<1> DEFINE s == [store[p] EXCEPT !.aged = TRUE]
<1>1. /\ store[p] # Null /\ store' = [store EXCEPT ![p] = s]
      /\ UNCHANGED <<issued, authorized, row, req>>
  BY DEF Age
<1>2. s \in Session /\ s.hasToken = store[p].hasToken
  BY <1>1 DEF IInv, TypeOK, Session
<1> HIDE DEF s
<1>3. Grows
  BY <1>1, <1>2 DEF Grows, IInv, TypeOK
<1>4. SignInsSound' /\ store' \in [Pins -> Session \cup {Null}]
  BY <1>1, <1>2 DEF SignInsSound, IInv, TypeOK
<1>5. issued' \subseteq Pins /\ authorized' \subseteq issued'
  BY <1>1 DEF IInv, TypeOK
<1> QED BY <1>1, <1>3, <1>4, <1>5, AssembleMap

(* A look or a poll neither adds nor empties a sign-in. *)
Watches ==
    /\ UNCHANGED <<issued, authorized, row>>
    /\ store' \in [Pins -> Session \cup {Null}]
    /\ \A p \in Pins : store'[p] # Null =>
          /\ store[p] # Null
          /\ store[p].hasToken => store'[p].hasToken
          /\ store'[p].hasToken => p \in authorized

LEMMA LookWatches ==
    ASSUME IInv, NEW p \in Pins, Look(p), UNCHANGED <<issued, authorized, row>>
    PROVE  Watches
<1>1. CASE Present(p)
  BY <1>1 DEF Look, Watches, IInv, TypeOK, SignInsSound
<1>2. CASE ~Present(p)
  BY <1>2 DEF Look, Watches, IInv, TypeOK, SignInsSound
<1> QED BY <1>1, <1>2

(* A status request's step. *)
LEMMA StatusStep ==
    ASSUME IInv, Watches, NEW r \in Requests, NEW q \in Request,
           req' = [req EXCEPT ![r] = q], q.op = "status",
           req[r].op \in {"none", "status"}, Sound(q)'
    PROVE  IInv'
<1>1. \A x \in Requests :
         (req[x].op = "connect" <=> req'[x].op = "connect")
         /\ (req[x].op = "connect" => req'[x] = req[x])
  BY DEF IInv, TypeOK
<1>2. Grows
  BY <1>1 DEF Grows, Watches, IInv, TypeOK
<1>3. ClaimedOnce'
  BY <1>1 DEF ClaimedOnce, Connecting, IInv
<1>4. SignInsSound' /\ issued' \subseteq Pins /\ authorized' \subseteq issued'
      /\ store' \in [Pins -> Session \cup {Null}]
  BY DEF Watches, IInv, TypeOK, SignInsSound
<1>5. row' = row
  BY DEF Watches
<1> QED BY <1>2, <1>3, <1>4, <1>5, RowKept, Assemble

LEMMA StatusKeeps ==
    ASSUME IInv, NEW r \in Requests, NEW p \in Pins, Status(r, p)
    PROVE  IInv'
<1>1. PICK pc \in {"poll", "done"} : pc = IF Present(p) THEN "poll" ELSE "done"
  OBVIOUS
<1> DEFINE new == [NoRequest EXCEPT !.op = "status", !.pin = p, !.pc = pc]
<1>2. /\ new \in Request /\ new.pc = pc /\ new.op = "status" /\ ~new.token
      /\ new.change = Null /\ new.pin = p
  BY DEF NoRequest, Request, Ops
<1>3. req' = [req EXCEPT ![r] = new] /\ req[r].op \in {"none", "status"}
  BY <1>1 DEF Status, Free, IInv, RequestsSound, Sound
<1> HIDE DEF new
<1>4. PICK q \in Request : q = new
  BY <1>2
<1>5. Watches
  BY LookWatches DEF Status
<1>6. pc = "poll" => p \in issued'
  BY <1>1, <1>5 DEF Present, IInv, SignInsSound, Watches
<1>7. Sound(q)'
  BY <1>2, <1>4, <1>6 DEF Sound
<1> QED BY <1>2, <1>3, <1>4, <1>5, <1>7, StatusStep

LEMMA PollKeeps ==
    ASSUME IInv, NEW r \in Requests, Poll(r)
    PROVE  IInv'
<1>1. PICK p \in Pins : p = req[r].pin
  BY DEF Poll, IInv, TypeOK
<1>2. PICK old \in Request : old = req[r] /\ Sound(old)
  BY DEF IInv, TypeOK, RequestsSound
<1>3. /\ old.pc = "poll" /\ p \in authorized /\ p \in issued /\ old.op = "status"
      /\ UNCHANGED <<issued, authorized, row>> /\ StoreToken(p)
  BY <1>1, <1>2 DEF Poll, Sound
<1> DEFINE new == [old EXCEPT !.pc = "fetch"]
<1>4. /\ new \in Request /\ new.pc = "fetch" /\ new.op = "status" /\ new.pin = p
      /\ new.token = old.token /\ new.change = old.change
  BY <1>1, <1>2, <1>3 DEF Request
<1>5. req' = [req EXCEPT ![r] = new]
  BY <1>2 DEF Poll, Goto
<1> HIDE DEF new
<1>6. PICK q \in Request : q = new
  BY <1>4
<1>7. Watches /\ (store'[p] # Null => store'[p].hasToken)
  <2>1. CASE store[p] = Null
    BY <1>3, <2>1 DEF StoreToken, Watches, IInv, TypeOK, SignInsSound
  <2>2. CASE store[p] # Null
    <3> DEFINE s == [store[p] EXCEPT !.hasToken = TRUE]
    <3>1. s \in Session /\ s.hasToken
      BY <2>2 DEF IInv, TypeOK, Session
    <3>2. store' = [store EXCEPT ![p] = s]
      BY <1>3, <2>2 DEF StoreToken
    <3> HIDE DEF s
    <3>3. store' \in [Pins -> Session \cup {Null}] /\ store'[p] = s
      BY <3>1, <3>2 DEF IInv, TypeOK
    <3>4. \A x \in Pins \ {p} : store'[x] = store[x]
      BY <3>2 DEF IInv, TypeOK
    <3> QED BY <1>3, <2>2, <3>1, <3>3, <3>4 DEF Watches, IInv, SignInsSound
  <2> QED BY <2>1, <2>2
<1>8. Grows
  <2>1. \A x \in Requests : req[x].op = "connect" => req'[x] = req[x]
    BY <1>2, <1>3, <1>5 DEF IInv, TypeOK
  <2> QED BY <1>7, <2>1 DEF Grows, Watches, IInv, TypeOK
<1>9. Sound(old)'
  BY <1>2, <1>8, SoundStays
<1>10. Sound(q)'
  BY <1>3, <1>4, <1>6, <1>7, <1>9 DEF Sound, Watches
<1> QED BY <1>2, <1>3, <1>4, <1>5, <1>6, <1>7, <1>10, StatusStep

LEMMA FetchKeeps ==
    ASSUME IInv, NEW r \in Requests, Fetch(r)
    PROVE  IInv'
<1>1. PICK old \in Request : old = req[r] /\ Sound(old)
  BY DEF IInv, TypeOK, RequestsSound
<1>2. PICK p \in Pins : p = old.pin /\ p \in issued
  BY <1>1 DEF Fetch, Sound, IInv, TypeOK
<1>3. PICK here \in BOOLEAN : here <=> Present(p)
  OBVIOUS
<1> DEFINE new == [old EXCEPT !.pc = IF here THEN "list" ELSE "done", !.token = here]
<1>4. old.pc = "fetch" /\ old.op = "status" /\ Look(p) /\ UNCHANGED <<issued, authorized, row>>
  BY <1>1, <1>2 DEF Fetch, Sound
<1>5. here => store[p] # Null /\ store[p].hasToken /\ p \in authorized
  BY <1>1, <1>2, <1>3, <1>4 DEF Present, Sound, IInv, SignInsSound
<1>6. /\ new \in Request /\ new.pc = (IF here THEN "list" ELSE "done") /\ new.op = "status"
      /\ new.pin = p /\ (new.token <=> here) /\ new.change = old.change
  BY <1>2, <1>4 DEF Request
<1>7. req' = [req EXCEPT ![r] = new]
  <2>1. (Present(p) /\ store[p].hasToken) = here
    BY <1>3, <1>5, <1>2 DEF IInv, TypeOK, Session, Present
  <2>2. (IF Present(p) THEN "list" ELSE "done") = (IF here THEN "list" ELSE "done")
    BY <1>3
  <2>3. req' = [req EXCEPT ![r] = [@ EXCEPT
                    !.pc = IF Present(p) THEN "list" ELSE "done",
                    !.token = Present(p) /\ store[p].hasToken]]
    BY <1>1, <1>2 DEF Fetch
  <2> QED BY <1>1, <2>1, <2>2, <2>3
<1> HIDE DEF new
<1>8. PICK q \in Request : q = new
  BY <1>6
<1>9. Watches
  BY <1>4, LookWatches
<1>10. Grows
  <2>1. \A x \in Requests : req[x].op = "connect" => req'[x] = req[x]
    BY <1>1, <1>4, <1>7 DEF IInv, TypeOK
  <2> QED BY <1>9, <2>1 DEF Grows, Watches, IInv, TypeOK
<1>11. Sound(old)'
  BY <1>1, <1>10, SoundStays
<1>12. Sound(q)'
  BY <1>2, <1>4, <1>5, <1>6, <1>8, <1>9, <1>11 DEF Sound, Watches
<1> QED BY <1>1, <1>4, <1>6, <1>7, <1>8, <1>9, <1>12, StatusStep

(* Whoever takes a sign-in out is the first to claim its pin, since a      *)
(* claimed sign-in is not there.                                           *)
LEMMA ClaimKeeps ==
    ASSUME IInv, NEW r \in Requests, NEW p \in Pins, NEW s \in Servers, Claim(r, p, s)
    PROVE  IInv'
<1>1. PICK in \in BOOLEAN : in <=> store[p] # Null /\ store[p].hasToken
  OBVIOUS
<1> DEFINE new == [NoRequest EXCEPT !.op = "connect", !.pin = p, !.server = s,
                       !.token = in, !.pc = IF in THEN "device" ELSE "done"]
<1>2. /\ new \in Request /\ new.op = "connect" /\ new.pin = p /\ new.server = s
      /\ (new.token <=> in) /\ new.pc = (IF in THEN "device" ELSE "done")
      /\ new.change = Null
  BY DEF NoRequest, Request, Ops
<1>3. /\ req[r].op = "none" /\ UNCHANGED <<issued, authorized, row>>
      /\ store' = [store EXCEPT ![p] = Null]
  BY DEF Claim, Consume, IInv, RequestsSound, Sound
<1>4. req' = [req EXCEPT ![r] = new]
  <2>1. (store[p] # Null /\ store[p].hasToken) = in
    BY <1>1 DEF IInv, TypeOK, Session
  <2> QED BY <2>1 DEF Claim, Consume
<1> HIDE DEF new
<1>5. PICK q \in Request : q = new
  BY <1>2
<1>6. in => p \in authorized
  BY <1>1 DEF IInv, SignInsSound
<1>7. \A x \in Requests : (req[x].op = "connect" /\ req[x].token) => req'[x] = req[x]
  BY <1>3, <1>4 DEF IInv, TypeOK
<1>8. Grows
  BY <1>3, <1>7 DEF Grows, IInv, TypeOK
<1>9. Sound(q)'
  BY <1>2, <1>3, <1>5, <1>6 DEF Sound, IInv, TypeOK
<1>10. ClaimedOnce'
  <2>1. in => \A x \in Requests : ~Connecting(x, p)
    BY <1>1 DEF Connecting, IInv, RequestsSound, Sound
  <2>2. req'[r] = new /\ \A x \in Requests \ {r} : req'[x] = req[x]
    BY <1>2, <1>4 DEF IInv, TypeOK
  <2> QED BY <1>2, <1>3, <2>1, <2>2 DEF ClaimedOnce, Connecting, IInv
<1>11. /\ SignInsSound' /\ issued' \subseteq Pins /\ authorized' \subseteq issued'
       /\ store' \in [Pins -> Session \cup {Null}]
  BY <1>3 DEF IInv, TypeOK, SignInsSound
<1> QED BY <1>3, <1>4, <1>5, <1>8, <1>9, <1>10, <1>11, RowKept, Assemble

-----------------------------------------------------------------------------
(* The invariant. *)
LEMMA InitInv == Init => IInv
<1> SUFFICES ASSUME Init PROVE IInv
  OBVIOUS
<1>1. NoRequest \in Request /\ NoRequest.pc = "idle" /\ NoRequest.op = "none"
      /\ ~NoRequest.token /\ NoRequest.change = Null
  BY DEF NoRequest, Request, Ops
<1>2. row \in Row \cup {Null} /\ RowWhole
  <2> SUFFICES ASSUME NEW s \in Servers, row = [id |-> Setup, enabled |-> TRUE, config |-> Typed(s)]
               PROVE  row \in Row /\ Whole(row.config)
    BY DEF Init, RowWhole
  <2> QED BY TypedWhole DEF Row
<1>3. TypeOK
  BY <1>1, <1>2 DEF Init, TypeOK
<1>4. RequestsSound /\ SignInsSound /\ ClaimedOnce
  BY <1>1 DEF Init, RequestsSound, Sound, SignInsSound, ClaimedOnce, Connecting
<1> QED BY <1>2, <1>3, <1>4 DEF IInv

LEMMA NextInv == IInv /\ [Next]_vars => IInv'
<1> SUFFICES ASSUME IInv, [Next]_vars PROVE IInv'
  OBVIOUS
<1>1. ASSUME NEW p \in Pins, AuthStart(p) \/ Authorize(p) \/ Age(p)
      PROVE  IInv'
  BY <1>1, AuthStartKeeps, AuthorizeKeeps, AgeKeeps
<1>2. ASSUME NEW r \in Requests, SignIn(r)
      PROVE  IInv'
  BY <1>2, StatusKeeps, ClaimKeeps, PollKeeps, FetchKeeps, DeviceKeeps DEF SignIn
<1>3. ASSUME NEW r \in Requests, RowStep(r)
      PROVE  IInv'
  BY <1>3, FindKeeps, AddKeeps, CreateKeeps, IdentityKeeps, IdentifyKeeps, MergeKeeps,
     EditKeeps, DeleteKeeps, LoadKeeps, SaveKeeps DEF RowStep
<1>4. ASSUME NEW r \in Requests, End(r)
      PROVE  IInv'
  BY <1>4, EndKeeps
<1>5. CASE UNCHANGED vars
  BY <1>5 DEF vars, IInv, TypeOK, SignInsSound, RequestsSound, Sound, ClaimedOnce,
     Connecting, RowWhole, Whole
<1> QED BY <1>1, <1>2, <1>3, <1>4, <1>5 DEF Next

THEOREM Inductive == Spec => []IInv
  BY InitInv, NextInv, PTL DEF Spec

(* Type correctness of the map, the row and the requests. *)
THEOREM TypeCorrect == Spec => []TypeOK
<1>1. IInv => TypeOK
  BY DEF IInv
<1> QED BY <1>1, Inductive, PTL

(* However many status polls and connects of a pin are under way, one      *)
(* connect at most gets its sign-in: ClaimPlexAuthSession.                 *)
THEOREM OneConnectPerPin == Spec => []ClaimedOnce
<1>1. IInv => ClaimedOnce
  BY DEF IInv
<1> QED BY <1>1, Inductive, PTL

(* plex.tv is asked for servers with the token of an authorized pin only:  *)
(* GetPlexAuthSession and ClaimPlexAuthSession.                            *)
THEOREM AsksWithToken == Spec => []TokenHeld
<1>1. IInv => TokenHeld
  BY DEF IInv, RequestsSound, Sound, TokenHeld
<1> QED BY <1>1, Inductive, PTL

(* The row, and whatever a writer of it holds, pairs an account with the   *)
(* server it was connected to: AuthConnect, persistMachineIdentifier and   *)
(* the settings page, with all their interleaved reads and saves.          *)
THEOREM RowsStayWhole == Spec => []ConnectionIsWhole
<1>1. IInv => ConnectionIsWhole
  BY DEF IInv, RequestsSound, Sound, RowWhole, ConnectionIsWhole
<1> QED BY <1>1, Inductive, PTL
=============================================================================
