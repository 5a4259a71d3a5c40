----------------------- MODULE StreamResolution_proofs -----------------------
(***************************************************************************)
(* Proofs about the bridge and about the endpoints on top of it, for any   *)
(* number of requests, keys, calls and cache entries.  Part one is about   *)
(* StreamBridge alone, whatever its callers do; part two shows that the    *)
(* endpoints of StreamResolution only use the bridge as its own next-state *)
(* relation allows, so that part one holds under them.                     *)
(***************************************************************************)
EXTENDS StreamResolution, TLAPS, FiniteSetTheorems

-----------------------------------------------------------------------------
(* Part one: the bridge *)

Holding(r) == at[r].pc \in {"waiting", "running"}

(* A request that is out holds nothing; one that is in bridgeStreamKey holds *)
(* a call for its key; one that is back holds a call that has ended, or none *)
(* when it was cancelled.                                                    *)
PlacesSound ==
    \A r \in Requests :
        /\ at[r].pc = "out" => at[r].call = Null
        /\ Holding(r) => /\ at[r].call \in Calls /\ at[r].key \in Keys
                         /\ call[at[r].call].key = at[r].key
                         /\ call[at[r].call].step # "free"
        /\ at[r].pc = "back" /\ at[r].call # Null => call[at[r].call].step = "done"

(* A call is listed under its key exactly while its owner runs it. *)
ListedSound ==
    /\ \A r \in Requests : at[r].pc = "running" => inflight[at[r].key] = at[r].call
    /\ \A k \in Keys : inflight[k] # Null =>
          \E r \in Requests : at[r].pc = "running" /\ at[r].key = k /\ at[r].call = inflight[k]

(* A call has one owner: no two requests run the same one. *)
OneOwner ==
    \A r, q \in Requests :
        at[r].pc = "running" /\ at[q].pc = "running" /\ at[r].call = at[q].call => r = q

(* A bridge at work has an owner. *)
BusyOwned ==
    \A c \in Calls : Busy(c) =>
        \E r \in Requests : at[r].pc = "running" /\ at[r].call = c

(* A mirror run at work bridges some key's file. *)
MirrorsSound == \A m \in Mirrors : Busy(m) => call[m].key \in Keys

(* The records alone: TypeOK without what it says of items. *)
Shape ==
    /\ live \in [Keys -> Items]
    /\ due \in [Keys -> BOOLEAN]
    /\ inflight \in [Keys -> Calls \cup {Null}]
    /\ call \in [Workers -> Call]
    /\ at \in [Requests -> Place]

(* A bridge past its search for the item, or ended well, holds an item. *)
HasItem(u) ==
    \/ u.step \in {"verify", "source"}
    \/ u.step = "done" /\ u.err = "none"

ItemsFound == \A w \in Workers : HasItem(call[w]) => call[w].item # 0

IInv == Shape /\ PlacesSound /\ ListedSound /\ OneOwner /\ BusyOwned /\ ItemsFound

-----------------------------------------------------------------------------
LEMMA Typed ==
    ASSUME Shape
    PROVE  /\ \A r \in Requests : /\ at[r].pc \in {"out", "waiting", "running", "back"}
                                  /\ at[r].call \in Calls \cup {Null}
                                  /\ at[r].key \in Keys \cup {Null}
           /\ \A w \in Workers : /\ call[w].key \in Keys \cup {Null}
                                 /\ call[w].item \in Items
                                 /\ call[w].pinned \in BOOLEAN
                                 /\ call[w].err \in BridgeErrors \cup {"none"}
                                 /\ call[w].step \in Working \cup {"free", "done"}
           /\ \A k \in Keys : inflight[k] \in Calls \cup {Null} /\ live[k] \in Items
  BY DEF Shape, Place, Call

LEMMA CallTyped ==
    ASSUME NEW s \in Working \cup {"free", "done"}, NEW k \in Keys \cup {Null}, NEW i \in Items,
           NEW p \in BOOLEAN, NEW e \in BridgeErrors \cup {"none"}
    PROVE  [step |-> s, key |-> k, item |-> i, pinned |-> p, err |-> e] \in Call
  BY DEF Call

(* What the steps of a bridge do to its call: only the step, the item, the  *)
(* pinned flag and the error change.                                         *)
LEMMA ChangedCall ==
    ASSUME Shape, NEW w \in Workers, NEW s \in Working \cup {"free", "done"}, NEW i \in Items,
           NEW p \in BOOLEAN, NEW e \in BridgeErrors \cup {"none"},
           NEW u, u = [call[w] EXCEPT !.step = s, !.item = i, !.pinned = p, !.err = e]
    PROVE  u \in Call /\ u.step = s /\ u.item = i /\ u.pinned = p /\ u.err = e /\ u.key = call[w].key
  BY DEF Shape, Call

(* A worker is not touched by what another one does. *)
LEMMA Unshared == ASSUME NEW c \in Calls PROVE c # Null /\ c \in Workers /\ c \notin Mirrors
  BY NullAssumption, MirrorsAssumption DEF Workers

(* Two bridges at work for one key are the one listed under it. *)
LEMMA BusyListed ==
    ASSUME IInv, NEW c \in Calls, Busy(c)
    PROVE  call[c].key \in Keys /\ inflight[call[c].key] = c
<1>1. PICK r \in Requests : at[r].pc = "running" /\ at[r].call = c
  BY DEF IInv, BusyOwned
<1> QED BY <1>1 DEF IInv, PlacesSound, ListedSound, Holding

LEMMA OneBridgeInv == IInv => OneBridgePerKey
  BY BusyListed DEF OneBridgePerKey

-----------------------------------------------------------------------------
LEMMA InitInv == BridgeInit => IInv
<1> SUFFICES ASSUME BridgeInit PROVE IInv
  OBVIOUS
<1>1. 0 \in Items
  BY MaxItemAssumption DEF Items
<1>2. NoCall \in Call /\ NoCall.step = "free"
  BY <1>1, CallTyped DEF NoCall
<1>3. Out \in Place /\ Out.pc = "out" /\ Out.call = Null
  BY DEF Out, Place
<1>4. Shape
  BY <1>1, <1>2, <1>3 DEF BridgeInit, Shape
<1>5. PlacesSound /\ ListedSound /\ OneOwner
  BY <1>3 DEF BridgeInit, PlacesSound, ListedSound, OneOwner, Holding
<1>6. BusyOwned /\ ItemsFound
  BY <1>2, Unshared DEF BridgeInit, BusyOwned, Busy, Working, ItemsFound, HasItem
<1> QED BY <1>4, <1>5, <1>6 DEF IInv

-----------------------------------------------------------------------------
(* A listed call is for the key it is listed under, and its owner runs it. *)
LEMMA ListedCall ==
    ASSUME IInv, NEW k \in Keys, inflight[k] # Null
    PROVE  /\ inflight[k] \in Calls /\ call[inflight[k]].key = k
           /\ call[inflight[k]].step # "free"
           /\ \E r \in Requests : at[r].pc = "running" /\ at[r].key = k /\ at[r].call = inflight[k]
  BY DEF IInv, PlacesSound, ListedSound, Holding

LEMMA NoCallTyped == NoCall \in Call /\ NoCall.step = "free" /\ NoCall.err = "none"
<1>1. 0 \in Items
  BY MaxItemAssumption DEF Items
<1> QED BY <1>1, CallTyped DEF NoCall

(* A call just started. *)
LEMMA StartedCall ==
    ASSUME NEW k \in Keys
    PROVE  /\ [NoCall EXCEPT !.step = "scan", !.key = k] \in Call
           /\ [NoCall EXCEPT !.step = "scan", !.key = k].step = "scan"
           /\ [NoCall EXCEPT !.step = "scan", !.key = k].key = k
<1>1. NoCall \in Call
  BY NoCallTyped
<1> QED BY <1>1 DEF Call, Working

(* A request's own move: the others stay where they are. *)
LEMMA Moved ==
    ASSUME Shape, NEW r \in Requests, NEW p \in Place, at' = [at EXCEPT ![r] = p]
    PROVE  /\ at' \in [Requests -> Place] /\ at'[r] = p
           /\ \A q \in Requests : q # r => at'[q] = at[q]
  BY DEF Shape

LEMMA WaitForInv ==
    ASSUME IInv, NEW r \in Requests, NEW k \in Keys, at[r].pc = "out",
           inflight[k] # Null, WaitFor(r, k)
    PROVE  IInv'
<1> DEFINE p == [pc |-> "waiting", key |-> k, call |-> inflight[k]]
<1>1. inflight[k] \in Calls /\ call[inflight[k]].key = k /\ call[inflight[k]].step # "free"
  BY ListedCall
<1>2. p \in Place /\ p.pc = "waiting" /\ p.key = k /\ p.call = inflight[k]
  BY <1>1 DEF Place
<1>3. Shape
  BY DEF IInv
<1>4. at' = [at EXCEPT ![r] = p]
  BY DEF WaitFor
<1> HIDE DEF p
<1>5. /\ at' \in [Requests -> Place] /\ at'[r] = p
      /\ \A q \in Requests : q # r => at'[q] = at[q]
  BY <1>2, <1>3, <1>4, Moved
<1>6. UNCHANGED <<live, due, inflight, call>>
  BY DEF WaitFor
<1>7. Shape'
  BY <1>3, <1>5, <1>6 DEF Shape
<1>8. PlacesSound'
  BY <1>1, <1>2, <1>5, <1>6 DEF IInv, PlacesSound, Holding
<1>9. ListedSound' /\ OneOwner' /\ BusyOwned' /\ ItemsFound'
  <2>1. \A q \in Requests : at'[q].pc = "running" => q # r
    BY <1>2, <1>5
  <2>2. \A q \in Requests : at[q].pc = "running" => q # r
    OBVIOUS
  <2> QED BY <1>5, <1>6, <2>1, <2>2 DEF IInv, ListedSound, OneOwner, BusyOwned, Busy, ItemsFound
<1> QED BY <1>7, <1>8, <1>9 DEF IInv

LEMMA RegisterInv ==
    ASSUME IInv, NEW r \in Requests, NEW k \in Keys, NEW c \in Calls, at[r].pc = "out",
           inflight[k] = Null, Register(r, k, c)
    PROVE  IInv'
<1> DEFINE p == [pc |-> "running", key |-> k, call |-> c]
           u == [NoCall EXCEPT !.step = "scan", !.key = k]
<1>0. Shape /\ c \in Workers /\ c # Null
  BY Unshared DEF IInv
<1>1. u \in Call /\ u.step = "scan" /\ u.key = k
  BY StartedCall
<1>2. p \in Place /\ p.pc = "running" /\ p.key = k /\ p.call = c
  BY DEF Place
<1>3. /\ at' = [at EXCEPT ![r] = p] /\ call' = [call EXCEPT ![c] = u]
      /\ inflight' = [inflight EXCEPT ![k] = c] /\ live' = live /\ due' = due
      /\ \A q \in Requests : at[q].call # c
  BY DEF Register, Fresh
<1> HIDE DEF p, u
<1>4. /\ at' \in [Requests -> Place] /\ at'[r] = p
      /\ \A q \in Requests : q # r => at'[q] = at[q]
  BY <1>0, <1>2, <1>3, Moved
<1>5. /\ call' \in [Workers -> Call] /\ call'[c] = u
      /\ \A w \in Workers : w # c => call'[w] = call[w]
  BY <1>0, <1>1, <1>3 DEF Shape
<1>6. /\ inflight' \in [Keys -> Calls \cup {Null}] /\ inflight'[k] = c
      /\ \A l \in Keys : l # k => inflight'[l] = inflight[l]
  BY <1>0, <1>3 DEF Shape
<1>7. Shape'
  BY <1>0, <1>3, <1>4, <1>5, <1>6 DEF Shape
<1>8. \A q \in Requests : at[q].call # Null => call'[at[q].call] = call[at[q].call]
  <2> SUFFICES ASSUME NEW q \in Requests, at[q].call # Null PROVE call'[at[q].call] = call[at[q].call]
    OBVIOUS
  <2>1. at[q].call \in Calls
    BY <1>0, Typed
  <2> QED BY <2>1, <1>3, <1>5, Unshared
<1>9. PlacesSound'
  <2> SUFFICES ASSUME NEW q \in Requests
               PROVE  /\ at'[q].pc = "out" => at'[q].call = Null
                      /\ Holding(q)' => /\ at'[q].call \in Calls /\ at'[q].key \in Keys
                                        /\ call'[at'[q].call].key = at'[q].key
                                        /\ call'[at'[q].call].step # "free"
                      /\ at'[q].pc = "back" /\ at'[q].call # Null => call'[at'[q].call].step = "done"
    BY DEF PlacesSound
  <2>1. CASE q = r
    BY <2>1, <1>1, <1>2, <1>4, <1>5 DEF Holding
  <2>2. CASE q # r
    <3>1. at'[q] = at[q]
      BY <2>2, <1>4
    <3>2. Holding(q) => at[q].call # Null
      BY Unshared DEF IInv, PlacesSound
    <3> QED BY <3>1, <3>2, <1>8 DEF IInv, PlacesSound, Holding
  <2> QED BY <2>1, <2>2
<1>10. \A q \in Requests : q # r /\ at[q].pc = "running" => at[q].key \in Keys /\ at[q].key # k
  BY Unshared DEF IInv, PlacesSound, ListedSound, Holding
<1>11. ListedSound'
  <2>1. ASSUME NEW q \in Requests, at'[q].pc = "running" PROVE inflight'[at'[q].key] = at'[q].call
    <3>1. CASE q = r
      BY <3>1, <1>2, <1>4, <1>6
    <3>2. CASE q # r
      BY <2>1, <3>2, <1>4, <1>6, <1>10 DEF IInv, ListedSound
    <3> QED BY <3>1, <3>2
  <2>2. ASSUME NEW l \in Keys, inflight'[l] # Null
        PROVE  \E q \in Requests : at'[q].pc = "running" /\ at'[q].key = l /\ at'[q].call = inflight'[l]
    <3>1. CASE l = k
      BY <3>1, <1>2, <1>4, <1>6
    <3>2. CASE l # k
      <4>1. inflight'[l] = inflight[l]
        BY <3>2, <1>6
      <4>2. PICK q \in Requests : at[q].pc = "running" /\ at[q].key = l /\ at[q].call = inflight[l]
        BY <2>2, <4>1, ListedCall
      <4> QED BY <4>1, <4>2, <1>4
    <3> QED BY <3>1, <3>2
  <2> QED BY <2>1, <2>2 DEF ListedSound
<1>12. OneOwner'
  <2> SUFFICES ASSUME NEW q \in Requests, NEW o \in Requests, at'[q].pc = "running",
                      at'[o].pc = "running", at'[q].call = at'[o].call
               PROVE  q = o
    BY DEF OneOwner
  <2> QED BY <1>2, <1>3, <1>4 DEF IInv, OneOwner
<1>13. BusyOwned'
  <2> SUFFICES ASSUME NEW d \in Calls, Busy(d)'
               PROVE  \E q \in Requests : at'[q].pc = "running" /\ at'[q].call = d
    BY DEF BusyOwned
  <2>1. CASE d = c
    BY <2>1, <1>2, <1>4
  <2>2. CASE d # c
    <3>1. Busy(d)
      BY <2>2, <1>5, Unshared DEF Busy
    <3>2. PICK q \in Requests : at[q].pc = "running" /\ at[q].call = d
      BY <3>1 DEF IInv, BusyOwned
    <3> QED BY <3>2, <1>4
  <2> QED BY <2>1, <2>2
<1>14. ItemsFound'
  BY <1>1, <1>5 DEF IInv, ItemsFound, HasItem
<1> QED BY <1>7, <1>9, <1>11, <1>12, <1>13, <1>14 DEF IInv

(* A waiter that returns, with the ended call or with none. *)
LEMMA StopsWaiting ==
    ASSUME IInv, NEW r \in Requests, at[r].pc = "waiting", NEW p \in Place, p.pc = "back",
           p.call # Null => call[p.call].step = "done",
           at' = [at EXCEPT ![r] = p], UNCHANGED <<live, due, inflight, call>>
    PROVE  IInv'
<1>1. Shape
  BY DEF IInv
<1>2. /\ at' \in [Requests -> Place] /\ at'[r] = p
      /\ \A q \in Requests : q # r => at'[q] = at[q]
  BY <1>1, Moved
<1>3. Shape'
  BY <1>1, <1>2 DEF Shape
<1>4. PlacesSound'
  BY <1>2 DEF IInv, PlacesSound, Holding
<1>5. ListedSound' /\ OneOwner' /\ BusyOwned' /\ ItemsFound'
  BY <1>2 DEF IInv, ListedSound, OneOwner, BusyOwned, Busy, ItemsFound
<1> QED BY <1>3, <1>4, <1>5 DEF IInv

LEMMA PlaceBack ==
    ASSUME Shape, NEW r \in Requests
    PROVE  /\ \A p : p = [at[r] EXCEPT !.pc = "back"] =>
                  p \in Place /\ p.pc = "back" /\ p.call = at[r].call /\ p.key = at[r].key
           /\ \A p : p = [at[r] EXCEPT !.pc = "back", !.call = Null] =>
                  p \in Place /\ p.pc = "back" /\ p.call = Null
  BY DEF Shape, Place

LEMMA TakeInv == ASSUME IInv, NEW r \in Requests, Take(r) PROVE IInv'
<1> DEFINE p == [at[r] EXCEPT !.pc = "back"]
<1>1. p \in Place /\ p.pc = "back" /\ p.call = at[r].call
  BY PlaceBack DEF IInv
<1>2. at' = [at EXCEPT ![r] = p]
  BY DEF Take
<1> HIDE DEF p
<1> QED BY <1>1, <1>2, StopsWaiting DEF Take

LEMMA CancelInv == ASSUME IInv, NEW r \in Requests, Cancel(r) PROVE IInv'
<1> DEFINE p == [at[r] EXCEPT !.pc = "back", !.call = Null]
<1>1. p \in Place /\ p.pc = "back" /\ p.call = Null
  BY PlaceBack DEF IInv
<1>2. at' = [at EXCEPT ![r] = p]
  BY DEF Cancel
<1> HIDE DEF p
<1> QED BY <1>1, <1>2, StopsWaiting DEF Cancel

LEMMA RemoveInv == ASSUME IInv, NEW r \in Requests, Remove(r) PROVE IInv'
<1> DEFINE p == [at[r] EXCEPT !.pc = "back"]
<1>0. Shape
  BY DEF IInv
<1>1. p \in Place /\ p.pc = "back" /\ p.call = at[r].call /\ p.key = at[r].key
  BY <1>0, PlaceBack
<1>2. at' = [at EXCEPT ![r] = p]
  BY DEF Remove
<1> HIDE DEF p
<1>3. /\ at' \in [Requests -> Place] /\ at'[r] = p
      /\ \A q \in Requests : q # r => at'[q] = at[q]
  BY <1>0, <1>1, <1>2, Moved
<1>4. PICK k \in Keys, c \in Calls :
          at[r].key = k /\ at[r].call = c /\ call[c].step = "done" /\ inflight[k] = c
  BY DEF Remove, IInv, PlacesSound, ListedSound, Holding
<1>5. /\ inflight' \in [Keys -> Calls \cup {Null}] /\ inflight'[k] = Null
      /\ \A l \in Keys : l # k => inflight'[l] = inflight[l]
      /\ live' = live /\ due' = due /\ call' = call
  BY <1>0, <1>4 DEF Remove, Shape
<1>6. Shape'
  BY <1>0, <1>3, <1>5 DEF Shape
<1>7. PlacesSound'
  BY <1>1, <1>3, <1>4, <1>5 DEF IInv, PlacesSound, Holding
<1>8. \A q \in Requests : q # r /\ at[q].pc = "running" => at[q].key \in Keys \ {k}
  <2> SUFFICES ASSUME NEW q \in Requests, q # r, at[q].pc = "running"
               PROVE  at[q].key \in Keys /\ at[q].key # k
    OBVIOUS
  <2>1. at[q].key \in Keys /\ inflight[at[q].key] = at[q].call
    BY DEF IInv, PlacesSound, ListedSound, Holding
  <2>2. at[q].call # at[r].call
    BY DEF IInv, OneOwner, Remove
  <2> QED BY <2>1, <2>2, <1>4
<1>9. \A q \in Requests : at'[q].pc = "running" => q # r
  BY <1>1, <1>3
<1>10. ListedSound'
  <2>1. \A q \in Requests : at'[q].pc = "running" => inflight'[at'[q].key] = at'[q].call
    BY <1>3, <1>5, <1>8, <1>9 DEF IInv, ListedSound
  <2>2. ASSUME NEW l \in Keys, inflight'[l] # Null
        PROVE  \E q \in Requests : at'[q].pc = "running" /\ at'[q].key = l /\ at'[q].call = inflight'[l]
    <3>1. l # k /\ inflight'[l] = inflight[l]
      BY <2>2, <1>5
    <3>2. PICK q \in Requests : at[q].pc = "running" /\ at[q].key = l /\ at[q].call = inflight[l]
      BY <2>2, <3>1, ListedCall
    <3> QED BY <3>1, <3>2, <1>3, <1>4
  <2> QED BY <2>1, <2>2 DEF ListedSound
<1>11. OneOwner'
  BY <1>3, <1>9 DEF IInv, OneOwner
<1>12. BusyOwned'
  <2> SUFFICES ASSUME NEW d \in Calls, Busy(d)'
               PROVE  \E q \in Requests : at'[q].pc = "running" /\ at'[q].call = d
    BY DEF BusyOwned
  <2>1. Busy(d) /\ d # c
    BY <1>4, <1>5 DEF Busy, Working
  <2>2. PICK q \in Requests : at[q].pc = "running" /\ at[q].call = d
    BY <2>1 DEF IInv, BusyOwned
  <2> QED BY <2>1, <2>2, <1>3, <1>4
<1>13. ItemsFound'
  BY <1>5 DEF IInv, ItemsFound
<1> QED BY <1>6, <1>7, <1>10, <1>11, <1>12, <1>13 DEF IInv

LEMMA LeaveInv == ASSUME IInv, NEW r \in Requests, Leave(r) PROVE IInv'
<1>0. Shape /\ at[r].pc = "back"
  BY DEF IInv, Leave
<1>1. Out \in Place /\ Out.pc = "out" /\ Out.call = Null
  BY DEF Out, Place
<1>2. /\ at' \in [Requests -> Place] /\ at'[r] = Out
      /\ \A q \in Requests : q # r => at'[q] = at[q]
  BY <1>0, <1>1, Moved DEF Leave
<1>3. live' = live /\ due' = due /\ inflight' = inflight
  BY DEF Leave
<1>4. call' \in [Workers -> Call]
      /\ \A w \in Workers : call'[w] = call[w] \/ call'[w] = NoCall
  BY <1>0, NoCallTyped DEF Leave, Shape
<1>5. ASSUME NEW q \in Requests, q # r, at[q].call \in Calls
      PROVE  call'[at[q].call] = call[at[q].call]
  <2>1. at[q].call \in Workers
    BY <1>5, Unshared
  <2> QED BY <1>5, <2>1 DEF Leave
<1>6. Shape'
  BY <1>0, <1>2, <1>3, <1>4 DEF Shape
<1>7. PlacesSound'
  <2> SUFFICES ASSUME NEW q \in Requests
               PROVE  /\ at'[q].pc = "out" => at'[q].call = Null
                      /\ Holding(q)' => /\ at'[q].call \in Calls /\ at'[q].key \in Keys
                                        /\ call'[at'[q].call].key = at'[q].key
                                        /\ call'[at'[q].call].step # "free"
                      /\ at'[q].pc = "back" /\ at'[q].call # Null => call'[at'[q].call].step = "done"
    BY DEF PlacesSound
  <2>1. CASE q = r
    BY <2>1, <1>1, <1>2 DEF Holding
  <2>2. CASE q # r
    <3>1. at'[q] = at[q] /\ at[q].call \in Calls \cup {Null}
      BY <2>2, <1>0, <1>2, Typed
    <3> QED BY <2>2, <3>1, <1>5 DEF IInv, PlacesSound, Holding
  <2> QED BY <2>1, <2>2
<1>8. ListedSound' /\ OneOwner'
  <2>1. \A q \in Requests : at'[q].pc = "running" => q # r
    BY <1>1, <1>2
  <2>2. \A q \in Requests : at[q].pc = "running" => q # r
    BY <1>0
  <2> QED BY <2>1, <2>2, <1>2, <1>3 DEF IInv, ListedSound, OneOwner
<1>9. BusyOwned'
  <2> SUFFICES ASSUME NEW d \in Calls, Busy(d)'
               PROVE  \E q \in Requests : at'[q].pc = "running" /\ at'[q].call = d
    BY DEF BusyOwned
  <2>1. Busy(d)
    BY <1>4, NoCallTyped, Unshared DEF Busy, Working
  <2>2. PICK q \in Requests : at[q].pc = "running" /\ at[q].call = d
    BY <2>1 DEF IInv, BusyOwned
  <2> QED BY <2>2, <1>0, <1>2
<1>10. ItemsFound'
  BY <1>4, NoCallTyped DEF IInv, ItemsFound, HasItem
<1> QED BY <1>6, <1>7, <1>8, <1>9, <1>10 DEF IInv

-----------------------------------------------------------------------------
(* What a step of a bridge at work may do: it changes its own call, may ask  *)
(* for a scan, and goes on to hand out an item only with one.                *)
Steps(w, u) ==
    /\ Busy(w) /\ UNCHANGED <<live, inflight, at>> /\ due' \in [Keys -> BOOLEAN]
    /\ u \in Call /\ u.key = call[w].key /\ u.step # "free" /\ call' = [call EXCEPT ![w] = u]
    /\ HasItem(u) => u.item # 0

LEMMA AtStep ==
    ASSUME Shape, NEW w \in Workers, NEW s \in Working
    PROVE  /\ [call[w] EXCEPT !.step = s] \in Call
           /\ [call[w] EXCEPT !.step = s].step = s
           /\ [call[w] EXCEPT !.step = s].key = call[w].key
           /\ [call[w] EXCEPT !.step = s].item = call[w].item
<1>1. call[w] \in Call
  BY DEF Shape
<1> QED BY <1>1 DEF Call

LEMMA ScanSteps ==
    ASSUME Shape, NEW w \in Workers, call[w].key \in Keys, Scan(w)
    PROVE  \E u : Steps(w, u)
<1> DEFINE u == [call[w] EXCEPT !.step = "find"]
<1>1. u \in Call /\ u.step = "find" /\ u.key = call[w].key
  BY AtStep DEF Working
<1>2. call' = [call EXCEPT ![w] = u] /\ Busy(w) /\ UNCHANGED <<live, inflight, at>>
  BY DEF Scan, Proceed, Busy, Working
<1>3. due' \in [Keys -> BOOLEAN]
  BY DEF Scan, Shape
<1> HIDE DEF u
<1> QED BY <1>1, <1>2, <1>3 DEF Steps, HasItem

(* Looking the file's item up, for the first time or after the recovery. *)
LEMMA FoundSteps ==
    ASSUME Shape, NEW w \in Workers, call[w].key \in Keys, Busy(w), NEW s \in {"verify", "source"},
           Found(w, s), UNCHANGED <<live, due, inflight, at>>
    PROVE  \E u : Steps(w, u)
<1> DEFINE u == [call[w] EXCEPT !.step = s, !.item = live[call[w].key]]
<1>1. u \in Call /\ u.step = s /\ u.key = call[w].key /\ u.item = live[call[w].key]
  <2>1. call[w] \in Call /\ live[call[w].key] \in Items
    BY DEF Shape
  <2> QED BY <2>1 DEF Call, Working
<1>2. call' = [call EXCEPT ![w] = u] /\ live[call[w].key] # 0
  BY DEF Found
<1> HIDE DEF u
<1> QED BY <1>1, <1>2 DEF Steps, Shape

LEMMA FindSteps ==
    ASSUME Shape, NEW w \in Workers, call[w].key \in Keys, Find(w)
    PROVE  \E u : Steps(w, u)
  BY FoundSteps DEF Find, Busy, Working

LEMMA PollSteps ==
    ASSUME Shape, NEW w \in Workers, call[w].key \in Keys, Poll(w)
    PROVE  \E u : Steps(w, u)
  BY FoundSteps DEF Poll, Busy, Working

LEMMA VerifySteps ==
    ASSUME Shape, ItemsFound, NEW w \in Workers, call[w].key \in Keys, Verify(w)
    PROVE  \E u : Steps(w, u)
<1> DEFINE u(s) == [call[w] EXCEPT !.step = s]
<1>1. \A s \in Working : u(s) \in Call /\ u(s).step = s /\ u(s).key = call[w].key /\ u(s).item = call[w].item
  BY AtStep
<1>2. /\ Busy(w) /\ UNCHANGED <<live, inflight, at>> /\ {"source", "poll"} \subseteq Working
      /\ call[w].item # 0
  BY DEF Verify, Busy, Working, ItemsFound, HasItem
<1>3. due' \in [Keys -> BOOLEAN]
  BY DEF Verify, Shape
<1>4. \E s \in {"source", "poll"} : call' = [call EXCEPT ![w] = u(s)]
  BY DEF Verify, Proceed
<1> HIDE DEF u
<1>5. PICK s \in {"source", "poll"} : call' = [call EXCEPT ![w] = u(s)]
  BY <1>4
<1>6. Steps(w, u(s))
  BY <1>1, <1>2, <1>3, <1>5 DEF Steps
<1> QED BY <1>6

LEMMA SourceSteps ==
    ASSUME Shape, ItemsFound, NEW w \in Workers, call[w].key \in Keys, Source(w)
    PROVE  \E u : Steps(w, u)
<1>1. PICK b \in BOOLEAN :
          call' = [call EXCEPT ![w] = [call[w] EXCEPT !.step = "done", !.pinned = b]]
  BY DEF Source
<1> DEFINE u == [call[w] EXCEPT !.step = "done", !.pinned = b]
<1>2. u \in Call /\ u.step = "done" /\ u.key = call[w].key /\ u.item = call[w].item
  <2>1. call[w] \in Call
    BY DEF Shape
  <2> QED BY <2>1 DEF Call
<1>3. call' = [call EXCEPT ![w] = u] /\ Busy(w) /\ call[w].item # 0
  BY <1>1 DEF Source, Busy, Working, ItemsFound, HasItem
<1> HIDE DEF u
<1> QED BY <1>2, <1>3 DEF Steps, Source, Shape

LEMMA BreakSteps ==
    ASSUME Shape, NEW w \in Workers, call[w].key \in Keys, Break(w)
    PROVE  \E u : Steps(w, u)
<1>1. PICK e \in BridgeErrors :
          call' = [call EXCEPT ![w] = [call[w] EXCEPT !.step = "done", !.item = 0, !.err = e]]
  BY DEF Break
<1> DEFINE u == [call[w] EXCEPT !.step = "done", !.item = 0, !.err = e]
<1>2. u \in Call /\ u.step = "done" /\ u.key = call[w].key /\ u.err = e
  <2>1. call[w] \in Call /\ 0 \in Items
    BY MaxItemAssumption DEF Shape, Items
  <2> QED BY <2>1 DEF Call
<1>3. call' = [call EXCEPT ![w] = u] /\ Busy(w)
  BY <1>1 DEF Break, Busy
<1>4. e # "none"
  BY BridgeErrorsAssumption
<1> HIDE DEF u
<1> QED BY <1>2, <1>3, <1>4 DEF Steps, Break, Shape, HasItem

LEMMA StepsInv ==
    ASSUME IInv, NEW w \in Workers, NEW u, Steps(w, u)
    PROVE  IInv'
<1>0. Shape
  BY DEF IInv
<1>1. /\ call' \in [Workers -> Call] /\ inflight' = inflight /\ at' = at
      /\ \A v \in Workers : v # w => call'[v] = call[v]
      /\ call'[w] = u /\ u.key = call[w].key /\ Busy(w)
  BY <1>0 DEF Steps, Shape
<1>2. Shape'
  BY <1>0, <1>1 DEF Steps, Shape
<1>3. \A v \in Workers : call'[v].key = call[v].key /\ (Busy(v)' => Busy(v))
  BY <1>1 DEF Busy
<1>4. \A v \in Workers : /\ call[v].step = "done" => call'[v].step = "done"
                         /\ call[v].step # "free" => call'[v].step # "free"
  BY <1>1 DEF Busy, Working, Steps
<1>5. PlacesSound'
  <2> SUFFICES ASSUME NEW q \in Requests
               PROVE  /\ at[q].pc = "out" => at[q].call = Null
                      /\ Holding(q) => /\ at[q].call \in Calls /\ at[q].key \in Keys
                                       /\ call'[at[q].call].key = at[q].key
                                       /\ call'[at[q].call].step # "free"
                      /\ at[q].pc = "back" /\ at[q].call # Null => call'[at[q].call].step = "done"
    BY <1>1 DEF PlacesSound, Holding
  <2>1. at[q].call \in Calls \cup {Null}
    BY <1>0, Typed
  <2> QED BY <2>1, <1>3, <1>4, Unshared DEF IInv, PlacesSound
<1>6. ListedSound' /\ OneOwner'
  BY <1>1 DEF IInv, ListedSound, OneOwner
<1>7. BusyOwned'
  BY <1>1, <1>3, Unshared DEF IInv, BusyOwned
<1>8. ItemsFound'
  BY <1>1 DEF IInv, ItemsFound, Steps
<1> QED BY <1>2, <1>5, <1>6, <1>7, <1>8 DEF IInv

LEMMA BridgeSteps == ASSUME IInv, NEW c \in Calls, Bridge(c) PROVE \E u : Steps(c, u)
<1>1. Shape /\ ItemsFound /\ c \in Workers /\ Busy(c)
  BY Unshared DEF IInv, Bridge, Remote, Scan, Find, Verify, Poll, Source, Break, Busy, Working
<1>2. call[c].key \in Keys
  BY <1>1, BusyListed
<1> QED BY <1>1, <1>2, ScanSteps, FindSteps, VerifySteps, PollSteps, SourceSteps, BreakSteps DEF Bridge, Remote

-----------------------------------------------------------------------------
(* The mirror *)

LEMMA MirrorSteps ==
    ASSUME IInv, MirrorsSound, NEW m \in Mirrors, Remote(m)
    PROVE  \E u : Steps(m, u)
<1>1. Shape /\ ItemsFound /\ m \in Workers /\ Busy(m)
  BY DEF IInv, Workers, Remote, Scan, Find, Verify, Poll, Busy, Working
<1>2. call[m].key \in Keys
  BY <1>1 DEF MirrorsSound
<1> QED BY <1>1, <1>2, ScanSteps, FindSteps, VerifySteps, PollSteps DEF Remote

(* What the mirror starts and ends is not a call of any request. *)
MirrorTurns(m, u) ==
    /\ u \in Call /\ (u.step = "scan" => u.key \in Keys) /\ u.step \in {"free", "scan"}
    /\ call' = [call EXCEPT ![m] = u] /\ UNCHANGED <<live, due, inflight, at>>

LEMMA MirrorStartTurns == ASSUME NEW m \in Mirrors, NEW k \in Keys, MirrorStart(m, k)
                          PROVE  \E u : MirrorTurns(m, u)
<1> DEFINE u == [NoCall EXCEPT !.step = "scan", !.key = k]
<1>1. u \in Call /\ u.step = "scan" /\ u.key = k
  BY StartedCall
<1>2. call' = [call EXCEPT ![m] = u]
  BY DEF MirrorStart
<1> HIDE DEF u
<1> QED BY <1>1, <1>2 DEF MirrorStart, MirrorTurns

LEMMA MirrorEndTurns == ASSUME NEW m \in Mirrors, MirrorEnd(m) PROVE \E u : MirrorTurns(m, u)
  BY NoCallTyped DEF MirrorEnd, MirrorTurns

LEMMA TurnsInv == ASSUME IInv, NEW m \in Mirrors, NEW u, MirrorTurns(m, u) PROVE IInv'
<1>1. /\ Shape /\ call' \in [Workers -> Call] /\ UNCHANGED <<live, due, inflight, at>>
      /\ \A c \in Calls : call'[c] = call[c]
  BY Unshared DEF IInv, Shape, MirrorTurns, Workers
<1>2. Shape'
  BY <1>1 DEF Shape
<1>3. PlacesSound'
  <2> SUFFICES ASSUME NEW q \in Requests
               PROVE  /\ at[q].pc = "out" => at[q].call = Null
                      /\ Holding(q) => /\ at[q].call \in Calls /\ at[q].key \in Keys
                                       /\ call'[at[q].call].key = at[q].key
                                       /\ call'[at[q].call].step # "free"
                      /\ at[q].pc = "back" /\ at[q].call # Null => call'[at[q].call].step = "done"
    BY <1>1 DEF PlacesSound, Holding
  <2>1. at[q].call \in Calls \cup {Null}
    BY <1>1, Typed
  <2> QED BY <2>1, <1>1 DEF IInv, PlacesSound
<1>4. ListedSound' /\ OneOwner' /\ BusyOwned'
  BY <1>1 DEF IInv, ListedSound, OneOwner, BusyOwned, Busy
<1>5. ItemsFound'
  <2>1. \A w \in Workers : call'[w] = call[w] \/ call'[w].step \in {"free", "scan"}
    BY <1>1 DEF MirrorTurns, Shape, Workers
  <2> QED BY <2>1 DEF IInv, ItemsFound, HasItem
<1> QED BY <1>2, <1>3, <1>4, <1>5 DEF IInv

(* The media server's scans touch no call and no request. *)
LEMMA RescanInv == ASSUME IInv, MirrorsSound, NEW k \in Keys, Rescan(k) PROVE IInv' /\ MirrorsSound'
<1>1. UNCHANGED <<inflight, call, at>> /\ due' \in [Keys -> BOOLEAN]
  BY DEF Rescan, IInv, Shape
<1>2. live' \in [Keys -> Items]
  BY MaxItemAssumption DEF Rescan, IInv, Shape, Items
<1>3. Shape'
  BY <1>1, <1>2 DEF IInv, Shape
<1>4. PlacesSound' /\ ListedSound' /\ OneOwner' /\ BusyOwned' /\ ItemsFound' /\ MirrorsSound'
  BY <1>1 DEF IInv, PlacesSound, ListedSound, OneOwner, BusyOwned, ItemsFound, MirrorsSound,
              Busy, Holding
<1> QED BY <1>3, <1>4 DEF IInv

LEMMA EnterInv == ASSUME IInv, NEW r \in Requests, NEW k \in Keys, Enter(r, k) PROVE IInv'
  BY WaitForInv, RegisterInv DEF Enter

(* Requests and their bridges leave the mirror's work alone. *)
LEMMA OthersKeepMirrors ==
    ASSUME IInv, MirrorsSound,
           \/ \E r \in Requests :
                 \/ \E k \in Keys : Enter(r, k)
                 \/ Take(r) \/ Cancel(r) \/ Remove(r) \/ Leave(r)
           \/ \E c \in Calls : Bridge(c)
    PROVE  MirrorsSound'
<1> SUFFICES ASSUME NEW m \in Mirrors, Busy(m)' PROVE call'[m].key \in Keys
  BY DEF MirrorsSound
<1>0. m \in Workers /\ call \in [Workers -> Call]
  BY DEF Workers, IInv, Shape
<1>1. call'[m] = call[m] \/ call'[m] = NoCall
  <2>1. ASSUME NEW r \in Requests, NEW k \in Keys, Enter(r, k) PROVE call'[m] = call[m]
    <3>1. CASE WaitFor(r, k)
      BY <3>1 DEF WaitFor
    <3>2. ASSUME NEW c \in Calls, Register(r, k, c) PROVE call'[m] = call[m]
      BY <3>2, <1>0, Unshared DEF Register
    <3> QED BY <2>1, <3>1, <3>2 DEF Enter
  <2>2. ASSUME NEW r \in Requests, Take(r) \/ Cancel(r) \/ Remove(r) PROVE call'[m] = call[m]
    BY <2>2 DEF Take, Cancel, Remove
  <2>3. ASSUME NEW r \in Requests, Leave(r) PROVE call'[m] = call[m] \/ call'[m] = NoCall
    BY <2>3, <1>0 DEF Leave
  <2>4. ASSUME NEW c \in Calls, Bridge(c) PROVE call'[m] = call[m]
    <3>1. PICK u : Steps(c, u)
      BY <2>4, BridgeSteps
    <3> QED BY <3>1, <1>0, Unshared DEF Steps
  <2> QED BY <2>1, <2>2, <2>3, <2>4
<1> QED BY <1>0, <1>1, NoCallTyped DEF MirrorsSound, Busy, Working

LEMMA MirrorInv == ASSUME IInv, MirrorsSound, Mirror PROVE IInv' /\ MirrorsSound'
<1>0. Mirrors \subseteq Workers /\ call \in [Workers -> Call]
  BY DEF Workers, IInv, Shape
<1>1. PICK m, u : m \in Mirrors /\ (Steps(m, u) \/ MirrorTurns(m, u))
  <2>1. PICK m \in Mirrors : Remote(m) \/ MirrorEnd(m) \/ \E k \in Keys : MirrorStart(m, k)
    BY DEF Mirror
  <2> QED BY <2>1, MirrorSteps, MirrorStartTurns, MirrorEndTurns
<1>2. IInv'
  BY <1>0, <1>1, StepsInv, TurnsInv
<1>3. \A v \in Workers : v # m => call'[v] = call[v]
  BY <1>0, <1>1 DEF Steps, MirrorTurns
<1>4. Busy(m)' => call'[m].key \in Keys
  <2>1. call'[m] = u
    BY <1>0, <1>1 DEF Steps, MirrorTurns
  <2> QED BY <2>1, <1>1 DEF Steps, MirrorTurns, MirrorsSound, Busy, Working
<1> QED BY <1>0, <1>2, <1>3, <1>4 DEF MirrorsSound, Busy

LEMMA NextInv == ASSUME IInv, MirrorsSound, [Next]_bridgeVars PROVE IInv' /\ MirrorsSound'
<1>1. CASE UNCHANGED bridgeVars
  BY <1>1 DEF bridgeVars, IInv, Shape, PlacesSound, ListedSound, OneOwner, BusyOwned,
              ItemsFound, MirrorsSound, Busy, Holding
<1>2. CASE Mirror
  BY <1>2, MirrorInv
<1>3. ASSUME NEW r \in Requests,
             (\E k \in Keys : Enter(r, k)) \/ Take(r) \/ Cancel(r) \/ Remove(r) \/ Leave(r)
      PROVE  IInv' /\ MirrorsSound'
  BY <1>3, EnterInv, TakeInv, CancelInv, RemoveInv, LeaveInv, OthersKeepMirrors
<1>4. ASSUME NEW c \in Calls, Bridge(c) PROVE IInv' /\ MirrorsSound'
  <2>1. PICK u : Steps(c, u)
    BY <1>4, BridgeSteps
  <2> QED BY <1>4, <2>1, StepsInv, OthersKeepMirrors, Unshared
<1> QED BY <1>1, <1>2, <1>3, <1>4, RescanInv DEF Next

LEMMA InvHolds == SafeSpec => [](IInv /\ MirrorsSound)
<1>1. BridgeInit => IInv /\ MirrorsSound
  <2> SUFFICES ASSUME BridgeInit PROVE MirrorsSound
    BY InitInv
  <2> QED BY NoCallTyped DEF BridgeInit, MirrorsSound, Busy, Working, Workers
<1>2. IInv /\ MirrorsSound /\ [Next]_bridgeVars => (IInv /\ MirrorsSound)'
  BY NextInv
<1> QED BY <1>1, <1>2, PTL DEF SafeSpec

(* The state stays well formed, and a bridge that ended without an error has *)
(* an item to serve.                                                         *)
THEOREM BridgeTyped == SafeSpec => []TypeOK
<1>1. IInv => TypeOK
  BY DEF IInv, Shape, ItemsFound, HasItem, TypeOK
<1> QED BY <1>1, InvHolds, PTL

(* However many requests come for a key, one bridge at a time runs for it. *)
THEOREM OneBridge == SafeSpec => []OneBridgePerKey
  BY OneBridgeInv, InvHolds, PTL

-----------------------------------------------------------------------------
(* The bridge implements the single-flight group *)

(* A client whose place and call stay the same sees no change. *)
LEMMA SameClient ==
    ASSUME IInv, NEW q \in Requests, at'[q] = at[q],
           at[q].call # Null => call'[at[q].call] = call[at[q].call]
    PROVE  Want'[q] = Want[q] /\ Got'[q] = Got[q]
<1>1. Holding(q) => at[q].call # Null
  BY Unshared DEF IInv, PlacesSound
<1> QED BY <1>1 DEF Want, Got, Done, Outcome, Result, Holding

LEMMA SameKey ==
    ASSUME NEW k \in Keys, inflight'[k] = inflight[k],
           inflight[k] # Null => call'[inflight[k]] = call[inflight[k]]
    PROVE  (k \in BusyKeys' <=> k \in BusyKeys) /\ Listed'[k] = Listed[k]
  BY DEF BusyKeys, Listed, Result

(* A step that ends no call and moves nobody is not seen by the group. *)
LEMMA Unseen ==
    ASSUME IInv, at' = at, inflight' = inflight,
           \A c \in Calls : \/ call'[c] = call[c]
                            \/ call[c].step # "done" /\ call'[c].step # "done"
    PROVE  UNCHANGED <<BusyKeys, Listed, Want, Got>>
<1>1. ASSUME NEW k \in Keys PROVE (k \in BusyKeys' <=> k \in BusyKeys) /\ Listed'[k] = Listed[k]
  <2>1. inflight[k] \in Calls \cup {Null}
    BY DEF IInv, Shape
  <2> QED BY <2>1 DEF BusyKeys, Listed, Result
<1>2. ASSUME NEW q \in Requests PROVE Want'[q] = Want[q] /\ Got'[q] = Got[q]
  <2>1. at[q].call \in Calls \cup {Null}
    BY Typed DEF IInv
  <2>2. CASE at[q].call # Null => call'[at[q].call] = call[at[q].call]
    BY <2>2, SameClient
  <2>3. CASE at[q].call \in Calls /\ call[at[q].call].step # "done"
                                  /\ call'[at[q].call].step # "done"
    <3>1. Holding(q) /\ at[q].key # Null
      <4>1. at[q].pc \in {"out", "waiting", "running", "back"}
        BY Typed DEF IInv
      <4>2. Holding(q)
        BY <2>3, <4>1, Unshared DEF IInv, PlacesSound, Holding
      <4> QED BY <4>2, NullAssumption DEF IInv, PlacesSound
    <3> QED BY <2>3, <3>1 DEF Want, Got, Done, Holding
  <2> QED BY <2>1, <2>2, <2>3
<1>3. BusyKeys' = BusyKeys
  BY <1>1 DEF BusyKeys
<1>4. Listed' = Listed
  BY <1>1 DEF Listed
<1>5. Want' = Want /\ Got' = Got
  BY <1>2 DEF Want, Got
<1> QED BY <1>3, <1>4, <1>5

(* The keys are the same to the group when what is listed is. *)
LEMMA SameKeys ==
    ASSUME IInv, inflight' = inflight,
           \A k \in Keys : inflight[k] # Null => call'[inflight[k]] = call[inflight[k]]
    PROVE  BusyKeys' = BusyKeys /\ Listed' = Listed
<1>1. \A k \in Keys : (k \in BusyKeys' <=> k \in BusyKeys) /\ Listed'[k] = Listed[k]
  BY SameKey
<1>2. BusyKeys' = BusyKeys
  BY <1>1 DEF BusyKeys
<1>3. Listed' = Listed
  BY <1>1 DEF Listed
<1> QED BY <1>2, <1>3

LEMMA ResultTyped == ASSUME Shape, NEW c \in Calls PROVE Result(c) \in Results /\ Result(c) # Null
<1>1. Result(c) \in Results
  BY Typed, Unshared DEF Result, Results
<1> QED BY <1>1, ResultsAssumption

(* A function on requests after a step that changes one of them. *)
LEMMA OneChanged ==
    ASSUME NEW F, NEW G, F = [q \in Requests |-> F[q]], G = [q \in Requests |-> G[q]],
           NEW r \in Requests, \A q \in Requests : q # r => G[q] = F[q]
    PROVE  G = [F EXCEPT ![r] = G[r]] /\ (G[r] = F[r] => G = F)
<1>1. [F EXCEPT ![r] = G[r]] = [q \in Requests |-> IF q = r THEN G[r] ELSE F[q]]
  OBVIOUS
<1>2. \A q \in Requests : G[q] = IF q = r THEN G[r] ELSE F[q]
  OBVIOUS
<1> QED BY <1>1, <1>2

LEMMA ClientFunctions ==
    /\ Want = [q \in Requests |-> Want[q]] /\ Got = [q \in Requests |-> Got[q]]
    /\ Want' = [q \in Requests |-> Want'[q]] /\ Got' = [q \in Requests |-> Got'[q]]
  BY DEF Want, Got

(* A request asks: it starts the work, joins it or finds its result listed. *)
LEMMA WaitForMaps ==
    ASSUME IInv, NEW r \in Requests, NEW k \in Keys, at[r].pc = "out",
           inflight[k] # Null, WaitFor(r, k)
    PROVE  Group!Join(r, k) \/ Group!JoinLate(r, k)
<1> DEFINE c == inflight[k]
<1>1. c \in Calls /\ c # Null /\ k # Null
  BY ListedCall, NullAssumption
<1>2. /\ at'[r] = [pc |-> "waiting", key |-> k, call |-> c]
      /\ \A q \in Requests : q # r => at'[q] = at[q]
      /\ inflight' = inflight /\ call' = call
  BY DEF WaitFor, IInv, Shape
<1>3. BusyKeys' = BusyKeys /\ Listed' = Listed
  BY <1>2, SameKeys
<1>4. \A q \in Requests : q # r => Want'[q] = Want[q] /\ Got'[q] = Got[q]
  BY <1>2, SameClient
<1>5. Want[r] = Null /\ Got[r] = Null
  BY DEF Want, Got
<1>6. CASE call[c].step # "done"
  <2>1. Want'[r] = k /\ Got'[r] = Null
    BY <1>1, <1>2, <1>6 DEF Want, Got, Done
  <2>2. Want' = [Want EXCEPT ![r] = k] /\ Got' = Got
    BY <1>4, <1>5, <2>1, OneChanged, ClientFunctions
  <2>3. k \in BusyKeys
    BY <1>6 DEF BusyKeys
  <2> QED BY <1>3, <1>5, <2>2, <2>3 DEF Group!Join, Group!Unengaged
<1>7. CASE call[c].step = "done"
  <2>1. Listed[k] = Result(c) /\ Listed[k] # Null
    BY <1>1, <1>7, ResultTyped DEF Listed, BusyKeys, IInv
  <2>2. Want'[r] = Null /\ Got'[r] = Result(c)
    BY <1>1, <1>2, <1>7 DEF Want, Got, Done, Outcome, Result
  <2>3. Want' = Want /\ Got' = [Got EXCEPT ![r] = Listed[k]]
    BY <1>4, <1>5, <2>1, <2>2, OneChanged, ClientFunctions
  <2> QED BY <1>3, <1>5, <2>1, <2>3 DEF Group!JoinLate, Group!Unengaged
<1> QED BY <1>6, <1>7

LEMMA RegisterMaps ==
    ASSUME IInv, NEW r \in Requests, NEW k \in Keys, NEW c \in Calls, at[r].pc = "out",
           inflight[k] = Null, Register(r, k, c)
    PROVE  Group!Start(r, k)
<1>1. c # Null /\ c \in Workers /\ k # Null
  BY Unshared, NullAssumption
<1>2. /\ at'[r] = [pc |-> "running", key |-> k, call |-> c]
      /\ \A q \in Requests : q # r => at'[q] = at[q]
      /\ inflight' = [inflight EXCEPT ![k] = c] /\ inflight'[k] = c
      /\ \A q \in Requests : at[q].call # c
  BY DEF Register, Fresh, IInv, Shape
<1>3. call'[c].step = "scan" /\ \A d \in Calls : d # c => call'[d] = call[d]
  <2> DEFINE u == [NoCall EXCEPT !.step = "scan", !.key = k]
  <2>1. u.step = "scan"
    BY StartedCall
  <2>2. call' = [call EXCEPT ![c] = u]
    BY DEF Register
  <2> HIDE DEF u
  <2> QED BY <1>1, <2>1, <2>2, Unshared DEF IInv, Shape
<1>4. \A q \in Requests : q # r => Want'[q] = Want[q] /\ Got'[q] = Got[q]
  <2> SUFFICES ASSUME NEW q \in Requests, q # r PROVE Want'[q] = Want[q] /\ Got'[q] = Got[q]
    OBVIOUS
  <2>1. at[q].call \in Calls \cup {Null} /\ at[q].call # c
    BY <1>2, Typed DEF IInv
  <2> QED BY <1>2, <1>3, <2>1, SameClient
<1>5. Want[r] = Null /\ Got[r] = Null /\ Want'[r] = k /\ Got'[r] = Null
  BY <1>1, <1>2, <1>3 DEF Want, Got, Done
<1>6. Want' = [Want EXCEPT ![r] = k] /\ Got' = Got
  BY <1>4, <1>5, OneChanged, ClientFunctions
<1>7. \A l \in Keys : l # k => (l \in BusyKeys' <=> l \in BusyKeys) /\ Listed'[l] = Listed[l]
  <2> SUFFICES ASSUME NEW l \in Keys, l # k
               PROVE  (l \in BusyKeys' <=> l \in BusyKeys) /\ Listed'[l] = Listed[l]
    OBVIOUS
  <2>1. inflight'[l] = inflight[l]
    BY <1>2 DEF IInv, Shape
  <2>2. inflight[l] # Null => inflight[l] \in Calls /\ inflight[l] # c
    BY <1>2, ListedCall
  <2> QED BY <1>3, <2>1, <2>2, SameKey
<1>8. k \notin BusyKeys /\ Listed[k] = Null /\ k \in BusyKeys' /\ Listed'[k] = Null
  BY <1>1, <1>2, <1>3 DEF BusyKeys, Listed
<1>9. BusyKeys' = BusyKeys \cup {k}
  BY <1>7, <1>8 DEF BusyKeys
<1>10. Listed' = Listed
  BY <1>7, <1>8 DEF Listed
<1> QED BY <1>5, <1>6, <1>8, <1>9, <1>10 DEF Group!Start, Group!Unengaged

LEMMA TakeMaps == ASSUME IInv, NEW r \in Requests, Take(r)
                  PROVE  UNCHANGED <<BusyKeys, Listed, Want, Got>>
<1>1. /\ at'[r].pc = "back" /\ at'[r].call = at[r].call
      /\ \A q \in Requests : q # r => at'[q] = at[q]
      /\ inflight' = inflight /\ call' = call
  BY DEF Take, IInv, Shape, Place
<1>2. BusyKeys' = BusyKeys /\ Listed' = Listed
  BY <1>1, SameKeys
<1>3. \A q \in Requests : q # r => Want'[q] = Want[q] /\ Got'[q] = Got[q]
  BY <1>1, SameClient
<1>4. Want'[r] = Want[r] /\ Got'[r] = Got[r]
  BY <1>1 DEF Take, Want, Got, Done, Outcome, Result
<1> QED BY <1>2, <1>3, <1>4, OneChanged, ClientFunctions

LEMMA CancelMaps == ASSUME IInv, NEW r \in Requests, Cancel(r) PROVE Group!GiveUp(r)
<1>1. /\ at'[r].pc = "back" /\ at'[r].call = Null
      /\ \A q \in Requests : q # r => at'[q] = at[q]
      /\ inflight' = inflight /\ call' = call
  BY DEF Cancel, IInv, Shape, Place
<1>2. BusyKeys' = BusyKeys /\ Listed' = Listed
  BY <1>1, SameKeys
<1>3. \A q \in Requests : q # r => Want'[q] = Want[q] /\ Got'[q] = Got[q]
  BY <1>1, SameClient
<1>4. Want'[r] = Null /\ Got'[r] = Cancelled
  BY <1>1 DEF Want, Got, Outcome
<1>5. Want' = [Want EXCEPT ![r] = Null] /\ Got' = [Got EXCEPT ![r] = Cancelled]
  BY <1>3, <1>4, OneChanged, ClientFunctions
<1>6. ~(Want[r] = Null /\ Got[r] = Null)
  <2>1. at[r].pc = "waiting" /\ at[r].call \in Calls /\ at[r].key \in Keys
    BY DEF Cancel, IInv, PlacesSound, Holding
  <2>2. at[r].key # Null /\ at[r].call # Null /\ Result(at[r].call) # Null
    BY <2>1, NullAssumption, ResultTyped DEF IInv
  <2> QED BY <2>1, <2>2 DEF Want, Got, Outcome
<1> QED BY <1>2, <1>5, <1>6 DEF Group!GiveUp, Group!Unengaged

LEMMA RemoveMaps == ASSUME IInv, NEW r \in Requests, Remove(r)
                    PROVE  \E k \in Keys : Group!Unlist(k)
<1>1. /\ at'[r].pc = "back" /\ at'[r].call = at[r].call
      /\ \A q \in Requests : q # r => at'[q] = at[q]
  BY DEF Remove, IInv, Shape, Place
<1>2. PICK k \in Keys, c \in Calls :
          at[r].key = k /\ at[r].call = c /\ call[c].step = "done" /\ inflight[k] = c
  BY DEF Remove, IInv, PlacesSound, ListedSound, Holding
<1>3. /\ inflight'[k] = Null /\ call' = call
      /\ \A l \in Keys : l # k => inflight'[l] = inflight[l]
  BY <1>2 DEF Remove, IInv, Shape
<1>4. \A q \in Requests : q # r => Want'[q] = Want[q] /\ Got'[q] = Got[q]
  BY <1>1, <1>3, SameClient
<1>5. Want'[r] = Want[r] /\ Got'[r] = Got[r]
  BY <1>1, <1>2, <1>3 DEF Remove, Want, Got, Done, Outcome, Result
<1>6. Want' = Want /\ Got' = Got
  BY <1>4, <1>5, OneChanged, ClientFunctions
<1>7. \A l \in Keys : l # k => (l \in BusyKeys' <=> l \in BusyKeys) /\ Listed'[l] = Listed[l]
  BY <1>3, SameKey
<1>8. k \notin BusyKeys /\ k \notin BusyKeys' /\ Listed'[k] = Null
  BY <1>2, <1>3 DEF BusyKeys, Listed
<1>9. Listed[k] # Null
  <2>1. Listed[k] = Result(c)
    BY <1>2, Unshared DEF BusyKeys, Listed
  <2> QED BY <2>1, ResultTyped DEF IInv
<1>10. BusyKeys' = BusyKeys
  BY <1>7, <1>8 DEF BusyKeys
<1>11. Listed' = [Listed EXCEPT ![k] = Null]
  BY <1>7, <1>8 DEF Listed
<1> QED BY <1>6, <1>9, <1>10, <1>11 DEF Group!Unlist

LEMMA LeaveMaps == ASSUME IInv, NEW r \in Requests, Leave(r) PROVE Group!Return(r)
<1>1. /\ at'[r].pc = "out" /\ at[r].pc = "back"
      /\ \A q \in Requests : q # r => at'[q] = at[q]
      /\ inflight' = inflight
  BY DEF Leave, IInv, Shape, Out
<1>2. ASSUME NEW q \in Requests, q # r, at[q].call # Null
      PROVE  call'[at[q].call] = call[at[q].call]
  <2>1. at[q].call \in Workers
    BY <1>2, Typed, Unshared DEF IInv
  <2> QED BY <1>2, <2>1 DEF Leave
<1>3. BusyKeys' = BusyKeys /\ Listed' = Listed
  <2>1. ASSUME NEW k \in Keys, inflight[k] # Null PROVE call'[inflight[k]] = call[inflight[k]]
    <3>1. PICK q \in Requests : at[q].pc = "running" /\ at[q].call = inflight[k]
      BY <2>1, ListedCall
    <3> QED BY <1>1, <1>2, <2>1, <3>1
  <2> QED BY <1>1, <2>1, SameKeys
<1>4. \A q \in Requests : q # r => Want'[q] = Want[q] /\ Got'[q] = Got[q]
  BY <1>1, <1>2, SameClient
<1>5. Want[r] = Null /\ Want'[r] = Null /\ Got'[r] = Null
  BY <1>1 DEF Want, Got
<1>6. Want' = Want /\ Got' = [Got EXCEPT ![r] = Null]
  BY <1>4, <1>5, OneChanged, ClientFunctions
<1>7. Got[r] # Null
  <2>1. Got[r] = Outcome(r)
    BY <1>1, <1>5 DEF Got
  <2>2. at[r].call = Null \/ at[r].call \in Calls
    BY Typed DEF IInv
  <2> QED BY <2>1, <2>2, ResultTyped, ResultsAssumption DEF Outcome, IInv
<1> QED BY <1>3, <1>6, <1>7 DEF Group!Return

(* A bridge that ends finishes its key's work for everybody who holds it. *)
LEMMA StepsMaps ==
    ASSUME IInv, NEW c \in Calls, NEW u, Steps(c, u), u.step = "done"
    PROVE  \E k \in Keys, x \in Results : Group!Finish(k, x)
<1> DEFINE k == call[c].key
           x == [item |-> u.item, pinned |-> u.pinned, err |-> u.err]
<1>1. k \in Keys /\ inflight[k] = c /\ c # Null /\ c \in Workers /\ k # Null
  BY BusyListed, Unshared, NullAssumption DEF Steps
<1>2. /\ call[c].step # "done" /\ call'[c] = u /\ at' = at /\ inflight' = inflight
      /\ \A d \in Calls : d # c => call'[d] = call[d]
  BY <1>1, Unshared DEF Steps, Busy, Working, IInv, Shape
<1>3. x \in Results
  BY DEF Steps, Call, Results
<1>4. ASSUME NEW q \in Requests
      PROVE  /\ Want'[q] = IF Want[q] = k THEN Null ELSE Want[q]
             /\ Got'[q] = IF Want[q] = k THEN x ELSE Got[q]
  <2>1. at[q].call \in Calls \cup {Null}
    BY Typed DEF IInv
  <2>2. CASE at[q].call = c
    <3>1. Holding(q) /\ at[q].key = k
      <4>1. at[q].pc \in {"out", "waiting", "running", "back"}
        BY Typed DEF IInv
      <4>2. Holding(q)
        BY <1>1, <1>2, <2>2, <4>1 DEF IInv, PlacesSound, Holding
      <4> QED BY <2>2, <4>2 DEF IInv, PlacesSound
    <3>2. Want[q] = k
      BY <1>2, <2>2, <3>1 DEF Want, Done, Holding
    <3>3. Want'[q] = Null
      BY <1>2, <2>2 DEF Want, Done
    <3>4. Got'[q] = x
      BY <1>1, <1>2, <2>2, <3>1, <3>3 DEF Got, Outcome, Result, Holding
    <3> QED BY <3>2, <3>3, <3>4
  <2>3. CASE at[q].call # c
    <3>1. Want'[q] = Want[q] /\ Got'[q] = Got[q]
      BY <1>2, <2>1, <2>3, SameClient
    <3>2. Want[q] # k
      <4> SUFFICES ASSUME Want[q] = k PROVE FALSE
        OBVIOUS
      <4>1. Holding(q) /\ at[q].key = k /\ call[at[q].call].step # "done"
        BY <1>1 DEF Want, Done, Holding
      <4>2. at[q].call \in Calls /\ Busy(at[q].call) /\ call[at[q].call].key = k
        BY <4>1, Typed, Unshared DEF IInv, PlacesSound, Busy
      <4> QED BY <1>1, <2>3, <4>2, BusyListed
    <3> QED BY <3>1, <3>2
  <2> QED BY <2>2, <2>3
<1>5. Want' = [q \in Requests |-> IF Want[q] = k THEN Null ELSE Want[q]]
  BY <1>4, ClientFunctions
<1>6. Got' = [q \in Requests |-> IF Want[q] = k THEN x ELSE Got[q]]
  BY <1>4, ClientFunctions
<1>7. \A l \in Keys : l # k => (l \in BusyKeys' <=> l \in BusyKeys) /\ Listed'[l] = Listed[l]
  <2> SUFFICES ASSUME NEW l \in Keys, l # k
               PROVE  (l \in BusyKeys' <=> l \in BusyKeys) /\ Listed'[l] = Listed[l]
    OBVIOUS
  <2>1. inflight[l] # Null => inflight[l] \in Calls /\ inflight[l] # c
    BY ListedCall
  <2> QED BY <1>2, <2>1, SameKey
<1>8. k \in BusyKeys /\ k \notin BusyKeys' /\ Listed'[k] = x
  BY <1>1, <1>2 DEF BusyKeys, Listed, Result
<1>9. BusyKeys' = BusyKeys \ {k}
  BY <1>7, <1>8 DEF BusyKeys
<1>10. Listed' = [Listed EXCEPT ![k] = x]
  BY <1>7, <1>8 DEF Listed
<1>11. Group!Finish(k, x)
  BY <1>5, <1>6, <1>8, <1>9, <1>10 DEF Group!Finish
<1> QED BY <1>1, <1>3, <1>11

LEMMA NextMaps == ASSUME IInv, MirrorsSound, [Next]_bridgeVars PROVE [Group!Next]_(Group!vars)
<1> DEFINE Same == UNCHANGED <<BusyKeys, Listed, Want, Got>>
<1>s. Same => [Group!Next]_(Group!vars)
  BY DEF Group!vars
<1>1. CASE UNCHANGED bridgeVars
  <2>1. Same
    BY <1>1, Unseen DEF bridgeVars
  <2> QED BY <1>s, <2>1
<1>2. CASE Mirror
  <2>1. PICK m, u : m \in Mirrors /\ (Steps(m, u) \/ MirrorTurns(m, u))
    <3>1. PICK m \in Mirrors : Remote(m) \/ MirrorEnd(m) \/ \E k \in Keys : MirrorStart(m, k)
      BY <1>2 DEF Mirror
    <3> QED BY <3>1, MirrorSteps, MirrorStartTurns, MirrorEndTurns
  <2>2. at' = at /\ inflight' = inflight /\ \A c \in Calls : call'[c] = call[c]
    BY <2>1, Unshared DEF Steps, MirrorTurns, IInv, Shape
  <2> QED BY <1>s, <2>2, Unseen
<1>3. ASSUME NEW r \in Requests, NEW k \in Keys, Enter(r, k) PROVE [Group!Next]_(Group!vars)
  BY <1>3, WaitForMaps, RegisterMaps DEF Enter, Group!Next
<1>4. ASSUME NEW r \in Requests, Take(r) PROVE [Group!Next]_(Group!vars)
  BY <1>4, <1>s, TakeMaps
<1>5. ASSUME NEW r \in Requests, Cancel(r) \/ Remove(r) \/ Leave(r)
      PROVE  [Group!Next]_(Group!vars)
  BY <1>5, CancelMaps, RemoveMaps, LeaveMaps DEF Group!Next
<1>6. ASSUME NEW c \in Calls, Bridge(c) PROVE [Group!Next]_(Group!vars)
  <2>1. PICK u : Steps(c, u)
    BY <1>6, BridgeSteps
  <2>2. CASE u.step = "done"
    BY <2>1, <2>2, StepsMaps DEF Group!Next
  <2>3. CASE u.step # "done"
    <3>1. /\ at' = at /\ inflight' = inflight /\ call'[c] = u /\ call[c].step # "done"
          /\ \A d \in Calls : d # c => call'[d] = call[d]
      BY <2>1, Unshared DEF Steps, Busy, Working, IInv, Shape
    <3> QED BY <1>s, <2>3, <3>1, Unseen
  <2> QED BY <2>2, <2>3
<1>7. ASSUME NEW k \in Keys, Rescan(k) PROVE [Group!Next]_(Group!vars)
  <2>1. at' = at /\ inflight' = inflight /\ call' = call
    BY <1>7 DEF Rescan
  <2> QED BY <1>s, <2>1, Unseen
<1> QED BY <1>1, <1>2, <1>3, <1>4, <1>5, <1>6, <1>7 DEF Next

(* Every request of bridgeStreamKey gets the result of the one bridge that   *)
(* was running, or had just ended, when it asked; or is cancelled.           *)
THEOREM GroupImplemented == SafeSpec => SharesOneBridge
<1>1. BridgeInit => Group!Init
  <2> SUFFICES ASSUME BridgeInit PROVE Group!Init
    OBVIOUS
  <2>1. \A q \in Requests : at[q].pc = "out"
    BY DEF BridgeInit, Out
  <2>2. Want = [q \in Requests |-> Null] /\ Got = [q \in Requests |-> Null]
    BY <2>1 DEF Want, Got
  <2>3. BusyKeys = {} /\ Listed = [k \in Keys |-> Null]
    BY DEF BridgeInit, BusyKeys, Listed
  <2> QED BY <2>2, <2>3 DEF Group!Init
<1>2. IInv /\ MirrorsSound /\ [Next]_bridgeVars => [Group!Next]_(Group!vars)
  BY NextMaps
<1> QED BY <1>1, <1>2, InvHolds, PTL DEF SafeSpec, SharesOneBridge, Group!Spec

-----------------------------------------------------------------------------
(* Part two: the endpoints *)

(* A request that is not idle has a key and a kind. *)
Engaged == {j \in Job : j.key \in Keys /\ j.kind \in Kinds}
SoundJob == {j \in Job : j.pc # "idle" => j \in Engaged}

JobsSound == job \in [Requests -> SoundJob]

CacheTyped == keys \in [Keys -> Entry \cup {Null}]

(* What CacheBounded needs to be inductive: the entries can be counted. *)
CacheSound == IsFiniteSet(Held) /\ CacheBounded

JInv == JobsSound /\ CacheTyped /\ CacheSound

StreamInv == IInv /\ MirrorsSound /\ JInv

-----------------------------------------------------------------------------
(* Requests *)

LEMMA NoResolutionTyped == NoResolution \in Resolution
<1>1. 0 \in Items
  BY MaxItemAssumption DEF Items
<1> QED BY <1>1 DEF NoResolution, Resolution, Providers, Errors

LEMMA IdleSound == Idle \in SoundJob /\ Idle.pc = "idle"
<1>1. 0 \in Items
  BY MaxItemAssumption DEF Items
<1> QED BY <1>1, NoResolutionTyped DEF Idle, SoundJob, Job, Points

LEMMA JobChanged ==
    ASSUME NEW j \in Engaged, NEW p \in Points, NEW x \in Resolution, NEW i \in Items
    PROVE  /\ [j EXCEPT !.pc = p] \in Engaged
           /\ [j EXCEPT !.pc = p, !.is = x] \in Engaged
           /\ [j EXCEPT !.pc = p, !.target = i] \in Engaged
           /\ [j EXCEPT !.pc = p, !.is = x, !.target = i] \in Engaged
           /\ [j EXCEPT !.query = i] \in Engaged
<1>1. j \in Job /\ j.key \in Keys /\ j.kind \in Kinds
  BY DEF Engaged
<1>2. [j EXCEPT !.pc = p] \in Engaged
  BY <1>1 DEF Engaged, Job
<1>3. [j EXCEPT !.pc = p, !.is = x] \in Engaged
  BY <1>1 DEF Engaged, Job
<1>4. [j EXCEPT !.pc = p, !.target = i] \in Engaged
  BY <1>1 DEF Engaged, Job
<1>5. [j EXCEPT !.pc = p, !.is = x, !.target = i] \in Engaged
  BY <1>1 DEF Engaged, Job
<1>6. [j EXCEPT !.query = i] \in Engaged
  BY <1>1 DEF Engaged, Job
<1> QED BY <1>2, <1>3, <1>4, <1>5, <1>6

LEMMA EngagedSound == Engaged \subseteq SoundJob
  BY DEF Engaged, SoundJob

LEMMA ServeSound ==
    ASSUME NEW j \in Engaged, NEW x \in Resolution PROVE Serve(j, x) \in Engaged
<1>1. x.item \in Items /\ "fetch" \in Points /\ "master" \in Points
  BY DEF Resolution, Points
<1> QED BY <1>1, JobChanged DEF Serve

LEMMA RouteSound ==
    ASSUME NEW j \in Engaged, NEW x \in Resolution PROVE Route(j, x) \in Engaged
<1>1. "check" \in Points /\ x.item \in Items
  BY DEF Points, Resolution
<1>2. [j EXCEPT !.pc = "check", !.is = x] \in Engaged
  BY <1>1, JobChanged
<1> QED BY <1>2, ServeSound DEF Route

LEMMA ResolvedSound ==
    ASSUME NEW j \in Engaged, NEW x \in Resolution PROVE Resolved(j, x) \in SoundJob
<1>1. "pinQuery" \in Points /\ x.item \in Items
  BY DEF Points, Resolution
<1>2. [j EXCEPT !.pc = "pinQuery", !.is = x] \in Engaged
  BY <1>1, JobChanged
<1> QED BY <1>2, RouteSound, IdleSound, EngagedSound DEF Resolved

(* What a request's step does to the requests. *)
Moves(r) == \E j \in SoundJob : job' = [job EXCEPT ![r] = j]

LEMMA MovesSound == ASSUME JobsSound, NEW r \in Requests, Moves(r) PROVE JobsSound'
  BY DEF JobsSound, Moves

LEMMA AtWork ==
    ASSUME JobsSound, NEW r \in Requests, job[r].pc # "idle"
    PROVE  job[r] \in Engaged /\ job[r].key \in Keys /\ job[r].is \in Resolution /\ job[r].target \in Items
  BY DEF JobsSound, SoundJob, Engaged, Job

LEMMA FinishMoves == ASSUME NEW r \in Requests, Finish(r) PROVE Moves(r)
  BY IdleSound DEF Finish, Moves

LEMMA GotoMoves ==
    ASSUME JobsSound, NEW r \in Requests, job[r].pc # "idle", NEW p \in Points, Goto(r, p)
    PROVE  Moves(r)
<1>1. [job[r] EXCEPT !.pc = p] \in SoundJob
  BY AtWork, JobChanged, EngagedSound, NoResolutionTyped
<1> QED BY <1>1 DEF Goto, Moves

LEMMA WithMoves ==
    ASSUME JobsSound, NEW r \in Requests, job[r].pc # "idle", NEW p \in Points,
           NEW x \in Resolution, With(r, x, p)
    PROVE  Moves(r)
<1>1. [job[r] EXCEPT !.pc = p, !.is = x] \in SoundJob
  BY AtWork, JobChanged, EngagedSound
<1> QED BY <1>1 DEF With, Continue, Moves

LEMMA HandMoves ==
    ASSUME JobsSound, NEW r \in Requests, job[r].pc # "idle", NEW i \in Items, Hand(r, i)
    PROVE  Moves(r)
<1>1. "setQuery" \in Points
  BY DEF Points
<1>2. [job[r] EXCEPT !.pc = "setQuery", !.target = i] \in SoundJob
  BY <1>1, AtWork, JobChanged, EngagedSound
<1> QED BY <1>2, FinishMoves DEF Hand, Moves

LEMMA ServePlexMoves ==
    ASSUME JobsSound, NEW r \in Requests, job[r].pc # "idle", ServePlex(r) PROVE Moves(r)
<1>1. "fetchPlex" \in Points
  BY DEF Points
<1> QED BY <1>1, FinishMoves, GotoMoves DEF ServePlex

-----------------------------------------------------------------------------
(* The cache *)

(* A step that adds no entry keeps the limit. *)
LEMMA ShrinkSound ==
    ASSUME CacheSound, Held' \subseteq Held PROVE CacheSound'
<1>1. IsFiniteSet(Held') /\ Cardinality(Held') <= Cardinality(Held)
  BY FS_Subset DEF CacheSound
<1>2. Cardinality(Held) \in Nat /\ Cardinality(Held') \in Nat /\ MaxEntries \in Nat
  BY <1>1, FS_CardinalityType, MaxEntriesAssumption DEF CacheSound
<1> QED BY <1>1, <1>2 DEF CacheSound, CacheBounded

Shrinks == CacheTyped' /\ Held' \subseteq Held

LEMMA SameShrinks == ASSUME CacheTyped, keys' = keys PROVE Shrinks
  BY DEF CacheTyped, Shrinks, Held

LEMMA GetShrinks == ASSUME CacheTyped, NEW k \in Keys, GetLeaves(k) PROVE Shrinks
<1>1. \A l \in Keys : keys'[l] = keys[l] \/ keys'[l] = Null
  BY DEF GetLeaves, CacheTyped
<1>2. CacheTyped'
  BY DEF GetLeaves, CacheTyped
<1> QED BY <1>1, <1>2 DEF Shrinks, Held

LEMMA AmendShrinks ==
    ASSUME CacheTyped, NEW k \in Keys, NEW e, k \in Held => e \in Entry, Amend(k, e)
    PROVE  Shrinks
<1>1. \A l \in Keys : keys'[l] = IF l = k THEN (IF k \in Held THEN e ELSE Null) ELSE keys[l]
  BY DEF Amend, CacheTyped
<1>2. CacheTyped'
  BY DEF Amend, CacheTyped
<1> QED BY <1>1, <1>2 DEF Shrinks, Held

LEMMA EntryChanged ==
    ASSUME NEW e \in Entry, NEW i \in Items
    PROVE  /\ [e EXCEPT !.failed = TRUE] \in Entry
           /\ [e EXCEPT !.old = TRUE] \in Entry
           /\ [e EXCEPT !.master = i] \in Entry
           /\ [e EXCEPT !.query = i] \in Entry
           /\ [e EXCEPT !.is.source = i] \in Entry
<1>1. [e EXCEPT !.failed = TRUE] \in Entry /\ [e EXCEPT !.old = TRUE] \in Entry
  BY DEF Entry
<1>2. [e EXCEPT !.master = i] \in Entry /\ [e EXCEPT !.query = i] \in Entry
  BY DEF Entry
<1>3. [e EXCEPT !.is.source = i] \in Entry
  BY DEF Entry, Resolution
<1> QED BY <1>1, <1>2, <1>3

LEMMA HeldTyped == ASSUME CacheTyped, NEW k \in Held PROVE keys[k] \in Entry /\ k \in Keys
  BY DEF CacheTyped, Held

LEMMA NewEntryTyped == ASSUME NEW x \in Resolution PROVE NewEntry(x) \in Entry
<1>1. 0 \in Items
  BY MaxItemAssumption DEF Items
<1>2. [x EXCEPT !.source = 0] \in Resolution
  BY <1>1 DEF Resolution
<1> QED BY <1>1, <1>2 DEF NewEntry, Entry

(* set: a full map is reset, so that one more entry has room. *)
LEMMA PutSound ==
    ASSUME CacheTyped, CacheSound, NEW k \in Keys, NEW x \in Resolution, Put(k, x)
    PROVE  CacheTyped' /\ CacheSound'
<1>1. \A j \in Keys : keys'[j] = IF j = k THEN NewEntry(x)
                                 ELSE IF Cardinality(Held) >= MaxEntries THEN Null ELSE keys[j]
  BY DEF Put
<1>2. CacheTyped'
  BY NewEntryTyped DEF Put, CacheTyped
<1>3. IsFiniteSet(Held) /\ Cardinality(Held) \in Nat /\ MaxEntries \in Nat \ {0}
  BY FS_CardinalityType, MaxEntriesAssumption DEF CacheSound
<1>4. CASE Cardinality(Held) >= MaxEntries
  <2>1. Held' \subseteq {k}
    BY <1>1, <1>4 DEF Held
  <2>2. IsFiniteSet({k}) /\ Cardinality({k}) = 1
    BY FS_Singleton
  <2>3. IsFiniteSet(Held') /\ Cardinality(Held') <= 1 /\ Cardinality(Held') \in Nat
    BY <2>1, <2>2, FS_Subset, FS_CardinalityType
  <2> QED BY <1>2, <1>3, <2>3 DEF CacheSound, CacheBounded
<1>5. CASE ~(Cardinality(Held) >= MaxEntries)
  <2>1. Held' \subseteq Held \cup {k}
    BY <1>1, <1>5 DEF Held
  <2>2. /\ IsFiniteSet(Held \cup {k})
        /\ Cardinality(Held \cup {k}) = Cardinality(Held) \/ Cardinality(Held \cup {k}) = Cardinality(Held) + 1
    BY <1>3, FS_AddElement
  <2>3. IsFiniteSet(Held') /\ Cardinality(Held') <= Cardinality(Held \cup {k}) /\ Cardinality(Held') \in Nat
    BY <2>1, <2>2, FS_Subset, FS_CardinalityType
  <2> QED BY <1>2, <1>3, <1>5, <2>2, <2>3 DEF CacheSound, CacheBounded
<1> QED BY <1>4, <1>5

-----------------------------------------------------------------------------
(* The steps of a request *)

(* A step that moves a request and adds no entry. *)
LEMMA QuietSound ==
    ASSUME JInv, NEW r \in Requests, Moves(r), Shrinks PROVE JInv'
  BY MovesSound, ShrinkSound DEF JInv, Shrinks

LEMMA ArriveSound ==
    ASSUME JInv, NEW r \in Requests, NEW k \in Keys, NEW kind \in Kinds, Arrive(r, k, kind)
    PROVE  JInv'
<1> DEFINE j == [Idle EXCEPT !.pc = "lookup", !.kind = kind, !.key = k]
<1>1. j \in Engaged
  BY IdleSound DEF SoundJob, Engaged, Job, Points
<1>2. job' = [job EXCEPT ![r] = j] /\ keys' = keys
  BY DEF Arrive
<1> HIDE DEF j
<1> QED BY <1>1, <1>2, EngagedSound, SameShrinks, QuietSound DEF Moves, JInv

LEMMA LookupSound == ASSUME JInv, NEW r \in Requests, Lookup(r) PROVE JInv'
<1>1. /\ job[r].pc # "idle" /\ JobsSound /\ CacheTyped /\ job[r] \in Engaged /\ job[r].key \in Keys
      /\ "resolve" \in Points
  BY AtWork DEF Lookup, JInv, Points
<1> DEFINE k == job[r].key
<1>2. Moves(r)
  <2>1. CASE Hit(k) /\ Continue(r, Resolved(job[r], keys[k].is))
    <3>1. keys[k].is \in Resolution
      BY <2>1, <1>1, HeldTyped DEF Hit, Entry
    <3> QED BY <2>1, <3>1, <1>1, ResolvedSound DEF Continue, Moves
  <2>2. CASE Goto(r, "resolve")
    BY <2>2, <1>1, GotoMoves
  <2> QED BY <2>1, <2>2 DEF Lookup
<1>3. Shrinks
  BY <1>1, GetShrinks DEF Lookup
<1> QED BY <1>2, <1>3, QuietSound

LEMMA ResolveSound == ASSUME Shape, JInv, NEW r \in Requests, Resolve(r) PROVE JInv'
<1>1. /\ job[r].pc # "idle" /\ JobsSound /\ CacheTyped /\ job[r] \in Engaged
      /\ job[r].key \in Keys /\ "store" \in Points
  BY AtWork DEF Resolve, JInv, Points
<1>2. live[job[r].key] \in Items
  BY <1>1 DEF Shape
<1>3. Moves(r)
  <2>1. \A i \in Items : [NoResolution EXCEPT !.provider = "jellyfin", !.item = i] \in Resolution
    BY NoResolutionTyped DEF Resolution, Providers
  <2>2. [NoResolution EXCEPT !.provider = "plex"] \in Resolution
    BY NoResolutionTyped DEF Resolution, Providers
  <2>3. \A e \in ResolveErrors : [NoResolution EXCEPT !.err = e] \in Resolution
    BY NoResolutionTyped, ResolveErrorsAssumption DEF Resolution, Errors
  <2>4. PICK x \in Resolution : With(r, x, "store")
    BY <1>2, <2>1, <2>2, <2>3 DEF Resolve
  <2> QED BY <1>1, <2>4, WithMoves
<1> QED BY <1>1, <1>3, SameShrinks, QuietSound DEF Resolve

LEMMA StoreSound == ASSUME JInv, NEW r \in Requests, Store(r) PROVE JInv'
<1>1. /\ job[r].pc # "idle" /\ JobsSound /\ job[r] \in Engaged /\ job[r].key \in Keys
      /\ job[r].is \in Resolution
  BY AtWork DEF Store, JInv
<1>2. Moves(r)
  BY <1>1, ResolvedSound DEF Store, Continue, Moves
<1>3. CacheTyped' /\ CacheSound'
  BY <1>1, PutSound DEF Store, JInv
<1> QED BY <1>1, <1>2, <1>3, MovesSound DEF JInv

LEMMA PinQuerySound == ASSUME JInv, NEW r \in Requests, PinQuery(r) PROVE JInv'
<1>1. /\ job[r].pc # "idle" /\ JobsSound /\ CacheTyped /\ job[r] \in Engaged
      /\ job[r].key \in Keys /\ job[r].is \in Resolution
  BY AtWork DEF PinQuery, JInv
<1> DEFINE q == IF Hit(job[r].key) THEN keys[job[r].key].query ELSE 0
           j == [job[r] EXCEPT !.query = q]
<1>2. q \in Items
  BY <1>1, HeldTyped, MaxItemAssumption DEF Hit, Entry, Items
<1>3. job' = [job EXCEPT ![r] = Route(j, job[r].is)]
  BY DEF PinQuery, Continue
<1> HIDE DEF q
<1>4. j \in Engaged
  BY <1>1, <1>2, NoResolutionTyped, JobChanged DEF Points
<1> HIDE DEF j
<1>5. Moves(r)
  BY <1>1, <1>3, <1>4, RouteSound, EngagedSound DEF Moves
<1>6. Shrinks
  BY <1>1, GetShrinks DEF PinQuery
<1> QED BY <1>5, <1>6, QuietSound

LEMMA CheckSound == ASSUME JInv, NEW r \in Requests, Check(r) PROVE JInv'
<1>1. /\ job[r].pc # "idle" /\ JobsSound /\ CacheTyped /\ job[r] \in Engaged
      /\ job[r].key \in Keys /\ job[r].is \in Resolution /\ "bridge" \in Points
  BY AtWork DEF Check, JInv, Points
<1>2. Moves(r)
  <2>1. CASE Continue(r, Serve(job[r], job[r].is))
    BY <2>1, <1>1, ServeSound, EngagedSound DEF Continue, Moves
  <2>2. CASE ServePlex(r)
    BY <2>2, <1>1, ServePlexMoves
  <2>3. CASE Goto(r, "bridge")
    BY <2>3, <1>1, GotoMoves
  <2> QED BY <2>1, <2>2, <2>3 DEF Check
<1>3. Shrinks
  BY <1>1, GetShrinks DEF Check
<1> QED BY <1>2, <1>3, QuietSound

(* What a bridge can have ended with. *)
LEMMA OutcomeErr ==
    ASSUME Shape, NEW r \in Requests
    PROVE  Outcome(r).err \in {"none", "auth", "transient", "definitive"}
<1>1. at[r].call \in Calls \cup {Null}
  BY Typed
<1> QED BY <1>1, Typed, Unshared, BridgeErrorsAssumption DEF Outcome, Cancelled, Result

LEMMA LeaveBridgeSound == ASSUME Shape, JInv, NEW r \in Requests, LeaveBridge(r) PROVE JInv'
<1>1. /\ job[r].pc # "idle" /\ JobsSound /\ CacheTyped /\ {"set", "markFailed"} \subseteq Points
  BY DEF LeaveBridge, JInv, Points
<1>2. Outcome(r).item \in Items /\ 0 \in Items
  <2>1. at[r].call \in Calls \cup {Null}
    BY Typed
  <2> QED BY <2>1, Typed, Unshared, MaxItemAssumption DEF Outcome, Cancelled, Result, Items
<1> DEFINE x == [provider |-> "jellyfin", item |-> Outcome(r).item,
                 source |-> IF Outcome(r).pinned THEN Outcome(r).item ELSE 0, err |-> "none"]
<1>3. x \in Resolution
  BY <1>2 DEF Resolution, Providers, Errors
<1>4. /\ keys' = keys
      /\ \E e : AfterBridge(r, e) /\ (e = "none" \/ e = "auth" \/ e = "transient" \/ e = "definitive")
  BY OutcomeErr DEF LeaveBridge
<1>5. With(r, x, "set") \/ Finish(r) \/ ServePlex(r) \/ Goto(r, "markFailed")
  BY <1>4 DEF AfterBridge
<1> HIDE DEF x
<1>6. Moves(r)
  BY <1>1, <1>3, <1>5, WithMoves, FinishMoves, ServePlexMoves, GotoMoves
<1> QED BY <1>1, <1>4, <1>6, SameShrinks, QuietSound

LEMMA SetEntrySound == ASSUME JInv, NEW r \in Requests, SetEntry(r) PROVE JInv'
<1>1. /\ job[r].pc # "idle" /\ JobsSound /\ job[r].key \in Keys /\ job[r].is \in Resolution
      /\ "setSource" \in Points
  BY AtWork DEF SetEntry, JInv, Points
<1>2. Moves(r)
  BY <1>1, GotoMoves DEF SetEntry
<1>3. CacheTyped' /\ CacheSound'
  BY <1>1, PutSound DEF SetEntry, JInv
<1> QED BY <1>1, <1>2, <1>3, MovesSound DEF JInv

(* The setters of the cache. *)
LEMMA SettersSound ==
    ASSUME JInv, NEW r \in Requests, SetSource(r) \/ MarkFailed(r) \/ SetMaster(r) \/ SetQuery(r)
    PROVE  JInv'
<1>1. /\ job[r].pc # "idle" /\ JobsSound /\ CacheTyped /\ job[r] \in Engaged
      /\ job[r].key \in Keys /\ job[r].is \in Resolution /\ job[r].target \in Items
      /\ "fetch" \in Points
  BY AtWork DEF SetSource, MarkFailed, SetMaster, SetQuery, JInv, Points
<1>2. job[r].is.item \in Items /\ job[r].is.source \in Items
  BY <1>1 DEF Resolution
<1> DEFINE k == job[r].key
<1>3. ASSUME NEW e, Amend(k, e), k \in Held => e \in Entry PROVE Shrinks
  BY <1>1, <1>3, AmendShrinks
<1>4. \A i \in Items : k \in Held =>
          /\ [keys[k] EXCEPT !.failed = TRUE] \in Entry
          /\ [keys[k] EXCEPT !.master = i] \in Entry
          /\ [keys[k] EXCEPT !.query = i] \in Entry
          /\ [keys[k] EXCEPT !.is.source = i] \in Entry
  BY <1>1, HeldTyped, EntryChanged
<1>5. CASE SetSource(r)
  <2>1. Shrinks
    BY <1>2, <1>3, <1>4, <1>5 DEF SetSource
  <2>2. Moves(r)
    BY <1>1, <1>5, ServeSound, EngagedSound DEF SetSource, Continue, Moves
  <2> QED BY <2>1, <2>2, QuietSound
<1>6. CASE MarkFailed(r)
  <2>1. Shrinks
    BY <1>2, <1>3, <1>4, <1>6 DEF MarkFailed
  <2>2. Moves(r)
    BY <1>1, <1>6, ServePlexMoves DEF MarkFailed
  <2> QED BY <2>1, <2>2, QuietSound
<1>7. CASE SetMaster(r)
  <2>1. Shrinks
    BY <1>2, <1>3, <1>4, <1>7 DEF SetMaster
  <2>2. Moves(r)
    BY <1>1, <1>2, <1>7, HandMoves DEF SetMaster
  <2> QED BY <2>1, <2>2, QuietSound
<1>8. CASE SetQuery(r)
  <2>1. Shrinks
    BY <1>1, <1>3, <1>4, <1>8 DEF SetQuery
  <2>2. Moves(r)
    BY <1>1, <1>8, GotoMoves DEF SetQuery
  <2> QED BY <2>1, <2>2, QuietSound
<1> QED BY <1>5, <1>6, <1>7, <1>8

LEMMA MasterSound == ASSUME JInv, NEW r \in Requests, Master(r) PROVE JInv'
<1>1. /\ job[r].pc # "idle" /\ JobsSound /\ CacheTyped /\ job[r].key \in Keys /\ "negotiate" \in Points
  BY AtWork DEF Master, JInv, Points
<1>2. Moves(r)
  <2>1. CASE Hit(job[r].key) /\ Hand(r, keys[job[r].key].master)
    <3>1. keys[job[r].key].master \in Items
      BY <1>1, <2>1, HeldTyped DEF Hit, Entry
    <3> QED BY <1>1, <2>1, <3>1, HandMoves
  <2>2. CASE Goto(r, "negotiate")
    BY <1>1, <2>2, GotoMoves
  <2> QED BY <2>1, <2>2 DEF Master
<1>3. Shrinks
  BY <1>1, GetShrinks DEF Master
<1> QED BY <1>2, <1>3, QuietSound

LEMMA NegotiateSound == ASSUME JInv, NEW r \in Requests, Negotiate(r) PROVE JInv'
<1>1. /\ job[r].pc # "idle" /\ JobsSound /\ CacheTyped /\ job[r].is.item \in Items /\ keys' = keys
      /\ "setMaster" \in Points
  BY AtWork DEF Negotiate, JInv, Points, Resolution
<1>2. Moves(r)
  BY <1>1, HandMoves, GotoMoves DEF Negotiate
<1> QED BY <1>1, <1>2, SameShrinks, QuietSound

LEMMA FetchesSound ==
    ASSUME JInv, NEW r \in Requests, Fetch(r) \/ FetchPlex(r) \/ FetchFails(r) PROVE JInv'
<1>1. /\ job[r].pc # "idle" /\ JobsSound /\ CacheTyped /\ keys' = keys /\ "del" \in Points
  BY DEF Fetch, FetchPlex, FetchFails, JInv, Points
<1>2. Finish(r) \/ Goto(r, "del")
  BY DEF Fetch, FetchPlex, FetchFails
<1>3. Moves(r)
  BY <1>1, <1>2, FinishMoves, GotoMoves
<1> QED BY <1>1, <1>3, SameShrinks, QuietSound

LEMMA DelSound == ASSUME JInv, NEW r \in Requests, Del(r) PROVE JInv'
<1>1. CacheTyped /\ JobsSound /\ job[r].pc # "idle" /\ job[r].key \in Keys
  BY AtWork DEF Del, JInv
<1>2. Shrinks
  BY <1>1 DEF Del, Shrinks, CacheTyped, Held
<1>3. Moves(r)
  BY FinishMoves DEF Del
<1> QED BY <1>2, <1>3, QuietSound

LEMMA ExpireSound == ASSUME JInv, NEW k \in Keys, Expire(k) PROVE JInv'
<1>1. CacheTyped /\ keys[k] \in Entry /\ job' = job
  BY HeldTyped DEF Expire, Hit, JInv
<1>2. [keys[k] EXCEPT !.old = TRUE] \in Entry
  BY <1>1 DEF Entry
<1>3. keys' = [keys EXCEPT ![k] = [keys[k] EXCEPT !.old = TRUE]] /\ k \in Held
  BY DEF Expire, Hit
<1>4. Shrinks
  BY <1>1, <1>2, <1>3 DEF Shrinks, CacheTyped, Held
<1> QED BY <1>1, <1>4, ShrinkSound DEF JInv, Shrinks, JobsSound

LEMMA HandleSound == ASSUME Shape, JInv, NEW r \in Requests, Handle(r) PROVE JInv'
<1>1. CASE EnterBridge(r)
  BY <1>1 DEF EnterBridge, JInv, JobsSound, CacheTyped, CacheSound, CacheBounded, Held
<1> QED BY <1>1, LookupSound, ResolveSound, StoreSound, PinQuerySound, CheckSound,
           LeaveBridgeSound, SetEntrySound, SettersSound, MasterSound, NegotiateSound,
           FetchesSound, DelSound DEF Handle

LEMMA NextStreamSound == ASSUME Shape, JInv, [NextStream]_vars PROVE JInv'
<1>1. ASSUME keys' = keys, job' = job PROVE JInv'
  BY <1>1 DEF JInv, JobsSound, CacheTyped, CacheSound, CacheBounded, Held
<1> QED BY <1>1, HandleSound, ArriveSound, ExpireSound DEF NextStream, BridgeStep, vars

-----------------------------------------------------------------------------
(* The endpoints over the bridge *)

LEMMA NextStreamBridges ==
    ASSUME JobsSound, [NextStream]_vars PROVE [Next]_bridgeVars
<1>1. CASE BridgeStep
  BY <1>1 DEF BridgeStep, Next
<1>2. ASSUME NEW r \in Requests, Handle(r) PROVE [Next]_bridgeVars
  <2>1. CASE EnterBridge(r)
    <3>1. job[r].key \in Keys
      BY <2>1, AtWork DEF EnterBridge
    <3> QED BY <2>1, <3>1 DEF EnterBridge, Next
  <2>2. CASE LeaveBridge(r)
    BY <2>2 DEF LeaveBridge, Next
  <2> QED BY <1>2, <2>1, <2>2 DEF Handle, Lookup, Resolve, Store, PinQuery, Check, SetEntry,
             SetSource, MarkFailed, Master, Negotiate, SetMaster, SetQuery, Fetch, FetchPlex,
             FetchFails, Del
<1> QED BY <1>1, <1>2 DEF NextStream, Arrive, Expire, vars

LEMMA StreamInvHolds == StreamSpec => []StreamInv
<1>1. Init => StreamInv
  <2> SUFFICES ASSUME Init PROVE StreamInv
    OBVIOUS
  <2>1. IInv
    BY InitInv DEF Init
  <2>2. MirrorsSound
    BY NoCallTyped DEF Init, BridgeInit, MirrorsSound, Busy, Working, Workers
  <2>3. JobsSound /\ CacheTyped
    BY IdleSound DEF Init, JobsSound, CacheTyped
  <2>4. CacheSound
    <3>1. Held = {}
      BY DEF Init, Held
    <3> QED BY <3>1, FS_EmptySet, MaxEntriesAssumption DEF CacheSound, CacheBounded
  <2> QED BY <2>1, <2>2, <2>3, <2>4 DEF StreamInv, JInv
<1>2. StreamInv /\ [NextStream]_vars => StreamInv'
  <2> SUFFICES ASSUME StreamInv, [NextStream]_vars PROVE StreamInv'
    OBVIOUS
  <2>1. JInv'
    BY NextStreamSound DEF StreamInv, IInv
  <2>2. [Next]_bridgeVars
    BY NextStreamBridges DEF StreamInv, JInv
  <2> QED BY <2>1, <2>2, NextInv DEF StreamInv
<1> QED BY <1>1, <1>2, PTL DEF StreamSpec

(* streamKeyCache never holds more entries than its limit, whatever requests *)
(* store, amend, expire and delete between each other's steps.               *)
THEOREM CacheStaysBounded == StreamSpec => []CacheBounded
<1>1. StreamInv => CacheBounded
  BY DEF StreamInv, JInv, CacheSound
<1> QED BY <1>1, StreamInvHolds, PTL

(* GetStreamURL and ProxyStream only enter and leave the bridge as its own   *)
(* next-state relation lets them.                                            *)
THEOREM EndpointsUseBridge == StreamSpec => SafeSpec
<1>1. Init => BridgeInit
  BY DEF Init
<1>2. StreamInv /\ [NextStream]_vars => [Next]_bridgeVars
  BY NextStreamBridges DEF StreamInv, JInv
<1> QED BY <1>1, <1>2, StreamInvHolds, PTL DEF StreamSpec, SafeSpec

(* So no two requests of the endpoints bridge the same key in parallel, and  *)
(* each gets the result of the bridge it shared.                             *)
THEOREM EndpointsShareBridge == StreamSpec => []OneBridgePerKey /\ SharesOneBridge
  BY EndpointsUseBridge, OneBridge, GroupImplemented

-----------------------------------------------------------------------------
(* One request alone *)

(* Between set and setMediaSourceId the entry still is the one that was set. *)
Pinned(r) ==
    /\ SourceGoesWithItem
    /\ job[r].pc \in {"set", "setSource"} => job[r].is.provider = "jellyfin"
    /\ job[r].pc = "setSource" /\ job[r].key \in Held => keys[job[r].key].is.provider = "jellyfin"

(* An entry of the cache after a step has no source, a Jellyfin key, or the  *)
(* resolution it had.                                                        *)
Goes(k) ==
    k \in Held' => \/ keys'[k].is.source = 0
                   \/ keys'[k].is.provider = "jellyfin"
                   \/ k \in Held /\ keys'[k].is = keys[k].is

LEMMA EntriesGo ==
    ASSUME SourceGoesWithItem, \A k \in Keys : Goes(k) PROVE SourceGoesWithItem'
  BY DEF SourceGoesWithItem, Goes, Held

LEMMA SameGoes == ASSUME keys' = keys PROVE \A k \in Keys : Goes(k)
  BY DEF Goes, Held

LEMMA GetGoes ==
    ASSUME CacheTyped, NEW k \in Keys, GetLeaves(k) PROVE \A l \in Keys : Goes(l)
  BY DEF CacheTyped, GetLeaves, Goes, Held

LEMMA AmendGoes ==
    ASSUME CacheTyped, NEW k \in Keys, NEW e, Amend(k, e),
           k \in Held => e.is = keys[k].is \/ e.is.provider = "jellyfin"
    PROVE  \A l \in Keys : Goes(l)
  BY DEF CacheTyped, Amend, Goes, Held

LEMMA PutGoes ==
    ASSUME CacheTyped, NEW k \in Keys, NEW x \in Resolution, Put(k, x)
    PROVE  /\ \A l \in Keys : Goes(l)
           /\ keys'[k].is.provider = x.provider
<1>1. NewEntry(x).is.source = 0 /\ NewEntry(x).is.provider = x.provider
  BY DEF NewEntry, Resolution
<1>2. \A l \in Keys : IF l = k THEN keys'[l] = NewEntry(x) ELSE keys'[l] = Null \/ keys'[l] = keys[l]
  BY DEF Put
<1> QED BY <1>1, <1>2 DEF Goes, Held

(* Where a step leaves its request. *)
LEMMA GotoTo ==
    ASSUME JobsSound, NEW r \in Requests, NEW p, Goto(r, p)
    PROVE  job'[r].pc = p /\ job'[r].key = job[r].key /\ job'[r].is = job[r].is
  BY DEF Goto, JobsSound, SoundJob, Job

LEMMA WithTo ==
    ASSUME JobsSound, NEW r \in Requests, NEW p, NEW x, With(r, x, p)
    PROVE  job'[r].pc = p /\ job'[r].key = job[r].key /\ job'[r].is = x
  BY DEF With, Continue, JobsSound, SoundJob, Job

LEMMA FinishTo ==
    ASSUME JobsSound, NEW r \in Requests, Finish(r) PROVE job'[r].pc = "idle"
  BY DEF Finish, Idle, JobsSound

LEMMA ServePlexTo ==
    ASSUME JobsSound, NEW r \in Requests, ServePlex(r) PROVE job'[r].pc \in {"idle", "fetchPlex"}
  BY GotoTo, FinishTo DEF ServePlex

LEMMA HandTo ==
    ASSUME JobsSound, NEW r \in Requests, NEW i, Hand(r, i) PROVE job'[r].pc \in {"idle", "setQuery"}
  BY FinishTo DEF Hand, JobsSound, SoundJob, Job

LEMMA ContinuesTo ==
    ASSUME JobsSound, NEW r \in Requests, NEW j \in Engaged, NEW x,
           Continue(r, Serve(j, x)) \/ Continue(r, Route(j, x)) \/ Continue(r, Resolved(j, x))
    PROVE  job'[r].pc \in {"idle", "pinQuery", "fetch", "master", "check"}
<1>1. j \in Job /\ r \in DOMAIN job
  BY DEF JobsSound, Engaged
<1>2. Serve(j, x).pc \in {"fetch", "master"}
  BY <1>1 DEF Serve, Job
<1>3. Route(j, x).pc \in {"fetch", "master", "check"}
  BY <1>1, <1>2 DEF Route, Job
<1>4. Resolved(j, x).pc \in {"idle", "pinQuery", "fetch", "master", "check"}
  BY <1>1, <1>3 DEF Resolved, Job, Idle
<1> QED BY <1>1, <1>2, <1>3, <1>4 DEF Continue

-----------------------------------------------------------------------------
(* What the entries of the cache mean *)

(* The resolution a request is about to store means something. *)
MeansSound ==
    /\ \A k \in Held : Meaningful(keys[k].is)
    /\ \A r \in Requests : job[r].pc \in {"store", "set"} => Meaningful(job[r].is)

(* An entry after a step is a meaningful one or has the provider, the item   *)
(* and the error it had.                                                     *)
Means(k) ==
    k \in Held' => \/ Meaningful(keys'[k].is)
                   \/ /\ k \in Held /\ keys'[k].is.provider = keys[k].is.provider
                      /\ keys'[k].is.item = keys[k].is.item /\ keys'[k].is.err = keys[k].is.err

(* Where a step leaves its request: not about to store, or to store that.    *)
Stores(r) ==
    job'[r].pc \in {"store", "set"} => Meaningful(job'[r].is)

LEMMA MeansStep ==
    ASSUME MeansSound, NEW r \in Requests, \A k \in Keys : Means(k), Stores(r),
           \A q \in Requests : q # r => job'[q] = job[q]
    PROVE  MeansSound'
  BY DEF MeansSound, Means, Stores, Meaningful, Held

(* A step of a request leaves the others alone. *)
Own(r) == \A q \in Requests : q # r => job'[q] = job[q]

LEMMA OthersStay ==
    ASSUME Shape, JInv, NEW r \in Requests, Handle(r)
    PROVE  Own(r)
<1>0. DOMAIN job = Requests
  BY DEF JInv, JobsSound
<1>1. ASSUME NEW p PROVE Goto(r, p) => Own(r)
  BY <1>0 DEF Goto, Own
<1>2. ASSUME NEW j PROVE Continue(r, j) => Own(r)
  BY <1>0 DEF Continue, Own
<1>3. Finish(r) => Own(r)
  BY <1>0 DEF Finish, Own
<1>4. ASSUME NEW i PROVE Hand(r, i) => Own(r)
  BY <1>0, <1>3 DEF Hand, Own
<1>5. ServePlex(r) => Own(r)
  BY <1>1, <1>3 DEF ServePlex
<1>6. ASSUME NEW x, NEW p PROVE With(r, x, p) => Own(r)
  BY <1>2 DEF With
<1>7. CASE LeaveBridge(r)
  <2>1. (\E x : With(r, x, "set")) \/ Finish(r) \/ ServePlex(r) \/ Goto(r, "markFailed")
    BY <1>7, OutcomeErr DEF LeaveBridge, AfterBridge
  <2> QED BY <2>1, <1>1, <1>3, <1>5, <1>6
<1>8. CASE EnterBridge(r)
  BY <1>8 DEF EnterBridge, Own
<1>9. CASE Lookup(r) \/ Resolve(r) \/ Store(r) \/ PinQuery(r) \/ Check(r)
  BY <1>9, <1>1, <1>2, <1>5, <1>6 DEF Lookup, Resolve, Store, PinQuery, Check
<1>10. CASE SetEntry(r) \/ SetSource(r) \/ MarkFailed(r) \/ Master(r) \/ Negotiate(r) \/ SetMaster(r) \/ SetQuery(r)
  BY <1>10, <1>1, <1>2, <1>4, <1>5 DEF SetEntry, SetSource, MarkFailed, Master, Negotiate, SetMaster, SetQuery
<1>11. CASE Fetch(r) \/ FetchPlex(r) \/ FetchFails(r) \/ Del(r)
  BY <1>11, <1>1, <1>3 DEF Fetch, FetchPlex, FetchFails, Del
<1> QED BY <1>7, <1>8, <1>9, <1>10, <1>11 DEF Handle

LEMMA SameMeans == ASSUME keys' = keys PROVE \A k \in Keys : Means(k)
  BY DEF Means, Held

LEMMA GetMeans ==
    ASSUME CacheTyped, NEW k \in Keys, GetLeaves(k) PROVE \A l \in Keys : Means(l)
  BY DEF CacheTyped, GetLeaves, Means, Held

LEMMA AmendMeans ==
    ASSUME CacheTyped, NEW k \in Keys, NEW e, Amend(k, e),
           k \in Held => /\ e.is.provider = keys[k].is.provider /\ e.is.item = keys[k].is.item
                         /\ e.is.err = keys[k].is.err
    PROVE  \A l \in Keys : Means(l)
  BY DEF CacheTyped, Amend, Means, Held

LEMMA PutMeans ==
    ASSUME CacheTyped, NEW k \in Keys, NEW x \in Resolution, Meaningful(x), Put(k, x)
    PROVE  \A l \in Keys : Means(l)
<1>1. Meaningful(NewEntry(x).is)
  BY DEF NewEntry, Resolution, Meaningful
<1>2. \A l \in Keys : IF l = k THEN keys'[l] = NewEntry(x) ELSE keys'[l] = Null \/ keys'[l] = keys[l]
  BY DEF Put
<1> QED BY <1>1, <1>2 DEF Means, Held

(* The three outcomes of resolveStreamKey mean something. *)
LEMMA ResolveMeans ==
    ASSUME Shape, JInv, NEW r \in Requests, Resolve(r)
    PROVE  (\A k \in Keys : Means(k)) /\ Stores(r)
<1>1. JobsSound /\ job[r].pc # "idle"
  BY DEF JInv, Resolve
<1>2. job[r].key \in Keys /\ live[job[r].key] \in Items
  BY <1>1, AtWork DEF Shape
<1>3. \A i \in Items \ {0} : Meaningful([NoResolution EXCEPT !.provider = "jellyfin", !.item = i])
  BY DEF NoResolution, Meaningful
<1>4. Meaningful([NoResolution EXCEPT !.provider = "plex"])
  BY DEF NoResolution, Meaningful
<1>5. \A e \in ResolveErrors : Meaningful([NoResolution EXCEPT !.err = e])
  BY ResolveErrorsAssumption DEF NoResolution, Meaningful
<1>6. PICK x : With(r, x, "store") /\ Meaningful(x)
  BY <1>2, <1>3, <1>4, <1>5 DEF Resolve
<1>7. Stores(r)
  BY <1>1, <1>6, WithTo DEF Stores
<1> QED BY <1>7, SameMeans DEF Resolve

(* A bridge that succeeded hands out an item. *)
LEMMA LeaveMeans ==
    ASSUME IInv, JInv, NEW r \in Requests, LeaveBridge(r)
    PROVE  (\A k \in Keys : Means(k)) /\ Stores(r)
<1>1. JobsSound /\ Shape /\ at[r].pc = "back"
  BY DEF IInv, JInv, LeaveBridge, Leave
<1>2. CASE Outcome(r).err = "none"
  <2>1. at[r].call \in Calls /\ Outcome(r) = Result(at[r].call)
    BY <1>1, <1>2, Typed DEF Outcome, Cancelled
  <2>2. call[at[r].call].step = "done" /\ call[at[r].call].err = "none"
    BY <1>1, <1>2, <2>1, Unshared DEF Result, IInv, PlacesSound
  <2>3. Outcome(r).item # 0
    BY <2>1, <2>2, Unshared DEF IInv, ItemsFound, HasItem, Result
  <2> DEFINE x == [provider |-> "jellyfin", item |-> Outcome(r).item,
                   source |-> IF Outcome(r).pinned THEN Outcome(r).item ELSE 0, err |-> "none"]
  <2>4. Meaningful(x)
    BY <2>3 DEF Meaningful
  <2>5. With(r, x, "set")
    BY <1>2 DEF LeaveBridge, AfterBridge
  <2> HIDE DEF x
  <2>6. Stores(r)
    BY <1>1, <2>4, <2>5, WithTo DEF Stores
  <2> QED BY <2>6, SameMeans DEF LeaveBridge
<1>3. CASE Outcome(r).err # "none"
  <2>1. Finish(r) \/ ServePlex(r) \/ Goto(r, "markFailed")
    BY <1>1, <1>3, OutcomeErr DEF LeaveBridge, AfterBridge
  <2>2. job'[r].pc \in {"idle", "fetchPlex", "markFailed"}
    BY <1>1, <2>1, GotoTo, FinishTo, ServePlexTo
  <2> QED BY <2>2, SameMeans DEF Stores, LeaveBridge
<1> QED BY <1>2, <1>3

LEMMA HandleMeans ==
    ASSUME IInv, JInv, MeansSound, NEW r \in Requests, Handle(r) PROVE MeansSound'
<1>0. Shape /\ JobsSound /\ CacheTyped /\ job[r].pc # "idle"
  BY DEF IInv, JInv, Handle, Lookup, Resolve, Store, PinQuery, Check, EnterBridge, LeaveBridge, SetEntry,
         SetSource, MarkFailed, Master, Negotiate, SetMaster, SetQuery, Fetch, FetchPlex, FetchFails, Del
<1>1. job[r] \in Engaged /\ job[r].key \in Keys /\ job[r].is \in Resolution
  BY <1>0, AtWork
<1> DEFINE k == job[r].key
<1>2. ASSUME \A l \in Keys : Means(l), Stores(r) PROVE MeansSound'
  BY <1>0, <1>2, MeansStep, OthersStay DEF Own
<1>3. ASSUME job'[r].pc \notin {"store", "set"} PROVE Stores(r)
  BY <1>3 DEF Stores
<1>4. CASE Lookup(r) \/ Check(r) \/ Master(r)
  <2>1. \A l \in Keys : Means(l)
    BY <1>0, <1>1, <1>4, GetMeans DEF Lookup, Check, Master
  <2>2. job'[r].pc \notin {"store", "set"}
    BY <1>0, <1>1, <1>4, GotoTo, ServePlexTo, HandTo, ContinuesTo DEF Lookup, Check, Master
  <2> QED BY <1>2, <1>3, <2>1, <2>2
<1>5. CASE PinQuery(r)
  <2> DEFINE q == IF Hit(k) THEN keys[k].query ELSE 0
  <2>1. \A l \in Keys : Means(l)
    BY <1>0, <1>1, <1>5, GetMeans DEF PinQuery
  <2>2. q \in Items
    BY <1>0, HeldTyped, MaxItemAssumption DEF Hit, Entry, Items
  <2>3. [job[r] EXCEPT !.query = q] \in Engaged
    BY <1>1, <2>2, NoResolutionTyped, JobChanged DEF Points
  <2>4. job'[r].pc \notin {"store", "set"}
    BY <1>0, <1>5, <2>3, ContinuesTo DEF PinQuery
  <2> QED BY <1>2, <1>3, <2>1, <2>4
<1>6. CASE Store(r)
  <2>1. \A l \in Keys : Means(l)
    BY <1>0, <1>1, <1>6, PutMeans DEF Store, MeansSound
  <2>2. job'[r].pc \notin {"store", "set"}
    BY <1>0, <1>1, <1>6, ContinuesTo DEF Store
  <2> QED BY <1>2, <1>3, <2>1, <2>2
<1>7. CASE Negotiate(r) \/ Fetch(r) \/ FetchPlex(r) \/ FetchFails(r)
  <2>1. \A l \in Keys : Means(l)
    BY <1>7, SameMeans DEF Negotiate, Fetch, FetchPlex, FetchFails
  <2>2. job'[r].pc \notin {"store", "set"}
    BY <1>0, <1>7, GotoTo, HandTo, FinishTo DEF Negotiate, Fetch, FetchPlex, FetchFails
  <2> QED BY <1>2, <1>3, <2>1, <2>2
<1>8. CASE EnterBridge(r)
  BY <1>2, <1>3, <1>8, SameMeans DEF EnterBridge
<1>9. CASE SetEntry(r)
  <2>1. \A l \in Keys : Means(l)
    BY <1>0, <1>1, <1>9, PutMeans DEF SetEntry, MeansSound
  <2>2. job'[r].pc \notin {"store", "set"}
    BY <1>0, <1>9, GotoTo DEF SetEntry
  <2> QED BY <1>2, <1>3, <2>1, <2>2
<1>10. CASE SetSource(r) \/ MarkFailed(r) \/ SetMaster(r) \/ SetQuery(r)
  <2>1. k \in Held => keys[k] \in Entry
    BY <1>0, HeldTyped
  <2>2. k \in Held => \A i : /\ [keys[k] EXCEPT !.failed = TRUE].is = keys[k].is
                            /\ [keys[k] EXCEPT !.master = i].is = keys[k].is
                            /\ [keys[k] EXCEPT !.query = i].is = keys[k].is
    BY <2>1 DEF Entry
  <2>3. k \in Held => \A i : /\ [keys[k] EXCEPT !.is.source = i].is.provider = keys[k].is.provider
                            /\ [keys[k] EXCEPT !.is.source = i].is.item = keys[k].is.item
                            /\ [keys[k] EXCEPT !.is.source = i].is.err = keys[k].is.err
    BY <2>1 DEF Entry, Resolution
  <2>4. \A l \in Keys : Means(l)
    BY <1>0, <1>1, <1>10, <2>2, <2>3, AmendMeans DEF SetSource, MarkFailed, SetMaster, SetQuery
  <2>5. job'[r].pc \notin {"store", "set"}
    BY <1>0, <1>1, <1>10, GotoTo, ServePlexTo, HandTo, ContinuesTo DEF SetSource, MarkFailed, SetMaster, SetQuery
  <2> QED BY <1>2, <1>3, <2>4, <2>5
<1>11. CASE Del(r)
  <2>1. \A l \in Keys : Means(l)
    BY <1>0, <1>11 DEF Del, CacheTyped, Means, Held
  <2> QED BY <1>0, <1>2, <1>3, <1>11, <2>1, FinishTo DEF Del
<1> QED BY <1>0, <1>2, <1>4, <1>5, <1>6, <1>7, <1>8, <1>9, <1>10, <1>11, ResolveMeans, LeaveMeans DEF Handle

LEMMA NextMeans ==
    ASSUME StreamInv, MeansSound, [NextStream]_vars PROVE MeansSound'
<1>0. IInv /\ JInv /\ JobsSound /\ CacheTyped
  BY DEF StreamInv, JInv
<1>1. CASE keys' = keys /\ job' = job
  BY <1>1 DEF MeansSound, Held
<1>2. ASSUME NEW r \in Requests, Handle(r) PROVE MeansSound'
  BY <1>0, <1>2, HandleMeans
<1>3. ASSUME NEW r \in Requests, NEW k \in Keys, NEW kind \in Kinds, Arrive(r, k, kind) PROVE MeansSound'
  <2>1. /\ job'[r].pc = "lookup" /\ keys' = keys
        /\ \A q \in Requests : q # r => job'[q] = job[q]
    BY <1>0, <1>3 DEF Arrive, Idle, JobsSound
  <2> QED BY <2>1, SameMeans, MeansStep DEF Stores
<1>4. ASSUME NEW k \in Keys, Expire(k) PROVE MeansSound'
  <2>1. keys[k] \in Entry /\ k \in Held /\ job' = job
    BY <1>0, <1>4, HeldTyped DEF Expire, Hit
  <2>2. \A l \in Keys : l \in Held' => l \in Held /\ keys'[l].is = keys[l].is
    BY <1>0, <1>4, <2>1 DEF Expire, CacheTyped, Held, Entry
  <2> QED BY <2>1, <2>2 DEF MeansSound, Held
<1> QED BY <1>1, <1>2, <1>3, <1>4 DEF NextStream, BridgeStep, vars

(* The state stays well formed: a request at work has a key and an endpoint, *)
(* and every entry of the cache is an error or names a provider, with an     *)
(* item when that is the media server, whichever resolution, bridge or       *)
(* setter wrote it last.                                                     *)
THEOREM StreamTyped == StreamSpec => []StreamTypeOK
<1>1. Init => MeansSound
  BY DEF Init, MeansSound, Held, Idle
<1>2. StreamInv /\ MeansSound /\ [NextStream]_vars => MeansSound'
  BY NextMeans
<1>3. StreamInv /\ MeansSound => StreamTypeOK
  BY DEF StreamInv, JInv, JobsSound, CacheTyped, SoundJob, MeansSound, StreamTypeOK
<1> QED BY <1>1, <1>2, <1>3, StreamInvHolds, PTL DEF StreamSpec

-----------------------------------------------------------------------------
(* One request alone: the source of an entry *)

(* A bridge that succeeded is what takes a request to set. *)
LEMMA LeavePinned ==
    ASSUME Shape, JobsSound, NEW r \in Requests, Pinned(r), LeaveBridge(r) PROVE Pinned(r)'
<1>1. job[r].pc # "idle" /\ keys' = keys
  BY DEF LeaveBridge
<1>2. SourceGoesWithItem'
  BY <1>1, SameGoes, EntriesGo DEF Pinned
<1>3. ASSUME job'[r].pc \notin {"set", "setSource"} PROVE Pinned(r)'
  BY <1>2, <1>3 DEF Pinned
<1>4. CASE Outcome(r).err = "none"
  <2>1. PICK x : With(r, x, "set") /\ x.provider = "jellyfin"
    BY <1>4 DEF LeaveBridge, AfterBridge
  <2> QED BY <1>1, <1>2, <2>1, WithTo DEF Pinned
<1>5. CASE Outcome(r).err # "none"
  <2>1. Finish(r) \/ ServePlex(r) \/ Goto(r, "markFailed")
    BY <1>5, OutcomeErr DEF LeaveBridge, AfterBridge
  <2>2. job'[r].pc \in {"idle", "fetchPlex", "markFailed"}
    BY <2>1, GotoTo, FinishTo, ServePlexTo
  <2> QED BY <1>3, <2>2
<1> QED BY <1>4, <1>5

LEMMA HandlePinned ==
    ASSUME Shape, JInv, NEW r \in Requests, Pinned(r), Handle(r) PROVE Pinned(r)'
<1>0. JobsSound /\ CacheTyped /\ job[r].pc # "idle"
  BY DEF JInv, Handle, Lookup, Resolve, Store, PinQuery, Check, EnterBridge, LeaveBridge, SetEntry,
         SetSource, MarkFailed, Master, Negotiate, SetMaster, SetQuery, Fetch, FetchPlex, FetchFails, Del
<1>1. job[r] \in Engaged /\ job[r].key \in Keys /\ job[r].is \in Resolution
  BY <1>0, AtWork
<1> DEFINE k == job[r].key
<1>2. ASSUME \A l \in Keys : Goes(l), job'[r].pc \notin {"set", "setSource"} PROVE Pinned(r)'
  BY <1>2, EntriesGo DEF Pinned
<1>3. CASE Lookup(r) \/ Check(r) \/ Master(r)
  <2>1. \A l \in Keys : Goes(l)
    BY <1>0, <1>1, <1>3, GetGoes DEF Lookup, Check, Master
  <2>2. job'[r].pc \notin {"set", "setSource"}
    BY <1>0, <1>1, <1>3, GotoTo, ServePlexTo, HandTo, ContinuesTo DEF Lookup, Check, Master
  <2> QED BY <1>2, <2>1, <2>2
<1>4. CASE PinQuery(r)
  <2> DEFINE q == IF Hit(k) THEN keys[k].query ELSE 0
  <2>1. \A l \in Keys : Goes(l)
    BY <1>0, <1>1, <1>4, GetGoes DEF PinQuery
  <2>2. q \in Items
    BY <1>0, HeldTyped, MaxItemAssumption DEF Hit, Entry, Items
  <2>3. [job[r] EXCEPT !.query = q] \in Engaged
    BY <1>1, <2>2, NoResolutionTyped, JobChanged DEF Points
  <2>4. job'[r].pc \notin {"set", "setSource"}
    BY <1>0, <1>4, <2>3, ContinuesTo DEF PinQuery
  <2> QED BY <1>2, <2>1, <2>4
<1>5. CASE Store(r)
  <2>1. \A l \in Keys : Goes(l)
    BY <1>0, <1>1, <1>5, PutGoes DEF Store
  <2>2. job'[r].pc \notin {"set", "setSource"}
    BY <1>0, <1>1, <1>5, ContinuesTo DEF Store
  <2> QED BY <1>2, <2>1, <2>2
<1>6. CASE Resolve(r) \/ Negotiate(r) \/ Fetch(r) \/ FetchPlex(r) \/ FetchFails(r)
  <2>1. \A l \in Keys : Goes(l)
    BY <1>6, SameGoes DEF Resolve, Negotiate, Fetch, FetchPlex, FetchFails
  <2>2. job'[r].pc \notin {"set", "setSource"}
    <3>1. CASE Resolve(r)
      <4>1. PICK x : With(r, x, "store")
        BY <3>1 DEF Resolve
      <4> QED BY <1>0, <4>1, WithTo
    <3>2. CASE Negotiate(r)
      BY <1>0, <3>2, GotoTo, HandTo DEF Negotiate
    <3>3. CASE Fetch(r) \/ FetchPlex(r) \/ FetchFails(r)
      BY <1>0, <3>3, GotoTo, FinishTo DEF Fetch, FetchPlex, FetchFails
    <3> QED BY <1>6, <3>1, <3>2, <3>3
  <2> QED BY <1>2, <2>1, <2>2
<1>7. CASE EnterBridge(r)
  BY <1>2, <1>7, SameGoes DEF EnterBridge
<1>8. CASE SetEntry(r)
  <2>1. (\A l \in Keys : Goes(l)) /\ keys'[k].is.provider = job[r].is.provider
    BY <1>0, <1>1, <1>8, PutGoes DEF SetEntry
  <2>2. job'[r].pc = "setSource" /\ job'[r].key = k /\ job'[r].is = job[r].is
    BY <1>0, <1>8, GotoTo DEF SetEntry
  <2>3. job[r].is.provider = "jellyfin"
    BY <1>8 DEF SetEntry, Pinned
  <2>4. SourceGoesWithItem'
    BY <2>1, EntriesGo DEF Pinned
  <2> QED BY <2>1, <2>2, <2>3, <2>4 DEF Pinned
<1>9. ASSUME SetSource(r) \/ MarkFailed(r) \/ SetMaster(r) \/ SetQuery(r) PROVE \A l \in Keys : Goes(l)
  <2>1. k \in Held => keys[k] \in Entry
    BY <1>0, HeldTyped
  <2>2. ASSUME NEW e, Amend(k, e), k \in Held => e.is = keys[k].is \/ e.is.provider = "jellyfin"
        PROVE  \A l \in Keys : Goes(l)
    BY <1>0, <1>1, <2>2, AmendGoes
  <2>3. k \in Held => \A i : /\ [keys[k] EXCEPT !.failed = TRUE].is = keys[k].is
                            /\ [keys[k] EXCEPT !.master = i].is = keys[k].is
                            /\ [keys[k] EXCEPT !.query = i].is = keys[k].is
    BY <2>1 DEF Entry
  <2>4. CASE SetSource(r)
    <3>1. k \in Held => [keys[k] EXCEPT !.is.source = job[r].is.source].is.provider = "jellyfin"
      BY <2>1, <2>4 DEF SetSource, Pinned, Entry, Resolution
    <3> QED BY <2>2, <2>4, <3>1 DEF SetSource
  <2> QED BY <1>9, <2>2, <2>3, <2>4 DEF MarkFailed, SetMaster, SetQuery
<1>10. CASE SetSource(r) \/ MarkFailed(r) \/ SetMaster(r) \/ SetQuery(r)
  <2>1. job'[r].pc \notin {"set", "setSource"}
    BY <1>0, <1>1, <1>10, GotoTo, ServePlexTo, HandTo, ContinuesTo DEF SetSource, MarkFailed, SetMaster, SetQuery
  <2> QED BY <1>2, <1>9, <1>10, <2>1
<1>11. CASE Del(r)
  <2>1. \A l \in Keys : Goes(l)
    BY <1>0, <1>11 DEF Del, CacheTyped, Goes, Held
  <2> QED BY <1>0, <1>2, <1>11, <2>1, FinishTo DEF Del
<1> QED BY <1>0, <1>3, <1>4, <1>5, <1>6, <1>7, <1>8, <1>10, <1>11, LeavePinned DEF Handle

(* With one request at a time an entry with a media source id has a Jellyfin *)
(* key, as discover.go:1131 takes it to: only another request's set between  *)
(* the two critical sections can separate them.                              *)
THEOREM SourceStaysWithItem ==
    ASSUME NEW r \in Requests, Requests = {r}
    PROVE  StreamSpec => []SourceGoesWithItem
<1>1. Init => Pinned(r)
  BY DEF Init, Pinned, SourceGoesWithItem, Held, Idle
<1>2. ASSUME StreamInv, [NextStream]_vars, Pinned(r) PROVE Pinned(r)'
  <2>0. Shape /\ JInv /\ JobsSound /\ CacheTyped
    BY <1>2 DEF StreamInv, IInv, JInv
  <2>1. CASE keys' = keys /\ job' = job
    BY <1>2, <2>1 DEF Pinned, SourceGoesWithItem, Held
  <2>2. CASE Handle(r)
    BY <1>2, <2>0, <2>2, HandlePinned
  <2>3. ASSUME NEW k \in Keys, NEW kind \in Kinds, Arrive(r, k, kind) PROVE Pinned(r)'
    <3>1. job'[r].pc = "lookup" /\ keys' = keys
      BY <2>0, <2>3 DEF Arrive, Idle, JobsSound
    <3> QED BY <1>2, <3>1, SameGoes, EntriesGo DEF Pinned
  <2>4. ASSUME NEW k \in Keys, Expire(k) PROVE Pinned(r)'
    <3>1. keys[k] \in Entry /\ k \in Held /\ job' = job
      BY <2>0, <2>4, HeldTyped DEF Expire, Hit
    <3>2. \A l \in Keys : l \in Held' => l \in Held /\ keys'[l].is = keys[l].is
      BY <2>0, <2>4, <3>1 DEF Expire, CacheTyped, Held, Entry
    <3>3. SourceGoesWithItem'
      BY <1>2, <3>2, EntriesGo DEF Pinned, Goes
    <3> QED BY <1>2, <3>1, <3>2, <3>3 DEF Pinned, Held
  <2> QED BY <1>2, <2>1, <2>2, <2>3, <2>4 DEF NextStream, BridgeStep, vars
<1>3. StreamInv /\ [NextStream]_vars /\ Pinned(r) => Pinned(r)'
  BY <1>2
<1>4. Pinned(r) => SourceGoesWithItem
  BY DEF Pinned
<1> QED BY <1>1, <1>3, <1>4, StreamInvHolds, PTL DEF StreamSpec

=============================================================================
