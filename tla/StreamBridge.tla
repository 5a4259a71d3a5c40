---------------------------- MODULE StreamBridge ----------------------------
(***************************************************************************)
(* The Plex-to-Jellyfin bridge of the stream endpoints                     *)
(* (server/src/routes/discover.go, bridgeStreamKey and                     *)
(* bridgePlexToJellyfin; server/src/services/jellyfin_client.go,           *)
(* BridgeRemoteMedia and ensureStrmItemRemote).                            *)
(*                                                                         *)
(* Concurrent requests for a stream key share one bridge: the first one    *)
(* registers a call under bridgeMu and runs it, the others wait for the    *)
(* call's done channel or for their own cancellation.  The bridge writes   *)
(* the key's .strm file, asks the media server for a scan and polls until  *)
(* the item shows up; when it is not resolved, the file is deleted,        *)
(* rewritten and a scan asked for again.                                   *)
(*                                                                         *)
(* A scan is only asked for: the media server runs it later, while the     *)
(* bridge polls or after it ended, and may then create the item, keep it   *)
(* or re-create it under a new id.                                         *)
(*                                                                         *)
(* The .strm file name is a function of the title and the media URL, so a  *)
(* key stands for its file.  The catalog mirror (jellyfin_mirror.go)       *)
(* bridges the same files without taking part in the sharing.              *)
(*                                                                         *)
(* Atomicity.  A critical section of bridgeMu is one step, a call to the   *)
(* media server with what precedes it is one step.  The owner fills the    *)
(* call and closes its channel in one step, since nobody reads a call      *)
(* before the channel is closed.                                           *)
(***************************************************************************)
EXTENDS Naturals

CONSTANTS
    Requests,       \* HTTP requests that may be in the bridge at one time
    Keys,           \* stream keys
    Calls,          \* bridgeCall objects (one per request is enough)
    Mirrors,        \* mirror runs: {} or one worker
    MaxItem,        \* how many ids the media server gives one file's item
    BridgeErrors,   \* the kinds of error a bridge may end with
    Null

ASSUME MaxItemAssumption == MaxItem \in Nat \ {0}
ASSUME BridgeErrorsAssumption ==
    BridgeErrors \subseteq {"transient", "definitive", "auth"}
ASSUME NullAssumption == Null \notin Calls \cup Keys \cup Requests
ASSUME MirrorsAssumption == Mirrors \cap Calls = {}

VARIABLES
    live,       \* per key, the media server's current item for its file
    due,        \* per key, whether a scan was asked for and is not over
    inflight,   \* h.bridgeInflight
    call,       \* the calls, and what a mirror run is bridging
    at          \* where each request is in bridgeStreamKey

bridgeVars == <<live, due, inflight, call, at>>

Workers == Calls \cup Mirrors

Items == 0 .. MaxItem       \* 0: the file has no item yet

(* The steps of BridgeRemoteMedia and ResolveMediaSourceID still to run.   *)
Working == {"scan", "find", "verify", "poll", "source"}

(* item and pinned: the item id and whether its media source id is known.  *)
Call == [step : Working \cup {"free", "done"}, key : Keys \cup {Null},
         item : Items, pinned : BOOLEAN, err : BridgeErrors \cup {"none"}]

NoCall == [step |-> "free", key |-> Null,
           item |-> 0, pinned |-> FALSE, err |-> "none"]

Place == [pc : {"out", "waiting", "running", "back"}, key : Keys \cup {Null},
          call : Calls \cup {Null}]

Out == [pc |-> "out", key |-> Null, call |-> Null]

BridgeInit ==
    /\ live = [k \in Keys |-> 0]
    /\ due = [k \in Keys |-> FALSE]
    /\ inflight = [k \in Keys |-> Null]
    /\ call = [w \in Workers |-> NoCall]
    /\ at = [r \in Requests |-> Out]

-----------------------------------------------------------------------------
(* bridgeStreamKey                                                         *)

(* A call object nobody holds. *)
Fresh(c) == \A r \in Requests : at[r].call # c

WaitFor(r, k) ==
    /\ at' = [at EXCEPT ![r] = [pc |-> "waiting", key |-> k, call |-> inflight[k]]]
    /\ UNCHANGED <<live, due, inflight, call>>

Register(r, k, c) ==
    /\ Fresh(c)
    /\ inflight' = [inflight EXCEPT ![k] = c]
    /\ call' = [call EXCEPT ![c] = [NoCall EXCEPT !.step = "scan", !.key = k]]
    /\ at' = [at EXCEPT ![r] = [pc |-> "running", key |-> k, call |-> c]]
    /\ UNCHANGED <<live, due>>

Enter(r, k) ==
    /\ at[r].pc = "out"
    /\ \/ inflight[k] # Null /\ WaitFor(r, k)
       \/ inflight[k] = Null /\ \E c \in Calls : Register(r, k, c)

(* Mutant: a waiter returns before the channel is closed. *)
TakeEarly(r) ==
    /\ at[r].pc = "waiting"
    /\ at' = [at EXCEPT ![r].pc = "back"]
    /\ UNCHANGED <<live, due, inflight, call>>

(* case <-call.done *)
Take(r) ==
    /\ at[r].pc = "waiting"
    /\ call[at[r].call].step = "done"
    /\ at' = [at EXCEPT ![r].pc = "back"]
    /\ UNCHANGED <<live, due, inflight, call>>

(* case <-ctx.Done(): the waiter's own request was cancelled. *)
Cancel(r) ==
    /\ at[r].pc = "waiting"
    /\ at' = [at EXCEPT ![r] = [@ EXCEPT !.pc = "back", !.call = Null]]
    /\ UNCHANGED <<live, due, inflight, call>>

(* Mutant: the entry is removed when the bridge has not ended yet. *)
RemoveEarly(r) ==
    LET k == at[r].key IN
    /\ at[r].pc = "running"
    /\ inflight' = [inflight EXCEPT ![k] = IF @ = at[r].call THEN Null ELSE @]
    /\ at' = [at EXCEPT ![r].pc = IF call[at[r].call].step = "done"
                                  THEN "back" ELSE "running"]
    /\ UNCHANGED <<live, due, call>>

(* The owner removes its call from the map and returns. *)
Remove(r) ==
    LET k == at[r].key IN
    /\ at[r].pc = "running"
    /\ call[at[r].call].step = "done"
    /\ inflight' = [inflight EXCEPT ![k] = IF @ = at[r].call THEN Null ELSE @]
    /\ at' = [at EXCEPT ![r].pc = "back"]
    /\ UNCHANGED <<live, due, call>>

(* What bridgeStreamKey returned to r. *)
Cancelled == [item |-> 0, pinned |-> FALSE, err |-> "transient"]

Result(c) == [item |-> call[c].item, pinned |-> call[c].pinned, err |-> call[c].err]

Outcome(r) == IF at[r].call = Null THEN Cancelled ELSE Result(at[r].call)

(* The caller goes on with the result; a call nobody holds is collected.   *)
Leave(r) ==
    /\ at[r].pc = "back"
    /\ at' = [at EXCEPT ![r] = Out]
    /\ call' = [w \in Workers |->
                   IF w = at[r].call /\ \A q \in Requests \ {r} : at[q].call # w
                   THEN NoCall ELSE call[w]]
    /\ UNCHANGED <<live, due, inflight>>

-----------------------------------------------------------------------------
(* The bridge itself, run by the owner of a call or by the mirror          *)

Proceed(w, step) == call' = [call EXCEPT ![w].step = step]

(* findStrmItem: the item the media server has for the file now. *)
Found(w, step) ==
    /\ live[call[w].key] # 0
    /\ call' = [call EXCEPT ![w] = [@ EXCEPT !.step = step, !.item = live[call[w].key]]]

(* Write the file and ask for a scan of its library. *)
Scan(w) ==
    /\ call[w].step = "scan"
    /\ due' = [due EXCEPT ![call[w].key] = TRUE]
    /\ Proceed(w, "find")
    /\ UNCHANGED <<live, inflight, at>>

(* waitForStrmItem polls until the item shows up. *)
Find(w) ==
    /\ call[w].step = "find"
    /\ Found(w, "verify")
    /\ UNCHANGED <<live, due, inflight, at>>

(* ItemResolvesRemote: yes; or no, or an error: the file is deleted and    *)
(* rewritten, and a full scan asked for.                                   *)
Verify(w) ==
    LET k == call[w].key IN
    /\ call[w].step = "verify"
    /\ \/ /\ call[w].item = live[k]
          /\ Proceed(w, "source")
          /\ UNCHANGED due
       \/ /\ due' = [due EXCEPT ![k] = TRUE]
          /\ Proceed(w, "poll")
    /\ UNCHANGED <<live, inflight, at>>

(* The item found by name now is resolved: it is the one returned. *)
Poll(w) ==
    /\ call[w].step = "poll"
    /\ Found(w, "source")
    /\ UNCHANGED <<live, due, inflight, at>>

(* The media server comes to the file in a scan that was asked for; more   *)
(* than one may have been.                                                 *)
Rescan(k) ==
    /\ due[k]
    /\ due' \in {[due EXCEPT ![k] = FALSE], due}
    /\ \/ live[k] # 0 /\ UNCHANGED live
       \/ live[k] < MaxItem /\ live' = [live EXCEPT ![k] = @ + 1]
    /\ UNCHANGED <<inflight, call, at>>

(* ResolveMediaSourceID, whose error leaves the source unpinned; then the  *)
(* call is filled in and its channel closed.                               *)
Source(c) ==
    /\ call[c].step = "source"
    /\ \E p \in BOOLEAN :
          /\ p => call[c].item = live[call[c].key]
          /\ call' = [call EXCEPT ![c] = [@ EXCEPT !.step = "done", !.pinned = p]]
    /\ UNCHANGED <<live, due, inflight, at>>

(* Mutant: the error of the bridge is not put in the call. *)
BreakNoError(c) ==
    /\ call[c].step \in Working
    /\ call' = [call EXCEPT ![c] = [@ EXCEPT !.step = "done", !.item = 0]]
    /\ UNCHANGED <<live, due, inflight, at>>

(* Mutant: the done channel is not closed when the bridge fails. *)
BreakUnclosed(c) ==
    /\ call[c].step \in Working
    /\ \E e \in BridgeErrors :
          call' = [call EXCEPT ![c] = [@ EXCEPT !.step = "free", !.item = 0, !.err = e]]
    /\ UNCHANGED <<live, due, inflight, at>>

(* A step fails, or the 90 seconds of the detached context are over. *)
Break(c) ==
    /\ call[c].step \in Working
    /\ \E e \in BridgeErrors :
          call' = [call EXCEPT ![c] = [@ EXCEPT !.step = "done", !.item = 0, !.err = e]]
    /\ UNCHANGED <<live, due, inflight, at>>

(* The mirror bridges the next file, and goes on whether it failed or not. *)
MirrorStart(m, k) ==
    /\ call[m].step = "free"
    /\ call' = [call EXCEPT ![m] = [NoCall EXCEPT !.step = "scan", !.key = k]]
    /\ UNCHANGED <<live, due, inflight, at>>

MirrorEnd(m) ==
    /\ call[m].step \in Working
    /\ call' = [call EXCEPT ![m] = NoCall]
    /\ UNCHANGED <<live, due, inflight, at>>

Remote(w) == Scan(w) \/ Find(w) \/ Verify(w) \/ Poll(w)

Bridge(c) == Remote(c) \/ Source(c) \/ Break(c)

Mirror ==
    \E m \in Mirrors :
        Remote(m) \/ MirrorEnd(m) \/ \E k \in Keys : MirrorStart(m, k)

Next ==
    \/ \E r \in Requests :
          \/ \E k \in Keys : Enter(r, k)
          \/ Take(r) \/ Cancel(r) \/ Remove(r) \/ Leave(r)
    \/ \E c \in Calls : Bridge(c)
    \/ Mirror
    \/ \E k \in Keys : Rescan(k)

(* Goroutines are scheduled, and the detached context of a bridge ends     *)
(* after 90 seconds whatever the media server does.  Nobody need cancel,   *)
(* no request need come, and no scan need end.                             *)
Fairness ==
    /\ \A r \in Requests : WF_bridgeVars(Take(r)) /\ WF_bridgeVars(Remove(r))
    /\ \A c \in Calls : WF_bridgeVars(Bridge(c))

SafeSpec == BridgeInit /\ [][Next]_bridgeVars

Spec == SafeSpec /\ Fairness

-----------------------------------------------------------------------------
(* The records are well formed, and a bridge that ended without an error   *)
(* has an item: the callers of bridgeStreamKey only look at the error.     *)
TypeOK ==
    /\ live \in [Keys -> Items]
    /\ due \in [Keys -> BOOLEAN]
    /\ inflight \in [Keys -> Calls \cup {Null}]
    /\ call \in [Workers -> Call]
    /\ at \in [Requests -> Place]
    /\ \A w \in Workers :
          call[w].step = "done" /\ call[w].err = "none" => call[w].item # 0

Busy(w) == call[w].step \in Working

(* No two requests ever bridge the same key in parallel: concurrent        *)
(* callers of bridgeStreamKey share one bridge.                            *)
OneBridgePerKey ==
    \A c, d \in Calls : Busy(c) /\ Busy(d) /\ call[c].key = call[d].key => c = d

(* "leaving one caller with a dead item ID": what the sharing is for.  The *)
(* code does not keep it, mirror or not: a scan an earlier bridge asked    *)
(* for, or the recovery's own, may re-create the item after the poll.      *)
BridgedItemIsLive ==
    \A k \in Keys : inflight[k] # Null =>
        LET c == inflight[k] IN
        call[c].step \in {"source", "done"} /\ call[c].err = "none"
            => call[c].item = live[k]

(* Every request that waits for another one's bridge, and every owner,     *)
(* comes back, however the bridge ends.                                    *)
EveryoneReturns ==
    \A r \in Requests : at[r].pc \in {"waiting", "running"} ~> at[r].pc = "back"

-----------------------------------------------------------------------------
(* The bridge is a single-flight group.                                    *)
Done(c) == call[c].step = "done"

BusyKeys == {k \in Keys : inflight[k] # Null /\ call[inflight[k]].step # "done"}
Listed == [k \in Keys |->
              IF inflight[k] # Null /\ k \notin BusyKeys
              THEN Result(inflight[k]) ELSE Null]
Want == [r \in Requests |->
            IF at[r].pc \in {"waiting", "running"} /\ ~Done(at[r].call)
            THEN at[r].key ELSE Null]
Got == [r \in Requests |->
            IF at[r].pc # "out" /\ Want[r] = Null THEN Outcome(r) ELSE Null]
Results == [item : Items, pinned : BOOLEAN, err : BridgeErrors \cup {"none"}]

ASSUME ResultsAssumption == Null \notin Results \cup {Cancelled}

Group == INSTANCE SharedWork WITH
    Clients <- Requests, GaveUp <- Cancelled,
    busy <- BusyKeys, listed <- Listed, want <- Want, got <- Got

(* Every request gets the result of the one bridge that was running, or    *)
(* had just ended, when it asked; or is cancelled.                         *)
SharesOneBridge == Group!Spec

=============================================================================
