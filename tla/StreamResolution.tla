-------------------------- MODULE StreamResolution --------------------------
(***************************************************************************)
(* The stream endpoints of the catalog (server/src/routes/discover.go):    *)
(* GetStreamURL and ProxyStream over the stream-key cache, the bridge of   *)
(* StreamBridge and the media server.                                      *)
(*                                                                         *)
(* A request resolves its stream key (from the cache, or over HTTP and     *)
(* then into the cache), bridges it when only Plex has it, builds or       *)
(* negotiates the master URL and, in the proxy, fetches it.  Every cache   *)
(* operation is a critical section of its own, so a request acts on what   *)
(* it read several seconds and several cache operations ago.               *)
(*                                                                         *)
(* A Jellyfin item is the number StreamBridge gives it, and so is what     *)
(* belongs to an item: its media source id, its negotiated master URL, the *)
(* session query of that URL.  0 stands for "none", and for a Plex key     *)
(* where an item is wanted.                                                *)
(***************************************************************************)
EXTENDS StreamBridge, FiniteSets

CONSTANTS
    Kinds,          \* endpoints in use: "stream", "manifest", "segment"
    MaxEntries,     \* streamKeyCache.max
    ResolveErrors,  \* errors of a resolution: "transient", "definitive"
    Expiry          \* FALSE: less time passes than an entry's TTL

ASSUME KindsAssumption == Kinds \subseteq {"stream", "manifest", "segment"}
ASSUME ResolveErrorsAssumption == ResolveErrors \subseteq {"transient", "definitive"}
ASSUME ExpiryAssumption == Expiry \in BOOLEAN
ASSUME MaxEntriesAssumption == MaxEntries \in Nat \ {0}

VARIABLES
    keys,       \* h.keys.entries
    job         \* the requests: program counter and local variables

vars == <<bridgeVars, keys, job>>

Providers == {"jellyfin", "plex", "none"}

Errors == {"none", "transient", "definitive"}

(* What resolveStreamKeyCached returns. *)
Resolution == [provider : Providers, item : Items, source : Items, err : Errors]

Entry == [is : Resolution, failed : BOOLEAN, master : Items, query : Items,
          old : BOOLEAN]

NoResolution == [provider |-> "none", item |-> 0, source |-> 0, err |-> "none"]

(* Mutant: the error of a resolution is not stored with it. *)
NewEntryNoError(x) == [is |-> [x EXCEPT !.source = 0, !.err = "none"], failed |-> FALSE,
                       master |-> 0, query |-> 0, old |-> FALSE]

(* old: the entry is past its expiry, but still in the map. *)
NewEntry(x) == [is |-> [x EXCEPT !.source = 0], failed |-> FALSE,
                master |-> 0, query |-> 0, old |-> FALSE]

(* Where a request is: waiting for the client, or about to do this. *)
Points == {"idle", "lookup", "resolve", "store", "pinQuery", "check",
           "bridge", "set", "setSource", "markFailed", "master", "negotiate",
           "setMaster", "setQuery", "fetchPlex", "fetch", "del"}

Job == [pc : Points,
        kind : Kinds \cup {Null}, key : Keys \cup {Null},
        is : Resolution,
        target : Items,     \* the item of the URL to serve
        query : Items]      \* the item of the query re-injected in a segment

Idle == [pc |-> "idle", kind |-> Null, key |-> Null, is |-> NoResolution,
         target |-> 0, query |-> 0]

Init ==
    /\ BridgeInit
    /\ keys = [k \in Keys |-> Null]
    /\ job = [r \in Requests |-> Idle]

-----------------------------------------------------------------------------
(* The cache: each operation is one critical section of its mutex.         *)

Held == {k \in Keys : keys[k] # Null}

(* get: an entry past its expiry is deleted and not returned. *)
Hit(k) == k \in Held /\ ~keys[k].old

GetLeaves(k) ==
    keys' = [keys EXCEPT ![k] = IF Hit(k) THEN @ ELSE Null]

(* Mutant: the map is reset one entry late. *)
PutLate(k, x) ==
    keys' = [j \in Keys |->
               IF j = k THEN NewEntry(x)
               ELSE IF Cardinality(Held) > MaxEntries THEN Null ELSE keys[j]]

(* set: a full map is reset first, whether it holds k or not. *)
Put(k, x) ==
    keys' = [j \in Keys |->
               IF j = k THEN NewEntry(x)
               ELSE IF Cardinality(Held) >= MaxEntries THEN Null ELSE keys[j]]

(* The setters write to whatever entry is there now, if there is one. *)
Amend(k, e) == keys' = [keys EXCEPT ![k] = IF k \in Held THEN e ELSE Null]

(* The clock passes an entry's expiry. *)
Expire(k) ==
    /\ Expiry /\ Hit(k)
    /\ keys' = [keys EXCEPT ![k].old = TRUE]
    /\ UNCHANGED <<bridgeVars, job>>

-----------------------------------------------------------------------------
Goto(r, pc) == job' = [job EXCEPT ![r].pc = pc]

Finish(r) == job' = [job EXCEPT ![r] = Idle]

(* Request j goes on with resolution x: a segment is fetched under the     *)
(* item itself, the rest needs a master.                                   *)
Serve(j, x) ==
    IF j.kind = "segment"
    THEN [j EXCEPT !.pc = "fetch", !.is = x, !.target = x.item]
    ELSE [j EXCEPT !.pc = "master", !.is = x]

Route(j, x) ==
    IF x.provider = "jellyfin" THEN Serve(j, x) ELSE [j EXCEPT !.pc = "check", !.is = x]

(* An error is answered; a segment's query is read from the cache before   *)
(* the branch on the provider.                                             *)
Resolved(j, x) ==
    IF x.err # "none" THEN Idle
    ELSE IF j.kind = "segment" THEN [j EXCEPT !.pc = "pinQuery", !.is = x]
    ELSE Route(j, x)

Continue(r, j) == job' = [job EXCEPT ![r] = j]

With(r, x, pc) == Continue(r, [job[r] EXCEPT !.pc = pc, !.is = x])

Arrive(r, k, kind) ==
    /\ job[r].pc = "idle"
    /\ job' = [job EXCEPT ![r] = [Idle EXCEPT !.pc = "lookup", !.kind = kind, !.key = k]]
    /\ UNCHANGED <<bridgeVars, keys>>

Lookup(r) ==
    LET k == job[r].key IN
    /\ job[r].pc = "lookup"
    /\ \/ Hit(k) /\ Continue(r, Resolved(job[r], keys[k].is))
       \/ ~Hit(k) /\ Goto(r, "resolve")
    /\ GetLeaves(k)
    /\ UNCHANGED bridgeVars

(* resolveStreamKey: the media server's item if it has one and answers,    *)
(* else the Plex key, else an error; a request cancelled here fails with a *)
(* transient error.                                                        *)
Resolve(r) ==
    /\ job[r].pc = "resolve"
    /\ \/ /\ live[job[r].key] # 0
          /\ With(r, [NoResolution EXCEPT !.provider = "jellyfin",
                                          !.item = live[job[r].key]], "store")
       \/ With(r, [NoResolution EXCEPT !.provider = "plex"], "store")
       \/ \E e \in ResolveErrors :
             With(r, [NoResolution EXCEPT !.err = e], "store")
    /\ UNCHANGED <<bridgeVars, keys>>

(* h.keys.set with whatever the resolution was, errors included. *)
Store(r) ==
    /\ job[r].pc = "store"
    /\ Put(job[r].key, job[r].is)
    /\ Continue(r, Resolved(job[r], job[r].is))
    /\ UNCHANGED bridgeVars

PinQuery(r) ==
    LET k == job[r].key IN
    /\ job[r].pc = "pinQuery"
    /\ LET q == IF Hit(k) THEN keys[k].query ELSE 0 IN
       Continue(r, Route([job[r] EXCEPT !.query = q], job[r].is))
    /\ GetLeaves(k)
    /\ UNCHANGED bridgeVars

(* GetStreamURL answers with a Plex URL, the proxy fetches it. *)
ServePlex(r) == IF job[r].kind = "stream" THEN Finish(r) ELSE Goto(r, "fetchPlex")

(* The second look at the cache, for bridgeFailed. *)
Check(r) ==
    LET k == job[r].key IN
    /\ job[r].pc = "check"
    /\ \/ job[r].is.source # 0 /\ Continue(r, Serve(job[r], job[r].is))
       \/ /\ job[r].is.source = 0
          /\ \/ Hit(k) /\ keys[k].failed /\ ServePlex(r)
             \/ ~(Hit(k) /\ keys[k].failed) /\ Goto(r, "bridge")
    /\ GetLeaves(k)
    /\ UNCHANGED bridgeVars

-----------------------------------------------------------------------------
(* The bridge, and what its result does to the cache                       *)

EnterBridge(r) ==
    /\ job[r].pc = "bridge"
    /\ Enter(r, job[r].key)
    /\ UNCHANGED <<keys, job>>

(* A success goes to the cache; an authentication failure is answered, a   *)
(* transient one falls back to Plex, a definitive one is remembered first. *)
AfterBridge(r, err) ==
    CASE err = "none"       -> With(r, [provider |-> "jellyfin", item |-> Outcome(r).item,
                                        source |-> IF Outcome(r).pinned
                                                   THEN Outcome(r).item ELSE 0,
                                        err |-> "none"], "set")
      [] err = "auth"       -> Finish(r)
      [] err = "transient"  -> ServePlex(r)
      [] err = "definitive" -> Goto(r, "markFailed")

LeaveBridge(r) ==
    /\ job[r].pc = "bridge"
    /\ Leave(r)
    /\ AfterBridge(r, Outcome(r).err)
    /\ UNCHANGED keys

SetEntry(r) ==
    /\ job[r].pc = "set"
    /\ Put(job[r].key, job[r].is)
    /\ Goto(r, "setSource")
    /\ UNCHANGED bridgeVars

SetSource(r) ==
    LET k == job[r].key IN
    /\ job[r].pc = "setSource"
    /\ Amend(k, [keys[k] EXCEPT !.is.source = job[r].is.source])
    /\ Continue(r, Serve(job[r], job[r].is))
    /\ UNCHANGED bridgeVars

MarkFailed(r) ==
    LET k == job[r].key IN
    /\ job[r].pc = "markFailed"
    /\ Amend(k, [keys[k] EXCEPT !.failed = TRUE])
    /\ ServePlex(r)
    /\ UNCHANGED bridgeVars

-----------------------------------------------------------------------------
(* jellyfinMasterURL, and the proxy's fetch of it                          *)

(* What the endpoint does with the master of item i. *)
Hand(r, i) ==
    IF job[r].kind = "stream" THEN Finish(r)
    ELSE job' = [job EXCEPT ![r] = [@ EXCEPT !.pc = "setQuery", !.target = i]]

Master(r) ==
    LET k == job[r].key IN
    /\ job[r].pc = "master"
    /\ \/ Hit(k) /\ keys[k].master # 0 /\ Hand(r, keys[k].master)
       \/ ~(Hit(k) /\ keys[k].master # 0) /\ Goto(r, "negotiate")
    /\ GetLeaves(k)
    /\ UNCHANGED bridgeVars

(* PlaybackInfo answers for an item the media server knows; otherwise, or  *)
(* when it fails, the master URL is put together by hand and not cached.   *)
Negotiate(r) ==
    LET i == job[r].is.item IN
    /\ job[r].pc = "negotiate"
    /\ \/ /\ i # 0 /\ i = live[job[r].key]
          /\ Goto(r, "setMaster")
       \/ Hand(r, i)
    /\ UNCHANGED <<bridgeVars, keys>>

SetMaster(r) ==
    LET k == job[r].key IN
    /\ job[r].pc = "setMaster"
    /\ Amend(k, [keys[k] EXCEPT !.master = job[r].is.item])
    /\ Hand(r, job[r].is.item)
    /\ UNCHANGED bridgeVars

SetQuery(r) ==
    LET k == job[r].key IN
    /\ job[r].pc = "setQuery"
    /\ Amend(k, [keys[k] EXCEPT !.query = job[r].target])
    /\ Goto(r, "fetch")
    /\ UNCHANGED bridgeVars

(* The media server serves an item it knows, in a session of that item.    *)
Playable(r) ==
    LET i == live[job[r].key] IN
    /\ i # 0 /\ job[r].target = i
    /\ job[r].kind = "segment" => job[r].query \in {0, i}

(* Mutant: a refused master stays in the cache. *)
FetchKeepsEntry(r) ==
    /\ job[r].pc = "fetch"
    /\ Finish(r)
    /\ UNCHANGED <<bridgeVars, keys>>

(* The upstream answered: 2xx is passed on; anything else, also the refusal *)
(* of a session that died, removes the entry.                               *)
Fetch(r) ==
    /\ job[r].pc = "fetch"
    /\ \/ Playable(r) /\ Finish(r)
       \/ Goto(r, "del")
    /\ UNCHANGED <<bridgeVars, keys>>

FetchPlex(r) ==
    /\ job[r].pc = "fetchPlex"
    /\ Finish(r) \/ Goto(r, "del")
    /\ UNCHANGED <<bridgeVars, keys>>

(* The upstream cannot be reached, or the request was cancelled.           *)
FetchFails(r) ==
    /\ job[r].pc \in {"fetch", "fetchPlex"}
    /\ Finish(r)
    /\ UNCHANGED <<bridgeVars, keys>>

Del(r) ==
    /\ job[r].pc = "del"
    /\ keys' = [keys EXCEPT ![job[r].key] = Null]
    /\ Finish(r)
    /\ UNCHANGED bridgeVars

-----------------------------------------------------------------------------
BridgeStep ==
    /\ \/ \E r \in Requests : Take(r) \/ Cancel(r) \/ Remove(r)
       \/ \E c \in Calls : Bridge(c)
       \/ Mirror
       \/ \E k \in Keys : Rescan(k)
    /\ UNCHANGED <<keys, job>>

Handle(r) ==
    \/ Lookup(r) \/ Resolve(r) \/ Store(r) \/ PinQuery(r) \/ Check(r)
    \/ EnterBridge(r) \/ LeaveBridge(r) \/ SetEntry(r) \/ SetSource(r) \/ MarkFailed(r)
    \/ Master(r) \/ Negotiate(r) \/ SetMaster(r) \/ SetQuery(r)
    \/ Fetch(r) \/ FetchPlex(r) \/ FetchFails(r) \/ Del(r)

NextStream ==
    \/ BridgeStep
    \/ \E r \in Requests :
          \/ Handle(r)
          \/ \E k \in Keys, kind \in Kinds : Arrive(r, k, kind)
    \/ \E k \in Keys : Expire(k)

StreamSpec == Init /\ [][NextStream]_vars

(* Handlers are scheduled, and a call to the media server ends by its      *)
(* timeout.                                                                *)
HandlerFairness ==
    /\ \A r \in Requests :
          /\ WF_vars(Handle(r))
          /\ WF_vars((Take(r) \/ Remove(r)) /\ UNCHANGED <<keys, job>>)
    /\ \A c \in Calls : WF_vars(Bridge(c) /\ UNCHANGED <<keys, job>>)

(* The player keeps asking for the manifest, and is answered now and then. *)
PlayerFairness ==
    \A r \in Requests :
        /\ \A k \in Keys : WF_vars(Arrive(r, k, "manifest"))
        /\ SF_vars(Fetch(r))

FairSpec == StreamSpec /\ HandlerFairness /\ PlayerFairness

-----------------------------------------------------------------------------
(* A resolution that means something: an error or a provider, and from the *)
(* media server an item.                                                   *)
Meaningful(x) ==
    /\ x.err = "none" <=> x.provider # "none"
    /\ x.provider = "jellyfin" => x.item # 0

(* Requests and entries are well formed, and an entry is an error or names *)
(* what to serve: its readers branch on the provider after the error.      *)
StreamTypeOK ==
    /\ keys \in [Keys -> Entry \cup {Null}]
    /\ job \in [Requests -> Job]
    /\ \A k \in Held : Meaningful(keys[k].is)

(* The cache never holds more entries than its limit.                      *)
CacheBounded == Cardinality(Held) <= MaxEntries

(* The item a manifest request served from entry e asks the media server   *)
(* for; an entry that leads to one the media server does not have is dead. *)
Leads(e) ==
    IF e.master # 0 THEN e.master
    ELSE IF e.is.provider = "jellyfin" THEN e.is.item ELSE 0

Dead(k) ==
    /\ Hit(k)
    /\ \/ keys[k].is.provider = "jellyfin"
       \/ keys[k].is.provider = "plex" /\ keys[k].is.source # 0
    /\ Leads(keys[k]) = 0 \/ Leads(keys[k]) # live[k]

(* The proxy heals the cache: with players that keep asking for the        *)
(* manifest, a dead entry does not last, whichever races produced it.      *)
DeadEntriesHeal == \A k \in Keys : Dead(k) ~> ~Dead(k)

(* "Bridge already succeeded - key is the Jellyfin item ID": an entry with *)
(* a media source id has a Jellyfin key.  The code breaks it: another      *)
(* request's resolution lands between set and setMediaSourceId.            *)
SourceGoesWithItem ==
    \A k \in Held : keys[k].is.source # 0 => keys[k].is.provider = "jellyfin"

=============================================================================
