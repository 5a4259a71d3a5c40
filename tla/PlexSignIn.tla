----------------------------- MODULE PlexSignIn -----------------------------
(***************************************************************************)
(* Signing in to Plex and the one "plex" row of source_configs.            *)
(*                                                                         *)
(* services/plex_auth.go keeps an unfinished sign-in per plex.tv pin in a  *)
(* map under plexAuthMu.  AuthStatus polls plex.tv between two looks at    *)
(* the map; AuthConnect takes the sign-in out of the map and only then     *)
(* asks plex.tv for the server, probes it and writes the row.  GetIdentity *)
(* pings the configured server and merges its machineIdentifier into the   *)
(* row, and the settings page edits or deletes the row by id.  Every       *)
(* writer reads the row, and writes all of it back in a later statement.   *)
(*                                                                         *)
(* A request takes one step per critical section of the map, statement or  *)
(* remote call, and is used once, except that a poll which is over may be  *)
(* sent again.  An account token is named by the pin it was obtained with; *)
(* a server's url, access token and machineIdentifier by the server.       *)
(***************************************************************************)
CONSTANTS Pins, Servers, Requests,
          EnvServer,  \* the server the environment configures, or Null
          Setup,      \* the id of a row that is there from the start
          Null

ASSUME PlexDistinct ==
    /\ Null \notin Pins \cup Servers \cup Requests \cup {Setup}
    /\ Setup \notin Requests
    /\ EnvServer \in Servers \cup {Null}

VARIABLES
    issued,      \* the pins plex.tv handed out
    authorized,  \* the pins their user authorized at plex.tv
    store,       \* plexAuthStore
    row,         \* the "plex" row of source_configs
    req          \* the requests

vars == <<issued, authorized, store, row, req>>

Session == [hasToken : BOOLEAN, aged : BOOLEAN]
Config == [account : Pins \cup {Null}, server : Servers, machine : Servers \cup {Null}]
Row == [id : Requests \cup {Setup}, enabled : BOOLEAN, config : Config]

\* An update of the row: a Null field is left as it is.
Change == [id : Requests \cup {Setup}, enabled : BOOLEAN \cup {Null}, config : Config \cup {Null}]

ASSUME NullIsNoRecord == Null \notin Config \cup Change

Ops == {"none", "status", "connect", "identity", "add", "edit", "delete"}
Request == [op : Ops,
            pc : {"idle", "poll", "fetch", "list", "device", "find", "create",
                  "identify", "merge", "load", "save", "done"},
            pin : Pins \cup {Null}, server : Servers \cup {Null},
            token : BOOLEAN,          \* its copy of the session has the account token
            change : Change \cup {Null}]

NoRequest == [op |-> "none", pc |-> "idle", pin |-> Null, server |-> Null,
              token |-> FALSE, change |-> Null]

\* What the settings page writes: a url and a token, no account.
Typed(s) == [account |-> Null, server |-> s, machine |-> Null]

Init ==
    /\ issued = {} /\ authorized = {}
    /\ store = [p \in Pins |-> Null]
    /\ row \in {Null} \cup {[id |-> Setup, enabled |-> TRUE, config |-> Typed(s)] : s \in Servers}
    /\ req = [r \in Requests |-> NoRequest]

---------------------------------------------------------------------------
(* The map of unfinished sign-ins *)

\* CreatePlexAuthPin, once plex.tv answered with a pin.
AuthStart(p) ==
    /\ p \notin issued
    /\ issued' = issued \cup {p}
    /\ store' = [store EXCEPT ![p] = [hasToken |-> FALSE, aged |-> FALSE]]
    /\ UNCHANGED <<authorized, row, req>>

\* The user authorizes the code on app.plex.tv.
Authorize(p) ==
    /\ p \in issued \ authorized
    /\ authorized' = authorized \cup {p}
    /\ UNCHANGED <<issued, store, row, req>>

\* plexAuthTTL passes for a sign-in.
Age(p) ==
    /\ store[p] # Null /\ ~store[p].aged
    /\ store' = [store EXCEPT ![p] = [@ EXCEPT !.aged = TRUE]]
    /\ UNCHANGED <<issued, authorized, row, req>>

Present(p) == store[p] # Null /\ ~store[p].aged

\* getPlexAuthSession: an aged sign-in is dropped by the look that finds it.
Look(p) == store' = IF Present(p) THEN store ELSE [store EXCEPT ![p] = Null]

Goto(r, pc) == req' = [req EXCEPT ![r] = [@ EXCEPT !.pc = pc]]

\* The sign-in page polls again and again: a poll that is over can be sent anew.
Free(r) == req[r].pc = "idle" \/ (req[r].op = "status" /\ req[r].pc = "done")

Status(r, p) ==
    /\ Free(r)
    /\ Look(p)
    /\ req' = [req EXCEPT ![r] = [NoRequest EXCEPT
                   !.op = "status", !.pin = p, !.pc = IF Present(p) THEN "poll" ELSE "done"]]
    /\ UNCHANGED <<issued, authorized, row>>

\* Mutant: the token is stored whether or not the sign-in is still there.
StoreTokenAnyway(p) == store' = [store EXCEPT ![p] = [hasToken |-> TRUE, aged |-> FALSE]]

\* The token is stored only in a sign-in that is still there.
StoreToken(p) ==
    store' = IF store[p] = Null THEN store
             ELSE [store EXCEPT ![p] = [@ EXCEPT !.hasToken = TRUE]]

\* plex.tv answers the poll.
Poll(r) ==
    /\ req[r].pc = "poll"
    /\ req[r].pin \in authorized
    /\ StoreToken(req[r].pin)
    /\ Goto(r, "fetch")
    /\ UNCHANGED <<issued, authorized, row>>

\* GetPlexAuthSession, for the token the servers are listed with.
Fetch(r) ==
    /\ req[r].pc = "fetch"
    /\ LET p == req[r].pin
       IN  /\ Look(p)
           /\ req' = [req EXCEPT ![r] = [@ EXCEPT
                          !.pc = IF Present(p) THEN "list" ELSE "done",
                          !.token = Present(p) /\ store[p].hasToken]]
    /\ UNCHANGED <<issued, authorized, row>>

\* Mutant: a sign-in that is still pending is accepted.
ClaimPending(r, p, s) ==
    /\ req[r].pc = "idle"
    /\ req' = [req EXCEPT ![r] = [NoRequest EXCEPT
                   !.op = "connect", !.pin = p, !.server = s,
                   !.token = store[p] # Null /\ store[p].hasToken,
                   !.pc = IF store[p] # Null THEN "device" ELSE "done"]]
    /\ store' = [store EXCEPT ![p] = Null]
    /\ UNCHANGED <<issued, authorized, row>>

\* claimPlexAuthSession.
Consume(p) == store' = [store EXCEPT ![p] = Null]

\* ClaimPlexAuthSession: taken out whatever its age and whether or not the
\* user has authorized it; only one with the token goes on.
Claim(r, p, s) ==
    /\ req[r].pc = "idle"
    /\ LET signedIn == store[p] # Null /\ store[p].hasToken
       IN  req' = [req EXCEPT ![r] = [NoRequest EXCEPT
                       !.op = "connect", !.pin = p, !.server = s, !.token = signedIn,
                       !.pc = IF signedIn THEN "device" ELSE "done"]]
    /\ Consume(p)
    /\ UNCHANGED <<issued, authorized, row>>

---------------------------------------------------------------------------
(* The row *)

\* AuthConnect: the server is resolved and reachable.
Device(r) ==
    /\ req[r].pc = "device"
    /\ Goto(r, "find")
    /\ UNCHANGED <<issued, authorized, store, row>>

Chosen(r) == [account |-> req[r].pin, server |-> req[r].server, machine |-> req[r].server]

\* GetBySourceType: the row it finds is updated, otherwise one is created.
FindRow(r, found) ==
    req' = [req EXCEPT ![r] = [@ EXCEPT
               !.pc = IF found = Null THEN "create" ELSE "load",
               !.change = [id |-> IF found = Null THEN r ELSE found.id,
                           enabled |-> TRUE, config |-> Chosen(r)]]]

\* A query that fails for any other reason is taken for a row not found.
Find(r) ==
    /\ req[r].pc = "find"
    /\ FindRow(r, row) \/ FindRow(r, Null)
    /\ UNCHANGED <<issued, authorized, store, row>>

\* The settings page adds the source itself.
Add(r) ==
    /\ req[r].pc = "idle"
    /\ \E en \in BOOLEAN, s \in Servers :
          req' = [req EXCEPT ![r] = [NoRequest EXCEPT
                      !.op = "add", !.pc = "create",
                      !.change = [id |-> r, enabled |-> en, config |-> Typed(s)]]]
    /\ UNCHANGED <<issued, authorized, store, row>>

\* LibraryService.Create: source_type is unique.
Create(r) ==
    /\ req[r].pc = "create"
    /\ row' = IF row = Null THEN req[r].change ELSE row
    /\ Goto(r, "done")
    /\ UNCHANGED <<issued, authorized, store>>

\* GetIdentity asks the server of the enabled row, otherwise the one the
\* environment configures.
Resolved == IF row # Null /\ row.enabled THEN row.config.server ELSE EnvServer

Identity(r) ==
    /\ req[r].pc = "idle"
    /\ Resolved # Null
    /\ req' = [req EXCEPT ![r] = [NoRequest EXCEPT
                   !.op = "identity", !.server = Resolved, !.pc = "identify"]]
    /\ UNCHANGED <<issued, authorized, store, row>>

Identify(r) ==
    /\ req[r].pc = "identify"
    /\ Goto(r, "merge")
    /\ UNCHANGED <<issued, authorized, store, row>>

\* persistMachineIdentifier reads the row again and merges the identifier
\* into the config it reads.
Merge(r) ==
    /\ req[r].pc = "merge"
    /\ req' = [req EXCEPT ![r] =
                  IF row = Null \/ row.config.machine = @.server
                  THEN [@ EXCEPT !.pc = "done"]
                  ELSE [@ EXCEPT !.pc = "load",
                            !.change = [id |-> row.id, enabled |-> Null,
                                        config |-> [row.config EXCEPT !.machine = req[r].server]]]]
    /\ UNCHANGED <<issued, authorized, store, row>>

\* The settings page, on the row it shows.
Edit(r) ==
    /\ req[r].pc = "idle" /\ row # Null
    /\ \E en \in BOOLEAN \cup {Null}, c \in {Null} \cup {Typed(s) : s \in Servers} :
          req' = [req EXCEPT ![r] = [NoRequest EXCEPT
                      !.op = "edit", !.pc = "load",
                      !.change = [id |-> row.id, enabled |-> en, config |-> c]]]
    /\ UNCHANGED <<issued, authorized, store, row>>

Delete(r) ==
    /\ req[r].pc = "idle" /\ row # Null
    /\ row' = Null
    /\ req' = [req EXCEPT ![r] = [NoRequest EXCEPT !.op = "delete", !.pc = "done"]]
    /\ UNCHANGED <<issued, authorized, store>>

\* Mutant: an absent "enabled" is saved as it came.
ChangedUnset(old, change) ==
    [id |-> old.id, enabled |-> change.enabled,
     config |-> IF change.config = Null THEN old.config ELSE change.config]

\* Mutant: the new config is merged over the old one.
ChangedMerged(old, change) ==
    [id |-> old.id,
     enabled |-> IF change.enabled = Null THEN old.enabled ELSE change.enabled,
     config |-> IF change.config = Null THEN old.config
                ELSE [change.config EXCEPT
                          !.account = IF @ = Null THEN old.config.account ELSE @]]

Changed(old, change) ==
    [id |-> old.id,
     enabled |-> IF change.enabled = Null THEN old.enabled ELSE change.enabled,
     config |-> IF change.config = Null THEN old.config ELSE change.config]

\* LibraryService.Update reads the row by its id, ...
Load(r) ==
    /\ req[r].pc = "load"
    /\ req' = [req EXCEPT ![r] =
                  IF row # Null /\ row.id = @.change.id
                  THEN [@ EXCEPT !.pc = "save", !.change = Changed(row, req[r].change)]
                  ELSE [@ EXCEPT !.pc = "done"]]
    /\ UNCHANGED <<issued, authorized, store, row>>

\* ... and saves every column of what it read: gorm's Save inserts the row
\* again when it is gone, which the unique source_type refuses when another
\* has taken its place.
Save(r) ==
    /\ req[r].pc = "save"
    /\ row' = IF row = Null \/ row.id = req[r].change.id
              THEN req[r].change ELSE row
    /\ Goto(r, "done")
    /\ UNCHANGED <<issued, authorized, store>>

\* A remote call or a statement fails, plex.tv says the code is still
\* pending, or the servers have been listed: the request ends.
End(r) ==
    /\ req[r].pc \in {"poll", "list", "device", "create", "identify", "merge", "load", "save"}
    /\ Goto(r, "done")
    /\ UNCHANGED <<issued, authorized, store, row>>

---------------------------------------------------------------------------
SignIn(r) ==
    \/ \E p \in Pins : Status(r, p) \/ (\E s \in Servers : Claim(r, p, s))
    \/ Poll(r) \/ Fetch(r) \/ Device(r)

RowStep(r) ==
    \/ Find(r) \/ Add(r) \/ Create(r)
    \/ Identity(r) \/ Identify(r) \/ Merge(r)
    \/ Edit(r) \/ Delete(r) \/ Load(r) \/ Save(r)

Next ==
    \/ \E p \in Pins : AuthStart(p) \/ Authorize(p) \/ Age(p)
    \/ \E r \in Requests : SignIn(r) \/ RowStep(r) \/ End(r)

Spec == Init /\ [][Next]_vars

---------------------------------------------------------------------------
(* Properties *)

\* Types of the map, the row and the requests.
TypeOK ==
    /\ issued \subseteq Pins /\ authorized \subseteq issued
    /\ store \in [Pins -> Session \cup {Null}]
    /\ row \in Row \cup {Null}
    /\ req \in [Requests -> Request]

Connecting(r, p) == req[r].op = "connect" /\ req[r].pin = p /\ req[r].token

\* A sign-in serves one connect: however AuthConnect requests and polls that
\* are still waiting for plex.tv interleave, no poll puts back a sign-in that
\* was claimed (ClaimPlexAuthSession "is called exactly once").
ClaimedOnce ==
    \A p \in Pins, r, q \in Requests : Connecting(r, p) /\ Connecting(q, p) => r = q

\* Whoever goes on to ask plex.tv for an account's servers, to list or to
\* connect, holds the token of an account whose user authorized the pin, also
\* when the sign-in it looked at was claimed or aged in between.
TokenHeld ==
    \A r \in Requests :
        /\ req[r].pc \in {"list", "device", "find"} => req[r].token
        /\ req[r].token => req[r].pin \in authorized

\* The account token of a config belongs to the connect that picked its
\* server, and its sign-in is gone.
Whole(c) ==
    c.account # Null =>
        /\ store[c.account] = Null
        /\ \E r \in Requests : Connecting(r, c.account) /\ req[r].server = c.server

\* Connects, edits, pings and deletions that write back rows they read
\* earlier never pair the account of one sign-in with the server of another,
\* in the row or in what is about to be saved.
ConnectionIsWhole ==
    /\ row # Null => Whole(row.config)
    /\ \A r \in Requests :
          req[r].change # Null => (req[r].change.config # Null => Whole(req[r].change.config))

=============================================================================
