---------------------------- MODULE PlexResolver ----------------------------
(***************************************************************************)
(* plexClientResolver of routes/plex.go: the Plex client that the Plex,    *)
(* AniList and media source handlers ask for, each of one resolver.  It is *)
(* taken from the enabled "plex" row of source_configs, and from the       *)
(* environment when there is none that is usable; the one from the row is  *)
(* cached with the row's updatedAt as its key.  The concurrent requests of *)
(* a handler share the cached client, its key and the dbNone flag without  *)
(* a lock, so that each assignment to one of them is a step.  A client is  *)
(* named by the key of the row it was built from.                          *)
(***************************************************************************)
EXTENDS Naturals, Sequences

CONSTANTS Requests,
          MaxSaves,    \* bound on the saves of the row
          Env, Disabled, Null

ASSUME ResolverAssumption ==
    /\ MaxSaves \in Nat
    /\ Env \notin Nat /\ Disabled \notin Nat \cup {Env} /\ Null \notin Nat \cup {Env, Disabled}

VARIABLES
    hasEnv,   \* the environment configures a server
    row,      \* the row as other handlers save it
    saves,    \* updatedAt of its last save
    cached,   \* client, dbKey and dbNone of the resolver
    req       \* the calls of resolve

vars == <<hasEnv, row, saves, cached, req>>

Keys == 1 .. MaxSaves
NoKey == 0
Row == [key : Keys, enabled : BOOLEAN, usable : BOOLEAN]

Cached == [client : Keys \cup {Env, Null}, dbKey : Keys \cup {NoKey}, dbNone : BOOLEAN]

\* Assignments still to be made to the cached fields.
Set(field, v) == [field |-> field, value |-> v]
UseRow(key) == <<Set("client", key), Set("dbKey", key), Set("dbNone", FALSE)>>
DropClient == <<Set("client", Null), Set("dbKey", NoKey)>>
UseEnv == <<Set("client", Env), Set("dbKey", NoKey), Set("dbNone", TRUE)>>

Idle == [pc |-> "idle", read |-> Null, todo |-> <<>>, got |-> Null]

Init ==
    /\ hasEnv \in BOOLEAN
    /\ row = Null /\ saves = 0
    /\ cached = [client |-> IF hasEnv THEN Env ELSE Null, dbKey |-> NoKey, dbNone |-> FALSE]
    /\ req = [r \in Requests |-> Idle]

\* A handler that saves or deletes the row.
SaveRow ==
    /\ saves < MaxSaves
    /\ saves' = saves + 1
    /\ \E en, ok \in BOOLEAN : row' = [key |-> saves + 1, enabled |-> en, usable |-> ok]
    /\ UNCHANGED <<hasEnv, cached, req>>

DeleteRow ==
    /\ row # Null /\ row' = Null
    /\ UNCHANGED <<hasEnv, saves, cached, req>>

At(r, pc) == req[r].pc = pc
Goto(r, pc) == req' = [req EXCEPT ![r] = [@ EXCEPT !.pc = pc]]

\* GetBySourceType; a failing query counts as no row.
Read(r) ==
    /\ At(r, "idle")
    /\ \E found \in {row, Null} :
          req' = [req EXCEPT ![r] = [Idle EXCEPT
                      !.read = found,
                      !.pc = IF found # Null /\ found.enabled
                             THEN "check" ELSE "other"]]
    /\ UNCHANGED <<hasEnv, row, saves, cached>>

\* Mutant: the client of a row leaves the flag of the environment's standing.
RebuildKeepsFlag(read) ==
    IF read.usable THEN <<Set("client", read.key), Set("dbKey", read.key)>> ELSE DropClient

Rebuild(read) == IF read.usable THEN UseRow(read.key) ELSE DropClient

Check(r) ==
    /\ At(r, "check")
    /\ LET fresh == cached.client # Null /\ cached.dbKey = req[r].read.key
       IN  req' = [req EXCEPT ![r] = [@ EXCEPT
                       !.pc = "serve", !.todo = IF fresh THEN <<>> ELSE Rebuild(req[r].read)]]
    /\ UNCHANGED <<hasEnv, row, saves, cached>>

Assign(r) ==
    /\ req[r].todo # <<>>
    /\ LET a == Head(req[r].todo)
       IN  cached' = [cached EXCEPT ![a.field] = a.value]
    /\ req' = [req EXCEPT ![r] = [@ EXCEPT !.todo = Tail(req[r].todo)]]
    /\ UNCHANGED <<hasEnv, row, saves>>

\* The row's client is returned unless it was dropped; otherwise the
\* environment's, or PLEX_DISABLED.
Choose(r) ==
    /\ req[r].todo = <<>>
    /\ \/ At(r, "serve") /\ cached.client # Null /\ ~cached.dbNone /\ Goto(r, "take")
       \/ At(r, "other") /\ cached.client # Null /\ cached.dbNone /\ Goto(r, "take")
       \/ /\ \/ At(r, "serve") /\ (cached.client = Null \/ cached.dbNone)
             \/ At(r, "other") /\ (cached.client = Null \/ ~cached.dbNone)
          /\ req' = [req EXCEPT ![r] =
                        IF hasEnv THEN [@ EXCEPT !.pc = "take", !.todo = UseEnv]
                        ELSE [@ EXCEPT !.pc = "done", !.got = Disabled]]
    /\ UNCHANGED <<hasEnv, row, saves, cached>>

\* return r.client
Take(r) ==
    /\ At(r, "take") /\ req[r].todo = <<>>
    /\ req' = [req EXCEPT ![r] = [@ EXCEPT !.pc = "done", !.got = cached.client]]
    /\ UNCHANGED <<hasEnv, row, saves, cached>>

Return(r) ==
    /\ At(r, "done")
    /\ req' = [req EXCEPT ![r] = Idle]
    /\ UNCHANGED <<hasEnv, row, saves, cached>>

Resolve(r) == Read(r) \/ Check(r) \/ Assign(r) \/ Choose(r) \/ Take(r) \/ Return(r)

Next == SaveRow \/ DeleteRow \/ \E r \in Requests : Resolve(r)

Spec == Init /\ [][Next]_vars

---------------------------------------------------------------------------
(* Properties *)

\* Types of the row, the cached fields and what the calls read and return.
TypeOK ==
    /\ hasEnv \in BOOLEAN
    /\ row \in Row \cup {Null} /\ saves \in 0 .. MaxSaves
    /\ cached \in Cached
    /\ \A r \in Requests : /\ req[r].read \in Row \cup {Null}
                           /\ req[r].got \in Keys \cup {Env, Disabled, Null}

\* The order of resolve's comment, on the row it reads.
Wanted(read) ==
    IF read # Null /\ read.enabled /\ read.usable THEN read.key
    ELSE IF hasEnv THEN Env ELSE Disabled

\* Calls that do not overlap return the client of the row they read, or of
\* the environment, whatever clients, keys and flags the rows that were saved,
\* disabled, broken and deleted before have left in the cache.
FollowsPriority == \A r \in Requests : At(r, "done") => req[r].got = Wanted(req[r].read)

\* As resolve's comment has it: the client is rebuilt whenever updatedAt
\* changes, so that a saved connection takes effect.  Between calls, the
\* client kept under the row's key is the row's.
CachedClientIsCurrent ==
    ((\A r \in Requests : At(r, "idle")) /\ row # Null) =>
        (cached.dbKey = row.key => cached.client = row.key)

=============================================================================
