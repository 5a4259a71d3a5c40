# kami-sama in TLA+

This directory is a verification project for kami-sama, an anime platform: a Go
API server (`server/`), a Next.js client (`apps/`), a Discord bot and a command
line client (`packages/`).  It holds TLA+ modules for the parts of server and
web client whose correctness depends on the order in which concurrent requests,
tabs, timers and callbacks run, TLC configurations that check them on small
instances, and theorems about them with proofs for TLAPS.  Paths below are
relative to the repository's root; `services/` and `routes/` are under
`server/src/`, `lib/`, `context/`, `app/` and `components/` under `apps/`.

Check a model with `tlc -config AuthSessions.cfg MCAuthSessions`, a proof with
`tlapm AuthSessions_proofs.tla`.  `PROJECT.json` is the index: the components,
the runs, the source lines behind every definition, the hazards and the
properties against them, and for each property a mutated definition that breaks it.

## 1. The system

The server is one process; each HTTP request is a goroutine.  Three kinds of
state are shared by requests:

- PostgreSQL through GORM, at READ COMMITTED, mostly one statement at a time.
  A repository `Update` is GORM's `Save`: it writes **every** column of the row
  as the handler read it, and inserts the row when it is gone.
- maps behind a mutex in the handlers and services (stream-key cache, bridges in
  flight, Plex sign-ins, presence), and a few fields with none;
- what other programs keep: Jellyfin's item table, plex.tv's pins, redis.

Nothing but the database outlives a crash, and no handler resumes work after
one; a crash is a transaction that does not commit and a memory that is empty.
There is no inventory of jobs, no queue between processes and no consensus.

A tab of the web client is one JavaScript thread that runs to completion: what is
concurrent are its awaits, timers, promises and media events, and the other tabs,
with which it shares localStorage, the cookie and a BroadcastChannel.

| Component | State | Operations | Interacts with | What makes it hard | What makes it correct |
|---|---|---|---|---|---|
| **Sessions and refresh tokens** (`services/auth_service.go`) | rows of `auth_sessions`, `auth_refresh_tokens` | login, refresh, logout, logout of all, revoke one | every authenticated request; the web client's refresh | refresh is up to eight statements; two tabs, a retry after a lost answer, a logout in between | chain of tokens is sound; revocation is final; a retry is not punished, a reuse is |
| **Stream bridge** (`routes/discover.go`, `services/jellyfin_client.go`) | `bridgeInflight`, the `.strm` files, Jellyfin's items | join or run a bridge, recover an item that does not resolve | stream resolution, Jellyfin mirror, Jellyfin | detached context, waiters with their own cancellation, re-created items | one bridge per key; every waiter gets its result and comes back |
| **Stream resolution and key cache** (`routes/discover.go`) | `streamKeyCache`, locals of a request | `GetStreamURL`, `ProxyStream`, the operations of the cache | bridge, Plex and Jellyfin | a request acts on what it read seconds and several cache operations ago | bounded; what is stale goes away |
| **Plex sign-in and connection** (`services/plex_auth.go`, `routes/plex.go`, `services/library.go`) | map of sign-ins, the `plex` row of `source_configs` | start, poll, connect, identity ping, settings create/update/delete | plex.tv, Plex servers | remote calls between two looks at the map; read, then save everything | a sign-in serves one connect; an account is stored with its own server |
| **Plex client resolver** (`routes/plex.go`) | `client`, `dbKey`, `dbNone`, no lock | `resolve` | the row above | unlocked fields, rows changing between calls | the client of the row, else of the environment, else an error |
| Accounts and one-time tokens (`services/auth_service.go`, `routes/auth.go`) | users, credentials, reset and verification tokens | register, verify, reset, change password, rehash at login | sessions | first-user rule outside the transaction; whole-row saves; token checked, used and consumed in separate statements | one first administrator; a token works once |
| Multi-factor authentication (`services/mfa_service.go`) | secrets, recovery codes | set up, enable, disable, validate, regenerate | login | find, then mark used; delete, then create | a code works once |
| Rate limiter (`services/auth_rate_limiter.go`) | a redis counter or a map | allow | login, register | INCR and EXPIRE are two calls | bounded attempts, no lasting lock-out |
| OAuth provider (`services/oauth.go`) | codes, clients | authorize, exchange | accounts, command line client | code used once | as for one-time tokens |
| Jellyfin mirror (`services/jellyfin_mirror.go`) | running flag, progress | start, run | bridge, catalog | pages by offset over rows that change | one run at a time; nothing skipped |
| MyAnimeList sync (`services/mal.go`), AniList import (`services/anilist.go`) | flag, list of recent jobs, titles | run, import | catalog | flag cleared on every path; find, then create | one sync; one row per title |
| Presence (`services/presence.go`) | redis keys or a map | online, offline, sweep | users | expiry in one of the two only | a user who left goes offline |
| Event bus (`services/realtime.go`), realtime client (`apps/lib/api/realtime`) | handlers; subscriptions | publish, subscribe | nothing publishes, and nothing imports the client, at this commit | reconnection | no event to a handler that left |
| Workspaces and profiles (`services/workspace.go`, `profile_service.go`) | members, roles, default profile | create, invite, switch | accounts | check outside, write inside a transaction | one owner, one default |
| **Web client: tokens** (`lib/api/auth.ts`, `lib/api/client.ts`) | module variables per tab, localStorage, the HttpOnly cookie, `refreshPromise` | refresh, retry after 401, bootstrap, login, logout | sessions; the session record | tabs sharing a cookie; a lost answer; answers after a logout | one refresh per tab; the retry is new; the server never takes the user for a thief |
| **Web client: session** (`context/AuthContext.tsx`, `lib/api/session-persistence.ts`) | session record, a copy per tab, what the page shows | restore, sync of tabs, periodic refresh, inactivity timeout | the tokens below it | BroadcastChannel messages and awaits of several tabs | no loading page flashes signed out; what went does not come back |
| **Web client: player** (`components/video-player/index.tsx`) | hls.js instances, refs, timers | error ladder, restart, unmount | the page | timers, promises and events that outlive the player | one stream; never stuck in silence; heard only while mounted |
| **Web client: watch page** (`app/(public)/[locale]/watch/[slug]/page.tsx`) | episode, stream, overlay, progress | select, resume, resolve, retry, save | stream endpoints, player, history | answers of requests nobody waits for any more | the stream is the episode's; the user's choice beats history |
| Discord bot (`packages/bot`), command line client (`packages/cli`) | cache, limiter, JSON store; local callback server | commands | API | shared store between commands | no lost update |
| Catalog, community, administration, recommendations, analytics, dashboard, media clients, middleware, schema, deployment, pages | rows, or none | reads and single-row writes | the database | little | nothing a model adds to |

The 29 components, with their sources and what of each is modelled, are in
`PROJECT.json` under `components`; the 40 hazards, each at its line, under
`hazards`.

## 2. Modules

```
SessionPromise  <-implements- AuthSessions      AuthSessions_proofs
SharedWork      <-implements- StreamBridge      StreamResolution_proofs, part one
                                   ^
                              StreamResolution  StreamResolution_proofs, part two
                              PlexSignIn        PlexSignIn_proofs
                              PlexResolver      PlexResolver_proofs
TokenService    <-implements- ClientTokens      ClientTokens_proofs
     ^---built on------------ WebSession        WebSession_proofs
PlayerPromise   <-implements- HlsPlayer         HlsPlayer_proofs
     ^---built on------------ WatchPage         WatchPage_proofs
```

Each model has an `MC` module for TLC that names the symmetry of its instance, or
nothing (PlexResolver is checked as it is).  The client is split at the promises
its code keeps at the same place: the context uses auth.ts through a handful of
functions, the page uses the player through three callbacks.  The lower module
implements the abstract one (a refinement, checked and proved), the upper one is
built on the abstract one instead of on the detail, so that neither run pays for
the other's states.

### AuthSessions, SessionPromise

`sess` and `tok` are the two tables, `req` the local variables of the refresh
requests.  `AuthService.Refresh` (auth_service.go:287-415) is one action per
statement: `Present` (find the token by its hash), `ReadSession` (read the
session and the clock, then branch on `UsedAt`), `ReadSibling` (a spent token's
replacement, which a client that lost the answer may still use),
`RereadSession`, `RevokeFamilySessions` and `RevokeFamilyTokens` (the reuse
branch outside the transaction), `TxRead`, `TxReadSibling`, `Commit`, `Fail`,
`Respond`.  `Login`, `Logout`, `RevokeSession`, `LogoutAll` and `Expire` are
single statements, or a transaction that reads nothing.

*Atomicity.*  The transaction runs at READ COMMITTED without locking its reads,
so each read is a step; its writes become visible together at COMMIT, which is
one step.  `Commit` writes back the token and session rows as they were read:
that is what `Save` does.  The family revocation inside the transaction returns
an error, hence rolls back, and leaves only its answer.  `CleanupExpired` is not
called anywhere, so rows are never deleted.  A family's tokens all expire with
their session, so expiry is a flag of the session.

`SessionPromise` is what the flow promises with tokens and statements left out:
a rotation is *admitted* while its session is active, and finishing it makes the
session active again; nothing else undoes a revocation.

### StreamBridge, SharedWork

`inflight` is `bridgeInflight`, `call` the `bridgeCall`s (and a mirror run's
work), `at` where each request is, `live` Jellyfin's current item per `.strm`
file, `due` whether a scan of it was asked for.  A critical section of `bridgeMu`
is a step (`Enter`, `Remove`), a call to Jellyfin is a step (`Scan`, `Find`,
`Verify`, `Poll`, `Source`), as is every way a bridge ends (`Break`: an error, or
the 90 seconds of its detached context).  `Cancel` is the `ctx.Done()` branch of a
waiter.  The mirror (`MirrorStart`, `Remote`, `MirrorEnd`) bridges the same files
without the map.

A bridge only *asks* for a scan (`Scan`, and `Verify` when the item is not resolved
or the question failed); Jellyfin comes to the file whenever it likes (`Rescan`), while
the bridge polls, after it has polled or long after it ended, once or several times, and
then creates the item, keeps it or re-creates it under another id.  That it may do the
last is taken from the comments of `bridgeStreamKey` and `ensureStrmItemRemote`.

`SharedWork` is a single-flight group: work per key is done once, everyone who
asked meanwhile gets its result or gives up.

### StreamResolution

Extends StreamBridge with `keys`, the stream-key cache, and `job`, the local
variables of `GetStreamURL` and `ProxyStream`: one action per cache operation or
remote call, in the handler's order.  An item, its media source id, its master
URL and its session query are all named by the item's number, so that "belongs
to another item" is inequality.  `Put` includes the reset of a full map, `get`
the deletion of an expired entry.  Both providers are taken to be configured.

### PlexSignIn

`store` is `plexAuthStore`, `row` the one `plex` row, `req` the requests (each is
used once, so that a finished one is the record of what it did, except that a poll
which is over may be sent again, as the sign-in page does).  `AuthStatus` is
`Status`, `Poll`, `Fetch`; `AuthConnect` is `Claim`, `Device`, `Find`, then
`Create` or `Load` and `Save`; `GetIdentity` is `Identity`, `Identify`, `Merge`,
then `Load` and `Save`; the settings page is `Add`, `Edit`, `Delete`.  `Save`
writes the row read by `Load` with the change merged in, and puts a row deleted
in between back.  A sign-in's age is a flag (`Age` passes `plexAuthTTL`).

### PlexResolver

`resolve` without a lock: every assignment to `client`, `dbKey` or `dbNone` is a
step (`Assign` takes the next of a `todo` list), and so is each read that decides;
the test of `client` and `dbKey` in one condition is one step.  The row is saved,
disabled, broken and deleted by other handlers at any time.

### ClientTokens, TokenService

`mem` is a tab's `accessToken` and `refreshToken`, `store` the same in
localStorage, `cookie` the HttpOnly one, `promise` whether `refreshPromise` is
set, `calls` the refreshes under way, `req` the requests of `fetchWithAuth`.  A
refresh presents the body token and, when that is refused, the cookie
(`ServerRefresh`, `RefreshArrives`, `BodyRefused`, `CookieRefused`); what an answer assigns and what the continuations that wait on
the promise do with it (`Resolve`, `ResumeRequest`, the end of `bootstrap`) is
one action, as microtasks run before the next event.  `server` is the rotation
of AuthSessions reduced to what the client can tell apart: the last token of a
session rotates, so does the one before it while its replacement is unused, an
older one is a reuse.

The page gives a refresh up when it times out or fails on its way (`RefreshLost`), and
when the page itself goes (`Unload`); neither stops the server.  `GiveUp` therefore lets
a refresh the server has not processed be lost or become one of the `strays`, tokens
that reach the server at any later time (`StrayRefresh`), beside the next page's refresh
or after it.  `lost` counts the rotations in a row whose token the browser did not get,
by a lost answer or by a stray; a new token it gets ends the row only if no stray has
rotated it in the meantime (`CaughtUp`).  The native app's SecureStore is not modelled,
nor are `logoutAll` and the password routes, and `options.retry` has its default 0.

`TokenService` is what the context sees of it: a refresh that resolves to a token
or to nothing, a bootstrap that ends with the refresh it joined, a logout.

### WebSession

Built on TokenService.  `record` is the session record in localStorage, `own` a
tab's copy of it, `ui` what its context shows, `inbox` the SESSION_SYNC messages
on their way, `timer` the inactivity timeout.  One event in one tab is worked out
on a *world* (`World`, `Commit`, `Broadcast`) because the code runs through
several functions that read back what the last one wrote.  A record is named by
its access token; how old it is, is a choice of the read (fresh, due, expired), so that
what a refresh does when it ends (`AutoContinues`) is a set of worlds: `loadSession`
clears a record that has expired.

### HlsPlayer, PlayerPromise

A *life* is a mounted player with its own refs; its hls.js instances are copies 1
and 2 (the restart).  `Event` is the ERROR handler with its ladder: network errors
with a backoff while the budget lasts, two recoveries from fatal media errors, then
one restart of the stream, then the banner; `StartLoad` and `Restart` are the timers it sets,
`PlaySettles` the promise of `play()`.  Callbacks of a life that is over may still
run: what they do is what `mountedRef` and the cleanups leave them.

hls.js is external, and modelled as far as the handler relies on it.  It asks for a
manifest once: an instance whose manifest did not come to be parsed is `lost`, and
`startLoad()` changes nothing about it.  Any other instance is loading after `startLoad()`
(`Started`), one that was destroyed included, so that only the code's own guard
(index.tsx:550) stands between a late timer and a stream nobody mounted.  No event is
assumed to come, and `loadedmetadata` and `error` may come from the element of any life.
`PlayerPromise` is what the page relies on: ready and failed are told by the
mounted player alone.

### WatchPage

Built on PlayerPromise.  An event, the render that follows and the effects of it
are one action, the cleanups of the old effects first.  `requests` and `reqId` are
the stream requests and `streamReqId`, `asked` the `continueWatching` calls with
their cancelled flag, `overlay` the four flags that lie over the player, `video`
the element, `saved` the server's progress with a position abstracted to the
start, the middle or the last twentieth.  A slug is fixed for a mount; a film is a title
with a single episode; a metadata-only item answers as an error; a PUT arrives
or is lost whole.

## 3. Runs

All runs finish within five minutes with two workers.  Deadlock checking is off
where a model may stop because its ids (tokens, requests used once) are used up.

| Run | Instance | Shows |
|---|---|---|
| `auth_sessions` | 2 users, 2 sessions, 4 tokens, 2 refresh requests, failing statements | `TypeOK`; `ChainSound`: a spent token names a replacement of its own session that no other token names; `ReuseIsReal`: a family is only revoked when both the token shown and its replacement were spent, revoked or late; `LogoutFinal`: a revocation no rotation overlaps is final; `KeepsPromise`: the refinement of SessionPromise |
| `auth_revoked_stays` | 1 user, 1 session, 1 request | *violated*: a rotation that read its session before a logout makes it active again |
| `stream_bridge` | 3 requests, 1 key, 2 calls, 1 mirror run, item ids 0-2 | `TypeOK`: with it, a bridge that ended without an error has an item; `OneBridgePerKey`; `SharesOneBridge`: the refinement of SharedWork; `EveryoneReturns` (liveness) |
| `stream_cache` | 2 requests, 2 keys, room for 1 entry, expiry, definitive and transient failures | `StreamTypeOK`; `CacheBounded` |
| `stream_heal` | 2 players on one key, item ids 0-3, scans that re-create the item between and during bridges, definitive and authentication failures of bridges | `DeadEntriesHeal` (liveness): an entry that leads to an item Jellyfin no longer has does not last, whatever interleaving of cache writes produced it |
| `plex_sign_in` | 2 pins, 2 servers, 3 requests, polls sent again any number of times | `TypeOK`; `TokenHeld`; `ConnectionIsWhole`: no account is stored, or about to be, with a server another sign-in picked; `ClaimedOnce`: a sign-in serves one connect |
| `plex_resolver` | 1 call at a time, up to 4 saves of the row | `FollowsPriority`: the client that the comment's order asks for, whatever earlier rows left in the fields |
| `client_tokens` | 1 tab, 1 request, 2 logins, 3 and 2 tokens in their sessions, 1 rotation missed in a row, 1 abandoned refresh that comes late | `TokensTypeOK`; `SingleFlight`; `RetryIsFresh`: a retry does not carry the token that was refused; `KeepsFamily`: no refresh the page waits for is taken for a theft; `KeepsAccess`: a failed refresh takes no access token away, but from a bootstrap; `KeepsService`: the refinement of TokenService; `RequestsSettle` (liveness) |
| `web_session` | 2 tabs, 2 tokens, 1 message on its way to a tab before the next is sent | `TypeOK`; `NoFlash`; `NoRevival`: a refresh that ends, a bootstrap's included, when the session has gone from localStorage and from its tab neither writes it back nor tells another tab of one; `LoadingEnds` (liveness) |
| `hls_player` | 2 players one after the other, 2 network retries | `PlayerTypeOK`; `OneStream`; `NeverStuck`: no step brings a parsed stream to rest with no timer to start it and no word to the page; `NoZombie`: nothing wakes an instance that was destroyed, or came to rest in a player that is gone; `KeepsPromise`: the refinement of PlayerPromise; `StreamEnds` (liveness): a stream that stops again and again, or for good, comes to the banner |
| `watch_page` | 2 episodes, 4 stream requests | `WatchTypeOK`; `StreamIsCurrent`; `OverlayOfThisPlayer`; `UserChoiceWins`; `StreamSettles` (liveness) |
| `watch_progress` | 2 episodes, 2 stream requests | *violated*: `SavesPlayback`, what is saved is where a video of that episode was played to |

*Why the bounds are enough to be interesting.*  Four tokens let two requests fork
a family and one of the branches rotate again, with a session of the other user
to confuse it with.  Two pins, servers and accounts are the least that can be mixed
up, and three requests are a poll, sent again between its steps and those of two
connects, and one more writer of the row when there is one connect.
Three requests in the bridge are an owner, a waiter that stays and one that leaves.
Two keys and room for one entry make the cache reset with each switch of key.
Two calls are the least for a bridge that begins when another's owner has not
returned; the scan of the first may then fall into the second.  Item ids up to 2 let an
item be re-created under a request that already has an older id, up to 3 under the entry
written after that.  In the client, one tab's periodic refresh, bootstrap and refused request
already compete for one promise, three tokens a session reach the reuse of an older
one, and two logins the answers of a session that was left; `KeepsFamily` is a
statement about one tab (two tabs may each lose an answer, and do spend each other's
tokens) that misses no two rotations in a row.  Two players are the least for a callback of one to meet the other;
two retries have a backoff that is not the last, as `MAX_FATAL_RETRIES = 4` does.  Four stream requests allow a switch,
a switch back and a retry with the first answer still out.  The theorems of section
5 hold without any of these bounds.  A bound limits ids and how often, never what an
action does (a request for which no `Call` is free comes later; one per request would be
enough never to wait): `MaxItem`,
`MaxSaves`, `MaxEntries`, `MaxLogin`, `MaxGen`, `MaxLost`, `MaxStray`, `MaxInbox`, `MaxLife`,
`MaxRetries`, `MaxRequest` and the sizes of the id sets are all there are (session `s`
of ClientTokens issues `MaxGen + 1 - s` tokens; `MaxLost` also is the premise of
`KeepsFamily`).

*Symmetry* is used in runs of safety properties alone.

*Fairness.*  `StreamBridge!Fairness` has goroutines that can run eventually run
(Go's scheduler) and a bridge eventually end: its context is detached from the
request and has a deadline of 90 seconds (discover.go:981).  Nobody is made to
cancel, no request to arrive, and no scan to end.  `StreamResolution` adds that a handler's next
step is taken (each remote call has a timeout), and two assumptions about the
outside that DeadEntriesHeal is relative to: a player keeps asking for the
manifest (weak fairness of `Arrive`), and its fetches of it are answered now and
then instead of always failing on the way (strong fairness of `Fetch`).  Without
the second an unreachable Jellyfin proves nothing about the cache.

In the client a request ends by its timeout (`mergeSignals` in lib/api, 90 s for a
stream), its answer is handled, and a timer that is set fires; the player needs the
last alone, and nothing is asked of hls.js or of the media server.  The user is never
made to do anything, nor the server to answer well: an answer may be a refusal every time.

## 4. Where the code and its words differ

Two disagreements have a run each (`findings` in `PROJECT.json`):

1. `auth_revoked_stays`: `Save(session)` in the rotation (auth_service.go:392)
   writes back the `revoked_at` NULL it read before the transaction.
2. `watch_progress`: a player that has just been mounted tells the page that it is
   not playing, and the flush saves position 0 over what was stored before anything
   was played; on a switch of episode the flush already holds the new episode
   while the old video is still there (page.tsx:411, 471).

Four more are violations of a property of their module in an instance that no
configuration here has:

3. `ReuseAnswerRevokes` of AuthSessions (1 session, 3 tokens, 2 requests): the reuse
   branch at auth_service.go:348 rolls its own revocation back.
4. `BridgedItemIsLive` of StreamBridge (1 request, no mirror run): sharing the bridge
   is to prevent "leaving one caller with a dead item ID" (discover.go:952-959), but a
   scan is only asked for (jellyfin_client.go:606-653), and one that an earlier bridge
   or the recovery itself asked for may re-create the item after the poll has read its
   id.  The mirror adds its own, outside `bridgeInflight` (jellyfin_mirror.go:251).  What
   holds is `DeadEntriesHeal`.
5. `SourceGoesWithItem` of StreamResolution (2 requests, 1 key): `set` and
   `setMediaSourceId` (discover.go:1172-1173) are two critical sections with room
   for another request's `set`.
6. `CachedClientIsCurrent` of PlexResolver (2 requests, 2 saves): two calls of
   `resolve` interleave their assignments (plex.go:99) and the old row's client is
   kept under the new row's key.

Others can be read off the models:

- A client that retries is not always spared: "regardless of timing"
  (auth_service.go:302-305) is true of one lost answer.  After two in a row, or when three
  tabs present the same token one after the other, the replacement is spent as well
  and the family is revoked.  Two requests that overlap on one token fork the family
  into two branches that both rotate (auth_service.go:337).
- The errors of the two statements that revoke a family are ignored
  (auth_service.go:316): a reuse is then answered, and nothing or only the sessions revoked.
- A refresh that a timeout or a page load gave up is not recalled.  When the server
  processes it after two later ones it is taken for a theft and ends the session of a
  user who did nothing wrong (auth.ts:274-315, 457; `StrayRefresh`).
- A session comes back from a tab's own copy: when another tab signs out and this one has
  not read the message yet, a refresh that ends here finds the sessionStorage copy
  (session-persistence.ts:191-201, 389), writes it back with the new token and
  broadcasts it.  `NoRevival` therefore speaks of a tab that holds no copy any more.
- `startLoad()` does not ask for a manifest again: after a manifest that failed to load,
  the backoff (index.tsx:546-553) ends with no stream, no timer and no banner, although
  its comment (index.tsx:536-541) has a banner for a genuine outage.
- `loadedmetadata` clears the page's banner without asking whether the stream still
  exists (index.tsx:917-934).
- `resolveStreamKeyCached` keeps the transient error of a cancelled resolution for
  the entry's whole TTL (discover.go:757), which its neighbour for bridges takes
  care not to do.
- An identity ping saves the config it read before a connect finished, or writes the
  old server's identifier into the new one's config (plex.go:320-330).
- A connect takes a sign-in older than `plexAuthTTL`, and one that nobody polls is
  never dropped (plex_auth.go:61-86).  A connect that comes before the user has
  authorized the pin consumes the sign-in (plex_auth.go:190).
- With two calls under way `resolve` may return neither a client nor an error
  (plex.go:109-110).
- A logout whose access token has expired is answered with 200 and revokes nothing;
  a logout that throws leaves the session record where it is.
- The timestamp of a SESSION_SYNC message is never compared, so that crossing messages
  of two tabs leave each with the other's record; `trackActivity` does not restart the
  inactivity timer it is meant to restart; `AuthContext.refresh`,
  `SessionTimeoutWarning` and `enhancedTokenProvider` are used by nobody.
- The player's cleanup destroys the instance its effect made, not the one a restart
  made later (index.tsx:406-409 says otherwise): that one lives on unheard.  Network
  errors that are not fatal use up the budget of retries, and other errors that are not
  fatal destroy the player.
- An answer of the history for the episode that is shown by default comes too late for
  the player that was mounted with `startTime` 0; the `play` event comes before the
  first frame that the comment on `previewLive` speaks of.
- In the bot, `interactionCreate` returns `handleCommand()` inside a `try` without
  `await`, so that `handleError` sees no error of an asynchronous command.

## 5. What is proved

Every theorem holds for all values of the constants that satisfy the assumptions
of the modules: any number of users, tokens, requests, keys, tabs, players.
TLC evaluates those assumptions in the runs; beyond bounds being positive and
flags Boolean they only say that `Null` and the other markers are none of the ids
and none of the records they stand beside.

**AuthSessions_proofs.**  `TypeCorrect`, `ChainIsSound`, `ReuseNeverFalse`: the three
invariants.  `PromiseKept`: AuthSessions implements SessionPromise.  `LogoutIsFinal`:
the action property `LogoutFinal`.  `OneAtATime`: with a single refresh request at
a time, a session always has exactly one token a client can still rotate,
whatever answers are lost and whatever is revoked or expires (with two, a family
can fork; `KeepsPromise` and `ChainSound` are what is left).  `ReuseRevokesAlone`: with one
at a time and a database that answers, `ReuseAnswerRevokes` holds, so that the violation
of section 4 needs a second request.

*The argument.*  None of the invariants is inductive alone: a commit keeps the
chain sound only if the row the request holds is a copy of a row of the table
that can have changed in one direction only.  `IInv` adds `RequestsSound` (for
each program counter, what the request's copy still says about the table: its
token is issued, in the presented token's session, spent at most as much as the
table says, and its replacement belongs to the same session) and `Rooted`
(tokens belong to sessions that exist).  What makes a copy stay good is
`RowsGrow`: no step takes back a token's session, its spending or its
revocation-or-spending.  There is one lemma per conjunct of IInv, with a case
per writer of the table.  The refinement needs IInv to know that a request at
work names a session that is open; `LogoutIsFinal` follows from the
refinement and from `NoNewToken`.  `OneAtATime` adds that the token about to be
spent is unspent, which only other requests could break.  `ReuseRevokesAlone` adds `Alone`:
what the request has read still is what the table says, and the replacement it found
live still is, so that neither reuse branch of the transaction is reachable and the one
before it revokes the whole family.

**PlexSignIn_proofs.**  `TypeCorrect`, `OneConnectPerPin`, `AsksWithToken`,
`RowsStayWhole`: the type invariant, `ClaimedOnce`, `TokenHeld`, `ConnectionIsWhole`.

*The argument.*  A claimed sign-in is gone, and stays gone: a pin is issued once,
and a poll stores its token only in a sign-in that is still there (that test is
what the theorem hangs on: a poll that is sent again after the connect and put its
sign-in back would let a second connect in, as the mutant of `ClaimedOnce` does).  `Grows` says what no step takes back,
`SoundStays` that every request's promises survive it, and `Assemble` that a step
which leaves its own request sound keeps the invariant.  `IInv` then is TypeOK,
the soundness of sign-ins, requests and row, and ClaimedOnce.

**StreamResolution_proofs**, part one, about StreamBridge.  `BridgeTyped`, `OneBridge`:
`TypeOK`, `OneBridgePerKey`.  `GroupImplemented`: the bridge implements SharedWork,
mirror runs or not.

*The argument.*  `IInv` ties the three places a bridge is known from to each other:
a request that waits or runs holds a started call for its key, one that is back
holds an ended one (`PlacesSound`); a key lists a call exactly while the owner of
that call runs (`ListedSound`); a call has one owner (`OneOwner`); a bridge at work has an
owner (`BusyOwned`).  So a bridge at work is the one its key lists (`BusyListed`), which is
`OneBridgePerKey`.  `ItemsFound` says that a bridge past its polls has found an item, which
is what lets a caller look at the error alone.  `Steps` abstracts every step of the bridge
itself to what it does to its own call; with it the refinement needs two cases: a step that ends the call is SharedWork's `Finish`, because every
request that still waits for the key holds that very call, and any other is unseen.

**StreamResolution_proofs**, part two, about the endpoints.  `EndpointsUseBridge`: the specification of the endpoints
implies that of the bridge, so that everything above holds under `GetStreamURL` and
`ProxyStream` (`EndpointsShareBridge` spells it out).  `StreamTyped`, `CacheStaysBounded`:
`StreamTypeOK` and `CacheBounded`, the latter with `IsFiniteSet(Held)` to be inductive:
`Put` starts from a full map with nothing, or adds one entry below the limit
(`PutSound`), and every other operation shrinks the map (`Shrinks`).  `SourceStaysWithItem`:
`SourceGoesWithItem` with one request at a time.  `Pinned` adds what such a request knows
between `set` and `setMediaSourceId`: the entry, if it is still there, is the one it set.

**PlexResolver_proofs.**  `ResolverTyped`: `TypeOK` for any number of concurrent calls.
`PriorityFollowed`, `CachedStaysCurrent`: `FollowsPriority` and `CachedClientIsCurrent` for
calls one after the other; section 4 has what two calls at once do to them.

*The argument.*  What a call returns depends on what the last one left, and a call may be
anywhere in its assignments when the row is saved again.  `IInv` therefore says what
the fields are between calls (`Settled`: a row's client under the row's key with the flag
down, the environment's client, or none), which assignments a call has still to make at
each point and what those it has made have left (`Adopting`, `Dropping`, `FallingBack`), and
that a key belongs to one save of the row and is only kept for one that is enabled and
usable (`KeysSound`).  The last is what makes "the key has not changed" a reason to
keep the client.

**ClientTokens_proofs.**  `TokensTypeCorrect`, `OneFlightAlways`, `RetryAlwaysFresh`,
`AccessAlwaysKept` (action property), `ServiceKept`, the refinement of TokenService, and
`FamilyAlwaysKept`: `KeepsFamily`, for any number of requests, logins and rotations.

*The argument.*  A retry is fresh because the token a refresh brings has been nowhere in
the browser when the request was refused.  `IInv` therefore says that what the browser
holds was issued (`Issued`), that the token of an answer on its way is held nowhere and
by no other call (`Fresh`), that a call has its tab's promise (`CallsSound`) and that a
request waits once (`RequestsSound`).

For `FamilyAlwaysKept` the age of every token counts.  `FamilySound` says that the server's
last rotation of a session is at most as many tokens ahead of localStorage and the cookie
as rotations were missed in a row, and one more while an answer is on its way (`Behind`);
how old the token of such an answer can be; and that the tab remembers the same refresh token
as localStorage.  So what is presented is the last token or the one before, which the server
takes for a retry.  Every token gets one rotation older when the server answers the page,
and then an answer is on its way, or when it processes a stray, and then `lost` counts
it; an answer is either taken over or counted (`GivenUpBehind`).  Nothing is said about
what a stray presents: it may be of any age, and end the session.  With two tabs
`OneMemory` fails, and the property with it.

**WebSession_proofs.**  `TypeCorrect`, the action properties `NoFlashEver` and
`NoRevivalEver`, and `UsesService`: the context uses auth.ts as TokenService has it, which by
`ServiceKept` is what ClientTokens does.  TypeOK suffices as invariant; the work is in the functions on worlds:
one lemma per function of the context says which status it can leave and whether it
writes the record.

**HlsPlayer_proofs.**  `PlayerTypeCorrect`, `OneStreamAlways`, the action properties
`NeverStuckEver` and `NoZombieEver`, and `KeepsPromiseAlways`, the refinement of PlayerPromise.

*The argument.*  `Sound` says of each life, mounted or not, that `hlsRef` names its only
live instance, that a second one exists only after the restart has destroyed the first,
and that a restart's timer is pending only before it made the second.  `NoZombieEver` hangs
on the first: a timer that asks whether its instance still is `hlsRef` cannot wake one that was
destroyed, and one that asks for `mountedRef` cannot wake the copy 2 that an unmount leaves
behind.  `NeverStuckEver` has a lemma for the errors (`EventGoesOn`) and one for the timers
(`TimersGoOn`): each rung of the ladder hands over to the next, or loses the manifest.

**WatchPage_proofs.**  `WatchTypeCorrect`, `StreamAlwaysCurrent`, `OverlayAlwaysOfThisPlayer`,
`UserAlwaysWins` (action property), and `UsesPromise`: the page uses the player as
PlayerPromise says.  `IInv` adds `RequestsSound` (the request that counts is for the
episode shown, and only while the page waits) and `HistorySound` (the history is only
waited for while nothing was picked).

*Only model-checked*: liveness (`EveryoneReturns`, `DeadEntriesHeal`, `RequestsSettle`,
`LoadingEnds`, `StreamEnds`, `StreamSettles`): fairness is beyond the prover.  Every other
property that a run shows to hold has a theorem.

## 6. What the plan leaves

In order of what each would add:

1. *Accounts* (register, verify, reset, change password, rehash) and *Mfa* (recovery
   codes), with one abstract specification of a token that works once.  The code reads,
   checks and writes in separate statements without locks, so most of what one
   would state is violated by two requests at once: two first registrations
   (auth_service.go:118), a login that rehashes over a password reset
   (auth_service.go:280), two uses of one reset token (routes/auth.go:218), an e-mail
   verification that saves the user it read (routes/auth.go:280), two uses of one
   recovery code (mfa_service.go:193).
2. *The single jobs* of JellyfinMirror and MalSync, with the paging over rows that change.
3. *AuthRateLimiter*, *Presence*, *OAuth codes*: small modules.

## 7. Not modelled, and why

- *Cryptography, hashing, TLS, JWT signatures*: a token is an id, a hash finds it.
- *Rewriting of playlists, headers, URL formats, pre-warming of transcodes*: no
  state is kept, and no property above depends on the wording.
- *One provider only*: with Plex or Jellyfin missing, `GetStreamURL` takes fewer
  branches of those modelled.
- *Deletion of session and token rows*: no caller at this commit.
- *Redis*: no modelled component uses it.
- *Crashes of the server as a whole*: the maps of the stream and Plex models are
  in memory, so a crash takes them back to their initial state with no handler left
  to see it; a crash inside a refresh is `Fail`, after which the rows are as they were.
  A crash of a tab is `Unload` at any time and a `Load` later; a refresh that was under way
  may still reach the server.
- *A rotation that commits while RevokeFamily's UPDATE is running*: the new token
  escapes the statement, as when the rotation commits after it, which is modelled;
  the rotated token may end revoked as well as spent, and nothing reads whether a
  spent token is revoked.
- *The client's pages and forms*, by far the largest part of the repository: each sends
  one request, renders the answer and keeps its state in one component; there is no
  order of events a model could add to.  The mobile screens are the same, over the
  native SecureStore.
- *The player's controls* (volume, full screen, seeking, subtitles), the session's
  preferences, the native store of tokens, `logoutAll` and the password routes.
- *The Discord bot*: its state changes are synchronous updates of a map followed by one
  save, in one process; the helpers that await Discord in between are called by no command.
- *The realtime client and the event bus*: nothing imports the one, nothing publishes on
  the other.
- The remaining components marked `not_modelled` in `PROJECT.json`: those named in section
  6, and reads, single-row writes and build scripts.
