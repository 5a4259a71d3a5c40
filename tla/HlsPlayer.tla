------------------------------ MODULE HlsPlayer ------------------------------
(***************************************************************************)
(* The recovery of the video player (apps/components/video-player): the    *)
(* effect that attaches hls.js to the <video> element, its error handler   *)
(* and the timers it leaves behind.                                        *)
(*                                                                         *)
(* A life is one mounted player, with refs of its own; the page mounts one *)
(* for every stream it shows (WatchPage).  A life makes one hls.js         *)
(* instance, and a second one when it restarts the stream.  What a life    *)
(* left behind (timers, a pending play(), events of the removed element)   *)
(* may still run when it is over and when another one has begun.           *)
(***************************************************************************)
EXTENDS Naturals, FiniteSets

CONSTANTS
    MaxLife,      \* bound: players the page mounts
    MaxRetries    \* MAX_FATAL_RETRIES (4 in the code)

ASSUME PlayerAssumption == MaxLife \in Nat \ {0} /\ MaxRetries \in Nat \ {0}

Life == 1 .. MaxLife
Copy == {1, 2}      \* the hls.js instances of a life; 0: none
MaxErrors == 5      \* the ladder does not tell more errors apart

VARIABLES
    life,         \* lives so far
    shown,        \* whether the last of them is mounted
    told,         \* what it told the page last
    mountedRef,   \* life -> mountedRef
    refs,         \* life -> hlsRef, fatalRetryCount, restartedRef
    hls,          \* life -> copy -> the instance and its count of media errors
    timers,       \* life -> the timers it has set
    pending       \* life -> whether a play() it asked for is not settled

playerVars == <<life, shown, told, mountedRef, refs, hls, timers, pending>>

(* A timer is that of the restart, or that of startLoad() on a copy: one     *)
(* stands for all of the same copy.                                          *)
Timer == {0} \cup Copy

(* loading: the manifest is asked for; lost: it did not come to be parsed,   *)
(* and hls.js asks for it only once; stopped: a parsed one that is at rest.  *)
Instance == [state : {"none", "loading", "lost", "parsed", "stopped", "destroyed"}, errors : 0 .. MaxErrors]
Refs == [hls : {0} \cup Copy, fatal : 0 .. MaxRetries, restarted : BOOLEAN]

PlayerTypeOK ==
    /\ life \in 0 .. MaxLife
    /\ shown \in BOOLEAN
    /\ told \in {"none", "ready", "failed"}
    /\ mountedRef \in [Life -> BOOLEAN]
    /\ refs \in [Life -> Refs]
    /\ hls \in [Life -> [Copy -> Instance]]
    /\ timers \in [Life -> SUBSET Timer]
    /\ pending \in [Life -> BOOLEAN]

NoCopy == [state |-> "none", errors |-> 0]

PlayerInit ==
    /\ life = 0
    /\ shown = FALSE
    /\ told = "none"
    /\ mountedRef = [l \in Life |-> FALSE]
    /\ refs = [l \in Life |-> [hls |-> 0, fatal |-> 0, restarted |-> FALSE]]
    /\ hls = [l \in Life |-> [c \in Copy |-> NoCopy]]
    /\ timers = [l \in Life |-> {}]
    /\ pending = [l \in Life |-> FALSE]

Alive(l, c) == hls[l][c].state \in {"loading", "lost", "parsed", "stopped"}
Loading(l, c) == hls[l][c].state \in {"loading", "parsed"}

HeardAlways(l) == TRUE   \* mutant: mountedRef is not looked at

(* Whether a callback of life l is still listened to. *)
Heard(l) == mountedRef[l]

(* The page is told r, by whichever life. *)
Says(l, r) == told' = IF Heard(l) THEN r ELSE told

---------------------------------------------------------------------------
(* makeHls of life l with the next copy: the budget starts again. *)
MakeHls(l, c) ==
    /\ hls' = [hls EXCEPT ![l][c] = [state |-> "loading", errors |-> 0]]
    /\ refs' = [refs EXCEPT ![l] = [@ EXCEPT !.hls = c, !.fatal = 0]]

(* The effects of a mount, in their order; play() is asked for (autoPlay). *)
MountPlayer ==
    /\ ~shown /\ life < MaxLife
    /\ life' = life + 1
    /\ shown' = TRUE
    /\ told' = "none"
    /\ mountedRef' = [mountedRef EXCEPT ![life + 1] = TRUE]
    /\ MakeHls(life + 1, 1)
    /\ pending' = [pending EXCEPT ![life + 1] = TRUE]
    /\ UNCHANGED timers

(* The cleanups of an unmount, in their order: mountedRef first.  The        *)
(* instance destroyed is the one the effect made, not the one in hlsRef.     *)
(* The page forgets what it was told.                                        *)
UnmountPlayer ==
    /\ shown
    /\ shown' = FALSE
    /\ told' = "none"
    /\ mountedRef' = [mountedRef EXCEPT ![life] = FALSE]
    /\ hls' = [hls EXCEPT ![life][1] = [@ EXCEPT !.state = "destroyed"]]
    /\ refs' = [refs EXCEPT ![life] = [@ EXCEPT !.hls = 0]]
    /\ UNCHANGED <<life, timers, pending>>

---------------------------------------------------------------------------
(* hls.js events of copy c of life l. *)

ManifestParsed(l, c) ==
    /\ hls[l][c].state = "loading"
    /\ hls' = [hls EXCEPT ![l][c] = [@ EXCEPT !.state = "parsed"]]
    /\ refs' = [refs EXCEPT ![l] = [@ EXCEPT !.fatal = 0]]
    /\ Says(l, "ready")
    /\ UNCHANGED <<life, shown, mountedRef, timers, pending>>

BudgetOffByOne(l) == refs[l].fatal <= MaxRetries   \* mutant: one retry too many

InBudget(l) == refs[l].fatal < MaxRetries

(* What a fatal error makes of an instance. *)
Halted(state) == IF state = "parsed" THEN "stopped" ELSE "lost"

(* NETWORK_ERROR, fatal or not: hls.js stops loading when it is fatal.       *)
NetworkError(l, c, fatal) ==
    /\ Loading(l, c)
    /\ hls' = IF fatal THEN [hls EXCEPT ![l][c] = [@ EXCEPT !.state = Halted(hls[l][c].state)]] ELSE hls
    /\ IF mountedRef[l] /\ InBudget(l)
       THEN /\ refs' = [refs EXCEPT ![l] = [@ EXCEPT !.fatal = refs[l].fatal + 1]]
            /\ timers' = [timers EXCEPT ![l] = @ \cup {c}]
            /\ UNCHANGED told
       ELSE /\ Says(l, "failed")
            /\ UNCHANGED <<refs, timers>>
    /\ UNCHANGED <<life, shown, mountedRef, pending>>

Count(e) == IF e < MaxErrors THEN e + 1 ELSE e

(* The first two fatal MEDIA_ERRORs: recoverMediaError() goes on with the    *)
(* stream, but asks for no manifest.                                         *)
RecoverMedia(l, c) ==
    /\ mountedRef[l] /\ Loading(l, c)
    /\ Count(hls[l][c].errors) <= 2
    /\ hls' = [hls EXCEPT ![l][c] = [state |-> IF @.state = "parsed" THEN "parsed" ELSE "lost",
                                     errors |-> Count(@.errors)]]
    /\ UNCHANGED <<life, shown, told, mountedRef, refs, timers, pending>>

RestartKeeps(l, c) ==   \* mutant: the doomed instance is not destroyed
    /\ mountedRef[l] /\ Loading(l, c)
    /\ Count(hls[l][c].errors) \in 3 .. 4 /\ ~refs[l].restarted
    /\ hls' = [hls EXCEPT ![l][c] = [@ EXCEPT !.errors = Count(hls[l][c].errors)]]
    /\ refs' = [refs EXCEPT ![l] = [@ EXCEPT !.hls = 0, !.restarted = TRUE]]
    /\ timers' = [timers EXCEPT ![l] = @ \cup {0}]
    /\ UNCHANGED <<life, shown, told, mountedRef, pending>>

(* Then the stream is restarted, once: the instance is destroyed and another *)
(* one made 400 ms later.                                                    *)
RestartStream(l, c) ==
    /\ mountedRef[l] /\ Loading(l, c)
    /\ Count(hls[l][c].errors) \in 3 .. 4 /\ ~refs[l].restarted
    /\ hls' = [hls EXCEPT ![l][c] = [state |-> "destroyed", errors |-> Count(@.errors)]]
    /\ refs' = [refs EXCEPT ![l] = [@ EXCEPT !.hls = 0, !.restarted = TRUE]]
    /\ timers' = [timers EXCEPT ![l] = @ \cup {0}]
    /\ UNCHANGED <<life, shown, told, mountedRef, pending>>

MediaGivesUp(l, c) ==   \* mutant: the last rung of the ladder says nothing
    /\ mountedRef[l] /\ Loading(l, c)
    /\ Count(hls[l][c].errors) > 2 /\ (Count(hls[l][c].errors) > 4 \/ refs[l].restarted)
    /\ hls' = [hls EXCEPT ![l][c] = [state |-> "stopped", errors |-> Count(@.errors)]]
    /\ UNCHANGED <<life, shown, told, mountedRef, refs, timers, pending>>

(* Then the page is told. *)
MediaFails(l, c) ==
    /\ mountedRef[l] /\ Loading(l, c)
    /\ Count(hls[l][c].errors) > 2 /\ (Count(hls[l][c].errors) > 4 \/ refs[l].restarted)
    /\ hls' = [hls EXCEPT ![l][c] = [state |-> "stopped", errors |-> Count(@.errors)]]
    /\ Says(l, "failed")
    /\ UNCHANGED <<life, shown, mountedRef, refs, timers, pending>>

(* Any other error, fatal or not. *)
OtherError(l, c) ==
    /\ mountedRef[l] /\ Loading(l, c)
    /\ hls' = [hls EXCEPT ![l][c] = [@ EXCEPT !.state = "destroyed"]]
    /\ refs' = [refs EXCEPT ![l] = [@ EXCEPT !.hls = 0]]
    /\ Says(l, "failed")
    /\ UNCHANGED <<life, shown, mountedRef, timers, pending>>

---------------------------------------------------------------------------
(* The timers. *)

(* startLoad(), as the code takes it: whatever is not without a manifest     *)
(* loads, also an instance that was destroyed (the comment at index.tsx:547).*)
Started(state) == IF state \in {"loading", "lost"} THEN state ELSE "parsed"

WakesAny(l, c) ==   \* mutant: the timer does not look whose session is live
    /\ c \in timers[l] \cap Copy
    /\ timers' = [timers EXCEPT ![l] = @ \ {c}]
    /\ hls' = IF Heard(l) THEN [hls EXCEPT ![l][c] = [@ EXCEPT !.state = Started(hls[l][c].state)]] ELSE hls
    /\ UNCHANGED <<life, shown, told, mountedRef, refs, pending>>

RefillsBudget(l, c) ==   \* mutant: a retry starts the budget again
    /\ c \in timers[l] \cap Copy
    /\ timers' = [timers EXCEPT ![l] = @ \ {c}]
    /\ hls' = IF Heard(l) /\ refs[l].hls = c
              THEN [hls EXCEPT ![l][c] = [@ EXCEPT !.state = Started(hls[l][c].state)]] ELSE hls
    /\ refs' = [refs EXCEPT ![l] = [@ EXCEPT !.fatal = 0]]
    /\ UNCHANGED <<life, shown, told, mountedRef, pending>>

(* The end of a backoff: startLoad() if copy c is still the live session. *)
StartLoad(l, c) ==
    /\ c \in timers[l] \cap Copy
    /\ timers' = [timers EXCEPT ![l] = @ \ {c}]
    /\ hls' = IF Heard(l) /\ refs[l].hls = c
              THEN [hls EXCEPT ![l][c] = [@ EXCEPT !.state = Started(hls[l][c].state)]] ELSE hls
    /\ UNCHANGED <<life, shown, told, mountedRef, refs, pending>>

(* The restart, if the player is still mounted without an instance. *)
Restart(l) ==
    /\ 0 \in timers[l]
    /\ timers' = [timers EXCEPT ![l] = @ \ {0}]
    /\ IF Heard(l) /\ refs[l].hls = 0 THEN MakeHls(l, 2) ELSE UNCHANGED <<hls, refs>>
    /\ UNCHANGED <<life, shown, told, mountedRef, pending>>

---------------------------------------------------------------------------
(* The <video> element. *)

(* play() settles; a NotAllowedError is told to the page. *)
PlaySettles(l) ==
    /\ pending[l]
    /\ pending' = [pending EXCEPT ![l] = FALSE]
    /\ Says(l, "failed") \/ UNCHANGED told
    /\ UNCHANGED <<life, shown, mountedRef, refs, hls, timers>>

(* The handle's play(), from a click of the page. *)
AskToPlay ==
    /\ shown
    /\ pending' = [pending EXCEPT ![life] = TRUE]
    /\ UNCHANGED <<life, shown, told, mountedRef, refs, hls, timers>>

(* An error event other than an interruption or a network hiccup; the        *)
(* browser may fire one as the element is removed.                           *)
VideoError(l) ==
    /\ l <= life
    /\ Says(l, "failed")
    /\ UNCHANGED <<life, shown, mountedRef, refs, hls, timers, pending>>

(* loadedmetadata: the handler does not ask whether the stream still loads. *)
LoadedMetadata(l) ==
    /\ l <= life
    /\ Says(l, "ready")
    /\ UNCHANGED <<life, shown, mountedRef, refs, hls, timers, pending>>

Event(l, c) ==
    \/ ManifestParsed(l, c)
    \/ \E fatal \in BOOLEAN : NetworkError(l, c, fatal)
    \/ RecoverMedia(l, c) \/ RestartStream(l, c) \/ MediaFails(l, c) \/ OtherError(l, c)

PlayerNext ==
    \/ MountPlayer \/ UnmountPlayer \/ AskToPlay
    \/ \E l \in Life :
        \/ \E c \in Copy : Event(l, c) \/ StartLoad(l, c)
        \/ Restart(l) \/ PlaySettles(l) \/ VideoError(l) \/ LoadedMetadata(l)

PlayerSpec == PlayerInit /\ [][PlayerNext]_playerVars

(* Timers fire.  Nothing is asked of the media server or of hls.js. *)
PlayerFairness ==
    \A l \in Life : WF_playerVars(Restart(l)) /\ \A c \in Copy : WF_playerVars(StartLoad(l, c))

FairPlayerSpec == PlayerSpec /\ PlayerFairness

---------------------------------------------------------------------------
(* A mounted player has one live instance at most: two would append to the   *)
(* same element.                                                             *)
OneStream == shown => \A c, d \in Copy : Alive(life, c) /\ Alive(life, d) => c = d

(* A destroyed instance is never woken up, by a backoff of another life or   *)
(* of the instance it was replaced by, and neither is one that came to rest  *)
(* in a player that is gone: the comment at index.tsx:547.                   *)
NoZombie ==
    [][\A l \in Life, c \in Copy :
          hls[l][c].state = "destroyed" \/ (hls[l][c].state = "stopped" /\ ~mountedRef[l]) =>
              hls'[l][c].state = hls[l][c].state]_playerVars

(* The mounted player loads its stream, or a timer is to start it again. *)
Loads == \E c \in Copy : Loading(life, c)
Waits ==
    \/ 0 \in timers[life] /\ refs[life].hls = 0
    \/ refs[life].hls \in timers[life] \cap Copy

(* Its instance has no manifest and never will: the code waits in vain, and  *)
(* in silence (README, section 4).                                           *)
ManifestLost == \E c \in Copy : refs[life].hls = c /\ hls[life][c].state = "lost"

(* A stream whose manifest was parsed does not come to rest in silence: no   *)
(* error, timer or restart leaves a mounted player that was loading, or      *)
(* about to, with nothing to wake it up, unless the page is told then.       *)
NeverStuck ==
    [][shown /\ shown' /\ (Loads \/ Waits) =>
          Loads' \/ Waits' \/ ManifestLost' \/ told' = "failed"]_playerVars

Stopped(l) == shown /\ life = l /\ \E c \in Copy : hls[l][c].state = "stopped"

(* The ladder of retries has an end: a player whose parsed stream stops      *)
(* again and again, or stops for good, comes to say that it cannot play it.  *)
StreamEnds == \A l \in Life : []<>Stopped(l) => <>(life = l /\ told = "failed")

(* Seen from the page all of this is PlayerPromise. *)
Promise == INSTANCE PlayerPromise
KeepsPromise == Promise!PromiseSpec
=============================================================================
