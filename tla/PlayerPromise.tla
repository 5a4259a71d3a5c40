---------------------------- MODULE PlayerPromise ----------------------------
(***************************************************************************)
(* What the video player promises to the page that shows it: it tells the  *)
(* page that it is ready (onPlaybackReady) or that playback failed         *)
(* (onPlaybackError) while it is mounted, and says nothing once it is not. *)
(* HlsPlayer implements it, and WatchPage is built on it.                  *)
(***************************************************************************)

VARIABLES
    shown,   \* whether a player is mounted
    told     \* what the mounted player told the page last

promiseVars == <<shown, told>>

PromiseTypeOK ==
    /\ shown \in BOOLEAN
    /\ told \in {"none", "ready", "failed"}

PromiseInit == shown = FALSE /\ told = "none"

Mount == ~shown /\ shown' = TRUE /\ told' = "none"

Unmount == shown /\ shown' = FALSE /\ told' = "none"

Tell(r) == shown /\ told' = r /\ UNCHANGED shown

PromiseNext == Mount \/ Unmount \/ Tell("ready") \/ Tell("failed")

PromiseSpec == PromiseInit /\ [][PromiseNext]_promiseVars
=============================================================================
