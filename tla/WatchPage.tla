------------------------------ MODULE WatchPage ------------------------------
(***************************************************************************)
(* The watch page (apps/app/(public)/[locale]/watch/[slug]/page.tsx): the  *)
(* episode it shows, the stream it resolves for it, the player it mounts   *)
(* when there is one (PlayerPromise), what lies over the player, and the   *)
(* watch progress it saves.                                                *)
(*                                                                         *)
(* The episode comes from a pending hand-off (takePendingEpisode), from    *)
(* the user, from the saved progress, or is the first one.  An event, the  *)
(* render that follows and the effects of that render are one action: the  *)
(* cleanups of the old effects first, then the new ones in their order.    *)
(*                                                                         *)
(* A position is the start, one in the middle, or one in the last 5 %.     *)
(***************************************************************************)
EXTENDS PlayerPromise, Naturals, FiniteSets

CONSTANTS
    Episode,      \* the episodes of the title
    First,        \* episodes[0]
    MaxRequest,   \* bound: streams the page asks for
    Null

ASSUME EpisodeAssumption == First \in Episode /\ Null \notin Episode
ASSUME RequestAssumption == MaxRequest \in Nat

Pos == 0 .. 2
Middle == 1       \* what continueWatching and the page call in progress

VARIABLES
    authed,       \* isAuthenticated
    item,         \* whether the item has arrived
    selected,     \* selectedEpisodeId
    asked,        \* the continueWatching calls under way: wanted, cancelled
    applied,      \* resumeAppliedRef
    resumeAt,     \* startTime of the player
    stream,       \* the stream shown and the episode it was resolved for
    requests,     \* the stream requests under way
    reqId,        \* streamReqId
    overlay,      \* userActivated, previewLive, started, playbackError
    video,        \* the <video>: play() called, playhead, metadata, start time applied
    saved,        \* the server's watch progress of each episode
    throttled     \* whether a report was made in the last 8 seconds

pageVars == <<authed, item, selected, asked, applied, resumeAt, stream, requests, reqId,
              overlay, video, saved, throttled>>
watchVars == <<promiseVars, pageVars>>

Stream == [state : {"loading", "ready", "error"}, ep : Episode]

WatchTypeOK ==
    /\ PromiseTypeOK
    /\ authed \in BOOLEAN /\ item \in BOOLEAN
    /\ selected \in Episode \cup {Null}
    /\ asked \subseteq {"wanted", "cancelled"}
    /\ applied \in BOOLEAN
    /\ resumeAt \in Pos
    /\ stream \in Stream
    /\ requests \subseteq [id : 1 .. MaxRequest, ep : Episode]
    /\ reqId \in 0 .. MaxRequest
    /\ overlay \in [activated : BOOLEAN, live : BOOLEAN, started : BOOLEAN, error : BOOLEAN]
    /\ video \in [playing : BOOLEAN, at : Pos, ready : BOOLEAN, sought : BOOLEAN]
    /\ saved \in [Episode -> Pos]
    /\ throttled \in BOOLEAN

NoOverlay == [activated |-> FALSE, live |-> FALSE, started |-> FALSE, error |-> FALSE]
NoVideo == [playing |-> FALSE, at |-> 0, ready |-> FALSE, sought |-> FALSE]

(* A page opened with or without a pending episode. *)
WatchInit ==
    /\ PromiseInit
    /\ authed \in BOOLEAN
    /\ item = FALSE
    /\ selected \in Episode \cup {Null}
    /\ asked = {} /\ applied = FALSE /\ resumeAt = 0
    /\ stream = [state |-> "loading", ep |-> First]
    /\ requests = {} /\ reqId = 0
    /\ overlay = NoOverlay
    /\ video = NoVideo
    /\ saved \in [Episode -> {0, Middle}]
    /\ throttled = FALSE

SelectedOnly(sel) == sel   \* mutant: no episode is taken for the first one

ShownEpisode(sel) == IF sel # Null THEN sel ELSE First

Current == ShownEpisode(selected)

---------------------------------------------------------------------------
(* The effects. *)

(* Auto-resume, when isAuthenticated, the item or the selection changed: the *)
(* call under way is cancelled; history is asked for when nothing picked an  *)
(* episode yet (the latch below, which the effect sets first).               *)
ResumeEffect(auth) ==
    LET old == IF asked # {} THEN {"cancelled"} ELSE {}
    IN  asked' = IF auth /\ ~applied' THEN old \cup {"wanted"} ELSE old

(* The latch: set by an answer, and by the effect when an episode is picked. *)
Latched(auth, sel) == applied \/ (auth /\ sel # Null)

(* The stream effect: a new request for ep. *)
ResolveStream(ep) ==
    /\ reqId < MaxRequest
    /\ reqId' = reqId + 1
    /\ requests' = requests \cup {[id |-> reqId + 1, ep |-> ep]}
    /\ stream' = [state |-> "loading", ep |-> ep]

(* The player goes when the stream is not ready. *)
Gone ==
    /\ video' = NoVideo
    /\ IF shown THEN Unmount ELSE UNCHANGED promiseVars

(* A PUT of the progress of ep, which may fail. *)
Put(ep, at) == saved' \in {saved, [saved EXCEPT ![ep] = at]}

(* flushProgressRef: the playhead of the <video> of the document, under the  *)
(* episode of the last render.                                               *)
Flush(ep, there, at) ==
    IF authed /\ there THEN Put(ep, at) ELSE UNCHANGED saved

---------------------------------------------------------------------------
(* The item and the session. *)

ItemArrives ==
    /\ ~item
    /\ item' = TRUE
    /\ applied' = Latched(authed, selected)
    /\ ResumeEffect(authed)
    /\ ResolveStream(Current)
    /\ UNCHANGED <<promiseVars, authed, selected, resumeAt, overlay, video, saved, throttled>>

AuthChanges ==
    /\ authed' = ~authed
    /\ IF item THEN applied' = Latched(~authed, selected) /\ ResumeEffect(~authed)
               ELSE UNCHANGED <<asked, applied>>
    /\ UNCHANGED <<promiseVars, item, selected, resumeAt, stream, requests, reqId, overlay,
                   video, saved, throttled>>

---------------------------------------------------------------------------
(* The episode. *)

SelectKeepsOverlay(ep, at) ==   \* mutant: the click intent survives an episode switch
    /\ selected' = ep /\ resumeAt' = at
    /\ IF ep = Current
       THEN UNCHANGED <<promiseVars, stream, requests, reqId, overlay, video, saved>>
       ELSE /\ Flush(ep, shown, video.at)
            /\ ResolveStream(ep)
            /\ UNCHANGED overlay
            /\ Gone

(* The selection becomes ep: when that changes the episode shown, the flush  *)
(* runs while the old video is still there, the overlay starts again, and    *)
(* the player goes.                                                          *)
Select(ep, at) ==
    /\ selected' = ep /\ resumeAt' = at
    /\ IF ep = Current
       THEN UNCHANGED <<promiseVars, stream, requests, reqId, overlay, video, saved>>
       ELSE /\ Flush(ep, shown, video.at)
            /\ ResolveStream(ep)
            /\ overlay' = NoOverlay
            /\ Gone

(* selectEpisode *)
UserSelects(ep) ==
    /\ item
    /\ Select(ep, 0)
    /\ IF ep = selected
       THEN UNCHANGED <<asked, applied>>
       ELSE applied' = Latched(authed, ep) /\ ResumeEffect(authed)
    /\ UNCHANGED <<authed, item, throttled>>

AlwaysWanted(call) == TRUE   \* mutant: whatever is answered is applied

(* cancelled || resumeAppliedRef.current *)
Wanted(call) == call = "wanted" /\ ~applied

(* continueWatching answers, or fails: an episode in progress is selected.   *)
HistoryAnswers(call) ==
    /\ call \in asked
    /\ \/ /\ asked' = asked \ {call}
          /\ UNCHANGED <<promiseVars, selected, applied, resumeAt, stream, requests, reqId,
                         overlay, video, saved>>
       \/ /\ Wanted(call)
          /\ \E ep \in Episode : saved[ep] = Middle /\ Select(ep, saved[ep])
          /\ applied' = TRUE
          /\ asked' = IF asked \ {call} # {} THEN {"cancelled"} ELSE {}
    /\ UNCHANGED <<authed, item, throttled>>

---------------------------------------------------------------------------
(* The stream. *)

AnyAnswer(r) == TRUE   \* mutant: streamReqId is not compared

Expected(r) == r.id = reqId

(* The request is answered: an answer that is not the last one asked for is  *)
(* dropped.  A player that is mounted tells the page it is not playing, and  *)
(* the page flushes.                                                         *)
StreamResolved(r) ==
    /\ r \in requests
    /\ requests' = requests \ {r}
    /\ IF Expected(r)
       THEN /\ stream' = [state |-> "ready", ep |-> r.ep]
            /\ Mount
            /\ video' = NoVideo
            /\ Flush(Current, TRUE, 0)
            /\ throttled' = FALSE
       ELSE UNCHANGED <<promiseVars, stream, video, saved, throttled>>
    /\ UNCHANGED <<authed, item, selected, asked, applied, resumeAt, reqId, overlay>>

FailureStays(r) ==   \* mutant: a failed request leaves the page loading
    /\ r \in requests
    /\ requests' = requests \ {r}
    /\ UNCHANGED <<promiseVars, stream, authed, item, selected, asked, applied, resumeAt, reqId,
                   overlay, video, saved, throttled>>

StreamFails(r) ==
    /\ r \in requests
    /\ requests' = requests \ {r}
    /\ stream' = IF Expected(r) THEN [stream EXCEPT !.state = "error"] ELSE stream
    /\ UNCHANGED <<promiseVars, authed, item, selected, asked, applied, resumeAt, reqId,
                   overlay, video, saved, throttled>>

(* retryStream, of the two error banners *)
RetryStream ==
    /\ stream.state = "error" \/ overlay.error
    /\ overlay' = NoOverlay
    /\ ResolveStream(Current)
    /\ Gone
    /\ UNCHANGED <<authed, item, selected, asked, applied, resumeAt, saved, throttled>>

---------------------------------------------------------------------------
(* What the player tells. *)

(* onPlaybackReady: the banner goes; the player seeks to the start time,     *)
(* once.                                                                     *)
PlayerReady ==
    /\ Tell("ready")
    /\ overlay' = [overlay EXCEPT !.error = FALSE]
    /\ LET seeks == resumeAt > 0 /\ ~video.sought
       IN  video' = [video EXCEPT !.ready = TRUE, !.sought = @ \/ seeks,
                                  !.at = IF seeks THEN resumeAt ELSE @]
    /\ UNCHANGED <<authed, item, selected, asked, applied, resumeAt, stream, requests, reqId,
                   saved, throttled>>

FailsLive ==   \* mutant: the preview is still taken for live
    /\ Tell("failed")
    /\ overlay' = [overlay EXCEPT !.error = TRUE]
    /\ UNCHANGED <<authed, item, selected, asked, applied, resumeAt, stream, requests, reqId,
                   video, saved, throttled>>

(* onPlaybackError *)
PlayerFails ==
    /\ Tell("failed")
    /\ overlay' = [overlay EXCEPT !.error = TRUE, !.live = FALSE]
    /\ UNCHANGED <<authed, item, selected, asked, applied, resumeAt, stream, requests, reqId,
                   video, saved, throttled>>

(* onPlayingChange(true): the play event, which play() fires at once. *)
PlayingBegins ==
    /\ shown /\ ~video.playing
    /\ video' = [video EXCEPT !.playing = TRUE]
    /\ overlay' = [overlay EXCEPT !.live = TRUE, !.error = FALSE,
                                  !.started = @ \/ overlay.activated]
    /\ UNCHANGED <<promiseVars, authed, item, selected, asked, applied, resumeAt, stream, requests,
                   reqId, saved, throttled>>

(* onPlayingChange(false): a flush, and the throttle is reset. *)
PlayingStops ==
    /\ shown /\ video.playing
    /\ video' = [video EXCEPT !.playing = FALSE]
    /\ Flush(Current, TRUE, video.at)
    /\ throttled' = FALSE
    /\ UNCHANGED <<promiseVars, authed, item, selected, asked, applied, resumeAt, stream, requests,
                   reqId, overlay>>

(* timeupdate: the video goes on, or the user seeks; reported when the last  *)
(* report is 8 seconds old.                                                  *)
TimeUpdate ==
    /\ video.ready
    /\ \E at \in Pos :
        /\ video' = [video EXCEPT !.at = at]
        /\ IF authed /\ ~throttled
           THEN Put(Current, at) /\ throttled' = TRUE
           ELSE UNCHANGED <<saved, throttled>>
    /\ UNCHANGED <<promiseVars, authed, item, selected, asked, applied, resumeAt, stream, requests,
                   reqId, overlay>>

ThrottleEnds ==
    /\ throttled
    /\ throttled' = FALSE
    /\ UNCHANGED <<promiseVars, authed, item, selected, asked, applied, resumeAt, stream, requests,
                   reqId, overlay, video, saved>>

(* The audio-reveal chip *)
ClickChip ==
    /\ shown /\ ~overlay.started /\ ~overlay.error
    /\ overlay' = [overlay EXCEPT !.activated = TRUE, !.started = overlay.live]
    /\ UNCHANGED <<promiseVars, authed, item, selected, asked, applied, resumeAt, stream, requests,
                   reqId, video, saved, throttled>>

WatchNext ==
    \/ ItemArrives \/ AuthChanges
    \/ \E ep \in Episode : UserSelects(ep)
    \/ \E call \in asked : HistoryAnswers(call)
    \/ \E r \in requests : StreamResolved(r) \/ StreamFails(r)
    \/ RetryStream
    \/ PlayerReady \/ PlayerFails \/ PlayingBegins \/ PlayingStops
    \/ TimeUpdate \/ ThrottleEnds \/ ClickChip

WatchSpec == WatchInit /\ [][WatchNext]_watchVars

(* A stream request has a timeout of 90 s. *)
FairWatchSpec ==
    WatchSpec /\ WF_watchVars(\E r \in requests : r.id = reqId /\ (StreamResolved(r) \/ StreamFails(r)))

---------------------------------------------------------------------------
(* The stream that plays is that of the episode the page shows, whatever     *)
(* the order in which the requests of quick switches are answered.           *)
StreamIsCurrent ==
    /\ stream.state = "ready" => stream.ep = Current
    /\ shown <=> stream.state = "ready"

(* A preview that broke is not live, so a click on the chip cannot dismiss   *)
(* it before something plays again: the comment at page.tsx:178.             *)
BrokenIsNotLive == overlay.error => ~overlay.live

(* Nothing of one player lies over the next: a banner is about the player    *)
(* that is mounted, and the chip is gone only when it was clicked for it;    *)
(* nor is a player that failed taken for one that plays.                     *)
OverlayOfThisPlayer ==
    /\ overlay.error => shown /\ told = "failed"
    /\ overlay.started => shown /\ overlay.activated
    /\ BrokenIsNotLive

(* The history that is answered late never replaces an episode that was      *)
(* picked: "user intent wins over history".                                  *)
UserChoiceWins ==
    [][selected # Null /\ asked' # asked => selected' = selected]_watchVars

(* The spinner of a stream comes to an end. *)
StreamSettles == item /\ stream.state = "loading" ~> stream.state # "loading"

(* What is saved for an episode is where a video of it was played to:        *)
(* "Every ~8s of real playback the page PUTs the playhead".                  *)
SavesPlayback ==
    [][\A ep \in Episode : saved'[ep] # saved[ep] =>
          stream.ep = ep /\ video.ready]_watchVars
=============================================================================
