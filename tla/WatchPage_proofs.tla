-------------------------- MODULE WatchPage_proofs --------------------------
(***************************************************************************)
(* Proofs about WatchPage, for every set of episodes and every number of   *)
(* stream requests.                                                        *)
(***************************************************************************)
EXTENDS WatchPage, TLAPS

(* The request that counts is for the episode of the page, and only while    *)
(* the page waits for it; nothing is asked for before the item is there.     *)
RequestsSound ==
    /\ item => stream.ep = Current
    /\ ~item => requests = {} /\ asked = {} /\ stream.state = "loading"
    /\ \A r \in requests : /\ r.id <= reqId
                           /\ r.id = reqId => r.ep = Current /\ stream.state = "loading"

(* The history is only waited for while no episode was picked. *)
HistorySound == "wanted" \in asked => selected = Null /\ ~applied

IInv == WatchTypeOK /\ StreamIsCurrent /\ RequestsSound /\ HistorySound
        /\ OverlayOfThisPlayer /\ BrokenIsNotLive

-----------------------------------------------------------------------------
LEMMA ShownIsEpisode == ASSUME NEW sel \in Episode \cup {Null} PROVE ShownEpisode(sel) \in Episode
  BY EpisodeAssumption DEF ShownEpisode

(* The helpers write what they should. *)
LEMMA ResolveTyped ==
    ASSUME IInv, NEW ep \in Episode, ResolveStream(ep)
    PROVE  /\ reqId' \in 0 .. MaxRequest /\ stream' \in Stream
           /\ requests' \subseteq [id : 1 .. MaxRequest, ep : Episode]
           /\ stream'.state = "loading" /\ stream'.ep = ep
           /\ \A r \in requests' : r.id <= reqId' /\ (r.id = reqId' => r.ep = ep)
<1>1. reqId \in Nat /\ MaxRequest \in Nat /\ reqId + 1 \in 1 .. MaxRequest
  BY RequestAssumption DEF IInv, WatchTypeOK, ResolveStream
<1>2. \A r \in requests : r.id \in Nat /\ r.id <= reqId
  BY DEF IInv, WatchTypeOK, RequestsSound
<1>3. [id |-> reqId + 1, ep |-> ep] \in [id : 1 .. MaxRequest, ep : Episode]
  BY <1>1
<1> QED BY <1>1, <1>2, <1>3 DEF ResolveStream, Stream, IInv, WatchTypeOK

LEMMA PutTyped ==
    ASSUME IInv, NEW ep \in Episode, NEW at \in Pos, NEW there \in BOOLEAN, Flush(ep, there, at) \/ Put(ep, at)
    PROVE  saved' \in [Episode -> Pos]
  BY DEF Flush, Put, IInv, WatchTypeOK

LEMMA VideoTyped == NoVideo \in [playing : BOOLEAN, at : Pos, ready : BOOLEAN, sought : BOOLEAN]
  BY DEF NoVideo, Pos

LEMMA OverlayTyped == NoOverlay \in [activated : BOOLEAN, live : BOOLEAN, started : BOOLEAN, error : BOOLEAN]
  BY DEF NoOverlay

LEMMA GoneEnds ==
    ASSUME IInv, Gone
    PROVE  shown' = FALSE /\ told' \in {"none", "ready", "failed"} /\ video' = NoVideo
  BY DEF Gone, Unmount, promiseVars, IInv, WatchTypeOK, PromiseTypeOK

LEMMA ResumeTyped ==
    ASSUME IInv, NEW auth \in BOOLEAN, NEW sel \in Episode \cup {Null},
           applied' = Latched(auth, sel), ResumeEffect(auth)
    PROVE  /\ asked' \subseteq {"wanted", "cancelled"} /\ applied' \in BOOLEAN
           /\ "wanted" \in asked' => sel = Null /\ ~applied'
           /\ asked = {"cancelled"} /\ applied' => asked' = asked
           /\ asked = {} /\ applied' => asked' = asked
  BY DEF ResumeEffect, Latched, IInv, WatchTypeOK

(* A switch of the episode, by the user or by the history. *)
LEMMA SelectKeeps ==
    ASSUME IInv, item, NEW ep \in Episode, NEW at \in Pos, Select(ep, at),
           asked' \subseteq {"wanted", "cancelled"}, applied' \in BOOLEAN, HistorySound',
           UNCHANGED <<authed, item, throttled>>
    PROVE  IInv'
<1>0. WatchTypeOK /\ item' /\ Current \in Episode /\ Current' = ep
  BY ShownIsEpisode, EpisodeAssumption DEF IInv, WatchTypeOK, Select, Current, ShownEpisode
<1>1. CASE ep = Current
  <2>1. UNCHANGED <<promiseVars, stream, requests, reqId, overlay, video, saved>> /\ selected' = ep /\ resumeAt' = at
    BY <1>1 DEF Select
  <2>2. WatchTypeOK'
    BY <1>0, <2>1 DEF WatchTypeOK, PromiseTypeOK, promiseVars
  <2>3. StreamIsCurrent' /\ RequestsSound'
    BY <1>0, <1>1, <2>1 DEF IInv, StreamIsCurrent, RequestsSound, promiseVars
  <2> QED BY <2>1, <2>2, <2>3 DEF IInv, OverlayOfThisPlayer, BrokenIsNotLive, promiseVars
<1>2. CASE ep # Current
  <2>1. /\ Flush(ep, shown, video.at) /\ ResolveStream(ep) /\ overlay' = NoOverlay /\ Gone
        /\ selected' = ep /\ resumeAt' = at
    BY <1>2 DEF Select
  <2>2. saved' \in [Episode -> Pos]
    <3>1. video.at \in Pos /\ shown \in BOOLEAN
      BY <1>0 DEF WatchTypeOK, PromiseTypeOK
    <3> QED BY <2>1, <3>1, PutTyped
  <2>3. WatchTypeOK'
    <3>1. /\ reqId' \in 0 .. MaxRequest /\ stream' \in Stream
          /\ requests' \subseteq [id : 1 .. MaxRequest, ep : Episode]
      BY <2>1, ResolveTyped
    <3>2. PromiseTypeOK' /\ video' \in [playing : BOOLEAN, at : Pos, ready : BOOLEAN, sought : BOOLEAN]
      BY <2>1, GoneEnds, VideoTyped DEF PromiseTypeOK
    <3>3. overlay' \in [activated : BOOLEAN, live : BOOLEAN, started : BOOLEAN, error : BOOLEAN]
      BY <2>1, OverlayTyped
    <3> QED BY <1>0, <2>1, <2>2, <3>1, <3>2, <3>3 DEF WatchTypeOK
  <2>4. StreamIsCurrent' /\ RequestsSound'
    BY <1>0, <2>1, ResolveTyped, GoneEnds DEF StreamIsCurrent, RequestsSound
  <2>5. OverlayOfThisPlayer' /\ BrokenIsNotLive'
    BY <2>1 DEF OverlayOfThisPlayer, BrokenIsNotLive, NoOverlay
  <2> QED BY <2>3, <2>4, <2>5 DEF IInv
<1> QED BY <1>1, <1>2

-----------------------------------------------------------------------------
LEMMA InitInv == WatchInit => IInv
<1> SUFFICES ASSUME WatchInit PROVE IInv
  OBVIOUS
<1>1. stream \in Stream /\ stream.state = "loading"
  BY EpisodeAssumption DEF WatchInit, Stream
<1>2. saved \in [Episode -> Pos] /\ 0 \in 0 .. MaxRequest
  BY RequestAssumption DEF WatchInit, Pos, Middle
<1>3. WatchTypeOK
  <2>1. video \in [playing : BOOLEAN, at : Pos, ready : BOOLEAN, sought : BOOLEAN]
        /\ overlay \in [activated : BOOLEAN, live : BOOLEAN, started : BOOLEAN, error : BOOLEAN]
    BY VideoTyped, OverlayTyped DEF WatchInit
  <2>2. PromiseTypeOK /\ asked = {} /\ requests = {} /\ reqId = 0 /\ resumeAt \in Pos
    <3>1. shown = FALSE /\ told = "none" /\ resumeAt = 0 /\ asked = {} /\ requests = {} /\ reqId = 0
      BY DEF WatchInit, PromiseInit
    <3>2. PromiseTypeOK
      BY <3>1 DEF PromiseTypeOK
    <3>3. resumeAt \in Pos
      BY <3>1 DEF Pos
    <3> QED BY <3>1, <3>2, <3>3
  <2>3. authed \in BOOLEAN /\ item \in BOOLEAN /\ selected \in Episode \cup {Null} /\ applied \in BOOLEAN
        /\ throttled \in BOOLEAN
    <3>1. authed \in BOOLEAN /\ item = FALSE /\ applied = FALSE /\ throttled = FALSE
          /\ selected \in Episode \cup {Null}
      BY DEF WatchInit
    <3> QED BY <3>1
  <2> QED BY <1>1, <1>2, <2>1, <2>2, <2>3 DEF WatchTypeOK
<1>4. StreamIsCurrent /\ RequestsSound /\ HistorySound
  BY <1>1 DEF WatchInit, StreamIsCurrent, RequestsSound, HistorySound, PromiseInit
<1>5. OverlayOfThisPlayer /\ BrokenIsNotLive
  BY DEF WatchInit, OverlayOfThisPlayer, BrokenIsNotLive, NoOverlay
<1> QED BY <1>3, <1>4, <1>5 DEF IInv

LEMMA ItemKeeps == IInv /\ ItemArrives => IInv'
<1> SUFFICES ASSUME IInv, ItemArrives PROVE IInv'
  OBVIOUS
<1>1. WatchTypeOK /\ Current \in Episode /\ Current' = Current /\ selected \in Episode \cup {Null} /\ authed \in BOOLEAN
  BY ShownIsEpisode DEF IInv, WatchTypeOK, Current, ItemArrives
<1>2. ResolveStream(Current) /\ item' /\ applied' = Latched(authed, selected) /\ ResumeEffect(authed)
      /\ UNCHANGED <<promiseVars, authed, selected, resumeAt, overlay, video, saved, throttled>> /\ ~item
  BY DEF ItemArrives
<1>3. WatchTypeOK' /\ HistorySound'
  BY <1>1, <1>2, ResolveTyped, ResumeTyped DEF WatchTypeOK, PromiseTypeOK, promiseVars, HistorySound
<1>4. StreamIsCurrent' /\ RequestsSound'
  BY <1>1, <1>2, ResolveTyped DEF IInv, StreamIsCurrent, RequestsSound, promiseVars
<1> QED BY <1>2, <1>3, <1>4 DEF IInv, OverlayOfThisPlayer, BrokenIsNotLive, promiseVars

LEMMA AuthKeeps == IInv /\ AuthChanges => IInv'
<1> SUFFICES ASSUME IInv, AuthChanges PROVE IInv'
  OBVIOUS
<1>1. UNCHANGED <<promiseVars, item, selected, resumeAt, stream, requests, reqId, overlay, video, saved, throttled>>
      /\ authed' = ~authed /\ selected \in Episode \cup {Null}
  BY DEF AuthChanges, IInv, WatchTypeOK
<1>2. asked' \subseteq {"wanted", "cancelled"} /\ applied' \in BOOLEAN /\ HistorySound'
  <2>1. CASE item
    BY <1>1, <2>1, ResumeTyped DEF AuthChanges, HistorySound
  <2>2. CASE ~item
    BY <1>1, <2>2 DEF AuthChanges, IInv, WatchTypeOK, HistorySound
  <2> QED BY <2>1, <2>2
<1>3. ~item => asked' = {}
  BY DEF AuthChanges, IInv, RequestsSound
<1>4. WatchTypeOK'
  BY <1>1, <1>2 DEF IInv, WatchTypeOK, PromiseTypeOK, promiseVars
<1>5. StreamIsCurrent' /\ RequestsSound'
  BY <1>1, <1>3 DEF IInv, StreamIsCurrent, RequestsSound, Current, promiseVars
<1> QED BY <1>1, <1>2, <1>4, <1>5 DEF IInv, OverlayOfThisPlayer, BrokenIsNotLive, promiseVars

LEMMA UserKeeps == ASSUME IInv, NEW ep \in Episode, UserSelects(ep) PROVE IInv'
<1>1. Select(ep, 0) /\ item /\ 0 \in Pos /\ UNCHANGED <<authed, item, throttled>> /\ selected' = ep /\ authed \in BOOLEAN
  BY DEF UserSelects, Select, Pos, IInv, WatchTypeOK
<1>2. asked' \subseteq {"wanted", "cancelled"} /\ applied' \in BOOLEAN /\ HistorySound'
  <2>1. CASE ep = selected
    BY <1>1, <2>1 DEF UserSelects, IInv, WatchTypeOK, HistorySound
  <2>2. CASE ep # selected
    BY <1>1, <2>2, ResumeTyped DEF UserSelects, HistorySound
  <2> QED BY <2>1, <2>2
<1> QED BY <1>1, <1>2, SelectKeeps

LEMMA HistoryKeeps == ASSUME IInv, NEW call \in asked, HistoryAnswers(call) PROVE IInv'
<1>1. item /\ asked \subseteq {"wanted", "cancelled"} /\ UNCHANGED <<authed, item, throttled>>
  BY DEF IInv, RequestsSound, WatchTypeOK, HistoryAnswers
<1>2. CASE /\ asked' = asked \ {call}
           /\ UNCHANGED <<promiseVars, selected, applied, resumeAt, stream, requests, reqId, overlay, video, saved>>
  <2>1. WatchTypeOK' /\ HistorySound'
    BY <1>1, <1>2 DEF IInv, WatchTypeOK, PromiseTypeOK, promiseVars, HistorySound
  <2>2. StreamIsCurrent' /\ RequestsSound'
    BY <1>1, <1>2 DEF IInv, StreamIsCurrent, RequestsSound, Current, promiseVars
  <2> QED BY <1>2, <2>1, <2>2 DEF IInv, OverlayOfThisPlayer, BrokenIsNotLive, promiseVars
<1>3. ASSUME NEW ep \in Episode, Select(ep, saved[ep]), applied' = TRUE,
             asked' = IF asked \ {call} # {} THEN {"cancelled"} ELSE {}
      PROVE  IInv'
  <2>1. asked' \subseteq {"wanted", "cancelled"} /\ applied' \in BOOLEAN /\ HistorySound' /\ saved[ep] \in Pos
    BY <1>3 DEF HistorySound, IInv, WatchTypeOK
  <2> QED BY <1>1, <1>3, <2>1, SelectKeeps
<1> QED BY <1>2, <1>3 DEF HistoryAnswers

LEMMA ResolvedKeeps == ASSUME IInv, NEW r \in requests, StreamResolved(r) PROVE IInv'
<1>1. UNCHANGED <<authed, item, selected, asked, applied, resumeAt, reqId, overlay>> /\ requests' = requests \ {r}
      /\ Current' = Current /\ Current \in Episode /\ item
  BY ShownIsEpisode DEF StreamResolved, Current, IInv, WatchTypeOK, RequestsSound
<1>2. r \in [id : 1 .. MaxRequest, ep : Episode] /\ r.ep \in Episode
  BY DEF IInv, WatchTypeOK
<1>3. CASE Expected(r)
  <2>1. /\ stream' = [state |-> "ready", ep |-> r.ep] /\ Mount /\ video' = NoVideo
        /\ Flush(Current, TRUE, 0) /\ throttled' = FALSE
    BY <1>3 DEF StreamResolved
  <2>2. r.ep = Current /\ r.id = reqId
    BY <1>3 DEF Expected, IInv, RequestsSound
  <2>3. \A x \in requests' : x.id # reqId
    <3> SUFFICES ASSUME NEW x \in requests, x.id = reqId PROVE x = r
      BY <1>1
    <3>1. x.ep = Current /\ x \in [id : 1 .. MaxRequest, ep : Episode]
      BY DEF IInv, RequestsSound, WatchTypeOK
    <3> QED BY <1>2, <2>2, <3>1
  <2>4. saved' \in [Episode -> Pos]
    <3>1. 0 \in Pos /\ TRUE \in BOOLEAN
      BY DEF Pos
    <3> QED BY <1>1, <2>1, <3>1, PutTyped
  <2>5. WatchTypeOK'
    BY <1>1, <1>2, <2>1, <2>4, VideoTyped DEF IInv, WatchTypeOK, PromiseTypeOK, Mount, Stream
  <2>6. StreamIsCurrent' /\ RequestsSound'
    BY <1>1, <2>1, <2>2, <2>3 DEF IInv, StreamIsCurrent, RequestsSound, Mount
  <2> QED BY <1>1, <2>1, <2>5, <2>6 DEF IInv, HistorySound, OverlayOfThisPlayer, BrokenIsNotLive, Mount
<1>4. CASE ~Expected(r)
  <2>1. UNCHANGED <<promiseVars, stream, video, saved, throttled>>
    BY <1>4 DEF StreamResolved
  <2>2. WatchTypeOK'
    BY <1>1, <2>1 DEF IInv, WatchTypeOK, PromiseTypeOK, promiseVars
  <2>3. StreamIsCurrent' /\ RequestsSound'
    BY <1>1, <2>1 DEF IInv, StreamIsCurrent, RequestsSound, promiseVars
  <2> QED BY <1>1, <2>1, <2>2, <2>3 DEF IInv, HistorySound, OverlayOfThisPlayer, BrokenIsNotLive, promiseVars
<1> QED BY <1>3, <1>4

LEMMA FailsKeeps == ASSUME IInv, NEW r \in requests, StreamFails(r) PROVE IInv'
<1>1. UNCHANGED <<promiseVars, authed, item, selected, asked, applied, resumeAt, reqId, overlay, video, saved, throttled>>
      /\ requests' = requests \ {r} /\ Current' = Current /\ item
      /\ stream' = IF Expected(r) THEN [stream EXCEPT !.state = "error"] ELSE stream
  BY DEF StreamFails, Current, IInv, RequestsSound
<1>2. stream' \in Stream /\ stream'.ep = stream.ep /\ (stream'.state = "ready" <=> stream.state = "ready")
  <2>1. Expected(r) => stream.state = "loading"
    BY DEF Expected, IInv, RequestsSound
  <2> QED BY <1>1, <2>1 DEF IInv, WatchTypeOK, Stream
<1>3. \A x \in requests' : x.id = reqId => ~Expected(r)
  <2> SUFFICES ASSUME NEW x \in requests, x.id = reqId, r.id = reqId PROVE x = r
    BY <1>1 DEF Expected
  <2>1. x.ep = r.ep /\ x \in [id : 1 .. MaxRequest, ep : Episode] /\ r \in [id : 1 .. MaxRequest, ep : Episode]
    BY DEF IInv, RequestsSound, WatchTypeOK
  <2> QED BY <2>1
<1>4. WatchTypeOK'
  BY <1>1, <1>2 DEF IInv, WatchTypeOK, PromiseTypeOK, promiseVars
<1>5. StreamIsCurrent' /\ RequestsSound'
  BY <1>1, <1>2, <1>3 DEF IInv, StreamIsCurrent, RequestsSound, promiseVars
<1> QED BY <1>1, <1>4, <1>5 DEF IInv, HistorySound, OverlayOfThisPlayer, BrokenIsNotLive, promiseVars

LEMMA RetryKeeps == IInv /\ RetryStream => IInv'
<1> SUFFICES ASSUME IInv, RetryStream PROVE IInv'
  OBVIOUS
<1>1. WatchTypeOK /\ Current \in Episode /\ Current' = Current /\ item
  BY ShownIsEpisode DEF IInv, WatchTypeOK, Current, RetryStream, RequestsSound, OverlayOfThisPlayer, StreamIsCurrent
<1>2. ResolveStream(Current) /\ Gone /\ overlay' = NoOverlay
      /\ UNCHANGED <<authed, item, selected, asked, applied, resumeAt, saved, throttled>>
  BY DEF RetryStream
<1>3. WatchTypeOK' /\ HistorySound'
  <2>1. /\ reqId' \in 0 .. MaxRequest /\ stream' \in Stream
        /\ requests' \subseteq [id : 1 .. MaxRequest, ep : Episode]
    BY <1>1, <1>2, ResolveTyped
  <2>2. PromiseTypeOK' /\ video' \in [playing : BOOLEAN, at : Pos, ready : BOOLEAN, sought : BOOLEAN]
    BY <1>2, GoneEnds, VideoTyped DEF PromiseTypeOK
  <2>3. overlay' \in [activated : BOOLEAN, live : BOOLEAN, started : BOOLEAN, error : BOOLEAN]
    BY <1>2, OverlayTyped
  <2> QED BY <1>1, <1>2, <2>1, <2>2, <2>3 DEF WatchTypeOK, IInv, HistorySound
<1>4. StreamIsCurrent' /\ RequestsSound'
  BY <1>1, <1>2, ResolveTyped, GoneEnds DEF StreamIsCurrent, RequestsSound
<1> QED BY <1>2, <1>3, <1>4 DEF IInv, OverlayOfThisPlayer, BrokenIsNotLive, NoOverlay

(* What the player tells, and a click on the chip, only write the overlay    *)
(* and the video.                                                            *)
LEMMA OverlayStep ==
    ASSUME IInv, UNCHANGED <<shown, item, selected, asked, applied, stream, requests, reqId>>,
           WatchTypeOK', OverlayOfThisPlayer', BrokenIsNotLive'
    PROVE  IInv'
  BY DEF IInv, StreamIsCurrent, RequestsSound, HistorySound, Current

LEMMA OverlayWrites ==
    ASSUME IInv
    PROVE  LET o == overlay
               b == [activated : BOOLEAN, live : BOOLEAN, started : BOOLEAN, error : BOOLEAN]
           IN  /\ [o EXCEPT !.error = FALSE] \in b
               /\ [o EXCEPT !.error = TRUE, !.live = FALSE] \in b
               /\ [o EXCEPT !.live = TRUE, !.error = FALSE, !.started = o.started \/ o.activated] \in b
               /\ [o EXCEPT !.activated = TRUE, !.started = o.live] \in b
<1> DEFINE o == overlay
           s == overlay.started \/ overlay.activated
           v == overlay.live
<1>1. o \in [activated : BOOLEAN, live : BOOLEAN, started : BOOLEAN, error : BOOLEAN] /\ s \in BOOLEAN /\ v \in BOOLEAN
  BY DEF IInv, WatchTypeOK
<1> HIDE DEF o, s, v
<1>2. /\ [o EXCEPT !.error = FALSE] \in [activated : BOOLEAN, live : BOOLEAN, started : BOOLEAN, error : BOOLEAN]
      /\ [o EXCEPT !.error = TRUE, !.live = FALSE] \in [activated : BOOLEAN, live : BOOLEAN, started : BOOLEAN, error : BOOLEAN]
      /\ [o EXCEPT !.live = TRUE, !.error = FALSE, !.started = s] \in [activated : BOOLEAN, live : BOOLEAN, started : BOOLEAN, error : BOOLEAN]
      /\ [o EXCEPT !.activated = TRUE, !.started = v] \in [activated : BOOLEAN, live : BOOLEAN, started : BOOLEAN, error : BOOLEAN]
  BY <1>1
<1> QED BY <1>2 DEF o, s, v

LEMMA VideoWrites ==
    ASSUME IInv, NEW at \in Pos, NEW b \in BOOLEAN
    PROVE  /\ [video EXCEPT !.ready = TRUE, !.sought = b, !.at = at]
                 \in [playing : BOOLEAN, at : Pos, ready : BOOLEAN, sought : BOOLEAN]
           /\ [video EXCEPT !.playing = b] \in [playing : BOOLEAN, at : Pos, ready : BOOLEAN, sought : BOOLEAN]
           /\ [video EXCEPT !.at = at] \in [playing : BOOLEAN, at : Pos, ready : BOOLEAN, sought : BOOLEAN]
           /\ video.at \in Pos /\ video.sought \in BOOLEAN
<1>1. video \in [playing : BOOLEAN, at : Pos, ready : BOOLEAN, sought : BOOLEAN]
  BY DEF IInv, WatchTypeOK
<1> QED BY <1>1

LEMMA ReadyKeeps == IInv /\ PlayerReady => IInv'
<1> SUFFICES ASSUME IInv, PlayerReady PROVE IInv'
  OBVIOUS
<1> DEFINE seeks == resumeAt > 0 /\ ~video.sought
           at == IF seeks THEN resumeAt ELSE video.at
           b == video.sought \/ seeks
<1>1. UNCHANGED <<shown, authed, item, selected, asked, applied, resumeAt, stream, requests, reqId, saved, throttled>>
      /\ told' = "ready" /\ shown /\ overlay' = [overlay EXCEPT !.error = FALSE]
      /\ video' = [video EXCEPT !.ready = TRUE, !.sought = b, !.at = at]
  BY DEF PlayerReady, Tell
<1>2. at \in Pos /\ b \in BOOLEAN
  BY VideoWrites DEF IInv, WatchTypeOK
<1>3. video' \in [playing : BOOLEAN, at : Pos, ready : BOOLEAN, sought : BOOLEAN]
  <2> HIDE DEF at, b
  <2> QED BY <1>1, <1>2, VideoWrites
<1>4. overlay' \in [activated : BOOLEAN, live : BOOLEAN, started : BOOLEAN, error : BOOLEAN]
  BY <1>1, OverlayWrites
<1>5. WatchTypeOK'
  BY <1>1, <1>3, <1>4 DEF IInv, WatchTypeOK, PromiseTypeOK
<1>6. OverlayOfThisPlayer' /\ BrokenIsNotLive'
  <2>1. overlay'.error = FALSE /\ overlay'.started = overlay.started /\ overlay'.activated = overlay.activated
    BY <1>1 DEF IInv, WatchTypeOK
  <2> QED BY <1>1, <2>1 DEF IInv, OverlayOfThisPlayer, BrokenIsNotLive
<1> QED BY <1>1, <1>5, <1>6, OverlayStep

LEMMA FailedKeeps == IInv /\ PlayerFails => IInv'
<1> SUFFICES ASSUME IInv, PlayerFails PROVE IInv'
  OBVIOUS
<1>1. UNCHANGED <<shown, authed, item, selected, asked, applied, resumeAt, stream, requests, reqId, video, saved, throttled>>
      /\ told' = "failed" /\ shown /\ overlay' = [overlay EXCEPT !.error = TRUE, !.live = FALSE]
  BY DEF PlayerFails, Tell
<1>2. overlay' \in [activated : BOOLEAN, live : BOOLEAN, started : BOOLEAN, error : BOOLEAN]
  BY <1>1, OverlayWrites
<1>3. WatchTypeOK'
  BY <1>1, <1>2 DEF IInv, WatchTypeOK, PromiseTypeOK
<1>4. OverlayOfThisPlayer' /\ BrokenIsNotLive'
  <2>1. overlay'.live = FALSE /\ overlay'.started = overlay.started /\ overlay'.activated = overlay.activated
    BY <1>1 DEF IInv, WatchTypeOK
  <2> QED BY <1>1, <2>1 DEF IInv, OverlayOfThisPlayer, BrokenIsNotLive
<1> QED BY <1>1, <1>3, <1>4, OverlayStep

LEMMA PlayingKeeps == IInv /\ PlayingBegins => IInv'
<1> SUFFICES ASSUME IInv, PlayingBegins PROVE IInv'
  OBVIOUS
<1> DEFINE s == overlay.started \/ overlay.activated
<1>1. UNCHANGED <<shown, told, authed, item, selected, asked, applied, resumeAt, stream, requests, reqId, saved, throttled>>
      /\ shown /\ overlay' = [overlay EXCEPT !.live = TRUE, !.error = FALSE, !.started = s]
      /\ video' = [video EXCEPT !.playing = TRUE]
  BY DEF PlayingBegins, promiseVars
<1>2. video' \in [playing : BOOLEAN, at : Pos, ready : BOOLEAN, sought : BOOLEAN]
  <2>1. 0 \in Pos /\ TRUE \in BOOLEAN
    BY DEF Pos
  <2> QED BY <1>1, <2>1, VideoWrites
<1>3. overlay' \in [activated : BOOLEAN, live : BOOLEAN, started : BOOLEAN, error : BOOLEAN]
  BY <1>1, OverlayWrites
<1>4. WatchTypeOK'
  BY <1>1, <1>2, <1>3 DEF IInv, WatchTypeOK, PromiseTypeOK
<1>5. OverlayOfThisPlayer' /\ BrokenIsNotLive'
  <2>1. overlay'.error = FALSE /\ overlay'.started = s /\ overlay'.activated = overlay.activated
    <3> HIDE DEF s
    <3> QED BY <1>1 DEF IInv, WatchTypeOK
  <2> QED BY <1>1, <2>1 DEF IInv, OverlayOfThisPlayer, BrokenIsNotLive
<1> QED BY <1>1, <1>4, <1>5, OverlayStep

LEMMA ChipKeeps == IInv /\ ClickChip => IInv'
<1> SUFFICES ASSUME IInv, ClickChip PROVE IInv'
  OBVIOUS
<1> DEFINE v == overlay.live
<1>1. UNCHANGED <<shown, told, authed, item, selected, asked, applied, resumeAt, stream, requests, reqId, video, saved, throttled>>
      /\ shown /\ overlay' = [overlay EXCEPT !.activated = TRUE, !.started = v] /\ ~overlay.error
  BY DEF ClickChip, promiseVars
<1>2. overlay' \in [activated : BOOLEAN, live : BOOLEAN, started : BOOLEAN, error : BOOLEAN]
  BY <1>1, OverlayWrites
<1>3. WatchTypeOK'
  BY <1>1, <1>2 DEF IInv, WatchTypeOK, PromiseTypeOK
<1>4. OverlayOfThisPlayer' /\ BrokenIsNotLive'
  <2>1. overlay'.error = overlay.error /\ overlay'.activated
    <3> HIDE DEF v
    <3> QED BY <1>1 DEF IInv, WatchTypeOK
  <2> QED BY <1>1, <2>1 DEF OverlayOfThisPlayer, BrokenIsNotLive
<1> QED BY <1>1, <1>3, <1>4, OverlayStep

(* The playhead and the progress. *)
LEMMA ProgressKeeps == IInv /\ (PlayingStops \/ TimeUpdate \/ ThrottleEnds) => IInv'
<1> SUFFICES ASSUME IInv, PlayingStops \/ TimeUpdate \/ ThrottleEnds PROVE IInv'
  OBVIOUS
<1>1. UNCHANGED <<shown, told, authed, item, selected, asked, applied, resumeAt, stream, requests, reqId, overlay>>
  BY DEF PlayingStops, TimeUpdate, ThrottleEnds, promiseVars
<1>2. Current \in Episode /\ throttled' \in BOOLEAN
  BY ShownIsEpisode DEF Current, IInv, WatchTypeOK, PlayingStops, TimeUpdate, ThrottleEnds
<1>3. /\ video' \in [playing : BOOLEAN, at : Pos, ready : BOOLEAN, sought : BOOLEAN]
      /\ saved' \in [Episode -> Pos]
  <2>1. CASE PlayingStops
    <3>1. FALSE \in BOOLEAN /\ TRUE \in BOOLEAN /\ 0 \in Pos
      BY DEF Pos
    <3>2. Flush(Current, TRUE, video.at) /\ video' = [video EXCEPT !.playing = FALSE]
      BY <2>1 DEF PlayingStops
    <3>3. video.at \in Pos /\ video' \in [playing : BOOLEAN, at : Pos, ready : BOOLEAN, sought : BOOLEAN]
      BY <3>1, <3>2, VideoWrites
    <3> QED BY <1>2, <3>1, <3>2, <3>3, PutTyped
  <2>2. CASE TimeUpdate
    <3>1. PICK at \in Pos : /\ video' = [video EXCEPT !.at = at]
                            /\ Put(Current, at) \/ saved' = saved
      BY <2>2 DEF TimeUpdate
    <3>2. video' \in [playing : BOOLEAN, at : Pos, ready : BOOLEAN, sought : BOOLEAN]
      BY <3>1, VideoWrites
    <3>3. saved' \in [Episode -> Pos]
      BY <1>2, <3>1, PutTyped DEF IInv, WatchTypeOK
    <3> QED BY <3>2, <3>3
  <2>3. CASE ThrottleEnds
    BY <2>3 DEF ThrottleEnds, IInv, WatchTypeOK
  <2> QED BY <2>1, <2>2, <2>3
<1>4. WatchTypeOK'
  BY <1>1, <1>2, <1>3 DEF IInv, WatchTypeOK, PromiseTypeOK
<1>5. OverlayOfThisPlayer' /\ BrokenIsNotLive'
  BY <1>1 DEF IInv, OverlayOfThisPlayer, BrokenIsNotLive
<1> QED BY <1>1, <1>4, <1>5, OverlayStep

LEMMA NextInv == IInv /\ [WatchNext]_watchVars => IInv'
<1> SUFFICES ASSUME IInv, [WatchNext]_watchVars PROVE IInv'
  OBVIOUS
<1>1. CASE UNCHANGED watchVars
  <2>1. UNCHANGED <<shown, told, authed, item, selected, asked, applied, resumeAt, stream, requests, reqId,
                    overlay, video, saved, throttled>>
    BY <1>1 DEF watchVars, promiseVars, pageVars
  <2>2. WatchTypeOK' /\ OverlayOfThisPlayer' /\ BrokenIsNotLive'
    BY <2>1 DEF IInv, WatchTypeOK, PromiseTypeOK, OverlayOfThisPlayer, BrokenIsNotLive
  <2> QED BY <2>1, <2>2, OverlayStep
<1> QED BY <1>1, ItemKeeps, AuthKeeps, UserKeeps, HistoryKeeps, ResolvedKeeps, FailsKeeps, RetryKeeps,
        ReadyKeeps, FailedKeeps, PlayingKeeps, ChipKeeps, ProgressKeeps DEF WatchNext

THEOREM Inductive == WatchSpec => []IInv
  BY InitInv, NextInv, PTL DEF WatchSpec

(* Type correctness. *)
THEOREM WatchTypeCorrect == WatchSpec => []WatchTypeOK
<1>1. IInv => WatchTypeOK
  BY DEF IInv
<1> QED BY <1>1, Inductive, PTL

(* In whatever order the stream requests are answered, the stream that is    *)
(* shown is that of the episode of the page, and a player is mounted just    *)
(* when there is one: streamReqId.                                           *)
THEOREM StreamAlwaysCurrent == WatchSpec => []StreamIsCurrent
<1>1. IInv => StreamIsCurrent
  BY DEF IInv
<1> QED BY <1>1, Inductive, PTL

(* No banner and no click intent outlives its player: the resets of the      *)
(* stream effect and of retryStream.                                         *)
THEOREM OverlayAlwaysOfThisPlayer == WatchSpec => []OverlayOfThisPlayer
<1>1. IInv => OverlayOfThisPlayer
  BY DEF IInv
<1> QED BY <1>1, Inductive, PTL

(* An answer of the history never replaces the episode that was picked: the  *)
(* latch and the cancelled flag of the resume effect.                        *)
THEOREM UserAlwaysWins == WatchSpec => UserChoiceWins
<1>1. IInv /\ [WatchNext]_watchVars => [selected # Null /\ asked' # asked => selected' = selected]_watchVars
  <2> SUFFICES ASSUME IInv, WatchNext, selected # Null, asked' # asked PROVE selected' = selected
    OBVIOUS
  <2>1. asked \subseteq {"cancelled"}
    BY DEF IInv, HistorySound, WatchTypeOK
  <2>2. ASSUME NEW ep \in Episode, UserSelects(ep), ep # selected PROVE FALSE
    <3>1. applied' = Latched(authed, ep) /\ ResumeEffect(authed) /\ ep # Null
      BY <2>2, EpisodeAssumption DEF UserSelects
    <3> QED BY <2>1, <3>1 DEF ResumeEffect, Latched
  <2>3. ASSUME NEW call \in asked, HistoryAnswers(call) PROVE selected' = selected
    BY <2>1, <2>3 DEF HistoryAnswers, Wanted
  <2>4. ASSUME NEW ep \in Episode, UserSelects(ep) PROVE selected' = selected
    BY <2>2, <2>4 DEF UserSelects, Select
  <2> QED BY <2>3, <2>4 DEF WatchNext, ItemArrives, AuthChanges, StreamResolved, StreamFails, RetryStream,
             PlayerReady, PlayerFails, PlayingBegins, PlayingStops, TimeUpdate, ThrottleEnds, ClickChip
<1> QED BY <1>1, Inductive, PTL DEF WatchSpec, UserChoiceWins

(* The page drives the player as PlayerPromise has it: HlsPlayer, which      *)
(* implements the same promise, can stand for it.                            *)
THEOREM UsesPromise == WatchSpec => PromiseSpec
<1>1. WatchInit => PromiseInit
  BY DEF WatchInit
<1>2. [WatchNext]_watchVars => [PromiseNext]_promiseVars
  BY DEF WatchNext, ItemArrives, AuthChanges, UserSelects, HistoryAnswers, Select, Gone, StreamResolved,
     StreamFails, RetryStream, PlayerReady, PlayerFails, PlayingBegins, PlayingStops, TimeUpdate,
     ThrottleEnds, ClickChip, PromiseNext, watchVars
<1> QED BY <1>1, <1>2, PTL DEF WatchSpec, PromiseSpec
=============================================================================
