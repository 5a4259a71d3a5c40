-------------------------- MODULE HlsPlayer_proofs --------------------------
(***************************************************************************)
(* Proofs about HlsPlayer, for every number of lives and retries.          *)
(***************************************************************************)
EXTENDS HlsPlayer, TLAPS

(* A life to come has left nothing; the one that is heard is the last one   *)
(* and hlsRef is its live instance; the second copy is only made, once,     *)
(* when the restart destroyed the first.                                    *)
Sound(l) ==
    /\ l > life => /\ ~mountedRef[l] /\ ~refs[l].restarted /\ timers[l] = {}
                   /\ \A c \in Copy : hls[l][c].state = "none"
    /\ mountedRef[l] => /\ shown /\ l = life
                        /\ hls[l][1].state # "none"
                        /\ \A c \in Copy : Alive(l, c) <=> refs[l].hls = c
    /\ Alive(l, 2) => hls[l][1].state = "destroyed"
    /\ 0 \in timers[l] => refs[l].restarted /\ hls[l][2].state = "none"
    /\ ~refs[l].restarted => hls[l][2].state = "none"

LivesSound == \A l \in Life : Sound(l)

LastIsMounted == shown => life \in Life /\ mountedRef[life]

(* The inductive invariant: the guards of the timers are enough because      *)
(* hlsRef is the live instance of the player that is heard.                  *)
IInv == PlayerTypeOK /\ LastIsMounted /\ LivesSound

-----------------------------------------------------------------------------
(* Replacing an instance, the refs or the timers of a life by typed ones.   *)
LEMMA SetHls ==
    ASSUME PlayerTypeOK, NEW l \in Life, NEW c \in Copy, NEW i \in Instance,
           hls' = [hls EXCEPT ![l][c] = i]
    PROVE  /\ hls' \in [Life -> [Copy -> Instance]]
           /\ hls'[l][c] = i
           /\ \A d \in Copy \ {c} : hls'[l][d] = hls[l][d]
           /\ \A x \in Life \ {l} : hls'[x] = hls[x]
  BY DEF PlayerTypeOK

LEMMA SetRefs ==
    ASSUME PlayerTypeOK, NEW l \in Life, NEW r \in Refs, refs' = [refs EXCEPT ![l] = r]
    PROVE  /\ refs' \in [Life -> Refs]
           /\ refs'[l] = r
           /\ \A x \in Life \ {l} : refs'[x] = refs[x]
  BY DEF PlayerTypeOK

LEMMA SetTimers ==
    ASSUME PlayerTypeOK, NEW l \in Life, NEW ts \in SUBSET Timer, timers' = [timers EXCEPT ![l] = ts]
    PROVE  /\ timers' \in [Life -> SUBSET Timer]
           /\ timers'[l] = ts
           /\ \A x \in Life \ {l} : timers'[x] = timers[x]
  BY DEF PlayerTypeOK

(* The instances and the refs a step may write. *)
LEMMA NewInstance ==
    ASSUME PlayerTypeOK, NEW l \in Life, NEW c \in Copy,
           NEW s \in {"none", "loading", "lost", "parsed", "stopped", "destroyed"}
    PROVE  /\ hls[l][c] \in Instance
           /\ [hls[l][c] EXCEPT !.state = s] \in Instance
           /\ [state |-> s, errors |-> Count(hls[l][c].errors)] \in Instance
           /\ [state |-> s, errors |-> 0] \in Instance
           /\ [hls[l][c] EXCEPT !.state = s].state = s
<1>1. hls[l][c] \in Instance
  BY DEF PlayerTypeOK
<1> QED BY <1>1 DEF Instance, Count, MaxErrors

(* The same with the value named. *)
LEMMA Written ==
    ASSUME PlayerTypeOK, NEW l \in Life, NEW c \in Copy,
           NEW s \in {"none", "loading", "lost", "parsed", "stopped", "destroyed"},
           NEW i, i = [hls[l][c] EXCEPT !.state = s] \/ i = [state |-> s, errors |-> Count(hls[l][c].errors)]
    PROVE  i \in Instance /\ i.state = s
<1>1. CASE i = [hls[l][c] EXCEPT !.state = s]
  <2>1. hls[l][c] \in Instance
    BY DEF PlayerTypeOK
  <2>2. PICK h : h = hls[l][c]
    OBVIOUS
  <2> QED BY <1>1, <2>1, <2>2 DEF Instance
<1>2. CASE i = [state |-> s, errors |-> Count(hls[l][c].errors)]
  <2>1. [state |-> s, errors |-> Count(hls[l][c].errors)] \in Instance
    BY NewInstance
  <2> QED BY <1>2, <2>1
<1> QED BY <1>1, <1>2

LEMMA NewRefs ==
    ASSUME PlayerTypeOK, NEW l \in Life, NEW c \in Copy
    PROVE  /\ refs[l] \in Refs
           /\ [refs[l] EXCEPT !.hls = c, !.fatal = 0] \in Refs
           /\ [refs[l] EXCEPT !.hls = c, !.fatal = 0].hls = c
           /\ [refs[l] EXCEPT !.hls = c, !.fatal = 0].restarted = refs[l].restarted
           /\ [refs[l] EXCEPT !.fatal = 0] \in Refs
           /\ [refs[l] EXCEPT !.fatal = 0].hls = refs[l].hls
           /\ [refs[l] EXCEPT !.fatal = 0].restarted = refs[l].restarted
           /\ InBudget(l) => [refs[l] EXCEPT !.fatal = refs[l].fatal + 1] \in Refs
           /\ [refs[l] EXCEPT !.fatal = refs[l].fatal + 1].hls = refs[l].hls
           /\ [refs[l] EXCEPT !.fatal = refs[l].fatal + 1].restarted = refs[l].restarted
           /\ [refs[l] EXCEPT !.hls = 0] \in Refs
           /\ [refs[l] EXCEPT !.hls = 0].hls = 0
           /\ [refs[l] EXCEPT !.hls = 0].restarted = refs[l].restarted
           /\ [refs[l] EXCEPT !.hls = 0, !.restarted = TRUE] \in Refs
           /\ [refs[l] EXCEPT !.hls = 0, !.restarted = TRUE].hls = 0
           /\ [refs[l] EXCEPT !.hls = 0, !.restarted = TRUE].restarted
<1> DEFINE q == refs[l]
<1>1. q \in Refs
  BY DEF PlayerTypeOK
<1>2. InBudget(l) => q.fatal < MaxRetries
  BY DEF InBudget
<1> HIDE DEF q
<1>3. 0 \in 0 .. MaxRetries
  BY PlayerAssumption
<1>4. /\ [q EXCEPT !.hls = c, !.fatal = 0] \in Refs
      /\ [q EXCEPT !.hls = c, !.fatal = 0].hls = c
      /\ [q EXCEPT !.hls = c, !.fatal = 0].restarted = q.restarted
  BY <1>1, <1>3 DEF Refs
<1>5. /\ [q EXCEPT !.fatal = 0] \in Refs
      /\ [q EXCEPT !.fatal = 0].hls = q.hls
      /\ [q EXCEPT !.fatal = 0].restarted = q.restarted
  BY <1>1, <1>3 DEF Refs
<1>6. /\ InBudget(l) => [q EXCEPT !.fatal = q.fatal + 1] \in Refs
      /\ [q EXCEPT !.fatal = q.fatal + 1].hls = q.hls
      /\ [q EXCEPT !.fatal = q.fatal + 1].restarted = q.restarted
  <2>1. InBudget(l) => q.fatal + 1 \in 0 .. MaxRetries
    BY <1>1, <1>2, PlayerAssumption DEF Refs
  <2> QED BY <1>1, <2>1 DEF Refs
<1>7. /\ [q EXCEPT !.hls = 0] \in Refs
      /\ [q EXCEPT !.hls = 0].hls = 0
      /\ [q EXCEPT !.hls = 0].restarted = q.restarted
  BY <1>1 DEF Refs
<1>8. /\ [q EXCEPT !.hls = 0, !.restarted = TRUE] \in Refs
      /\ [q EXCEPT !.hls = 0, !.restarted = TRUE].hls = 0
      /\ [q EXCEPT !.hls = 0, !.restarted = TRUE].restarted
  BY <1>1 DEF Refs
<1> QED BY <1>1, <1>4, <1>5, <1>6, <1>7, <1>8 DEF q

(* What the page is told, and by whom. *)
LEMMA SaysTyped ==
    ASSUME IInv, NEW l \in Life, NEW r \in {"ready", "failed"}, Says(l, r)
    PROVE  /\ told' \in {"none", "ready", "failed"}
           /\ mountedRef[l] => shown /\ l = life /\ told' = r
           /\ ~mountedRef[l] => told' = told
  BY DEF Says, Heard, IInv, PlayerTypeOK, LivesSound, Sound

(* A step of life l leaves the others sound. *)
LEMMA LifeStep ==
    ASSUME IInv, NEW l \in Life, PlayerTypeOK', UNCHANGED <<life, shown, mountedRef>>,
           \A x \in Life \ {l} : hls'[x] = hls[x] /\ refs'[x] = refs[x] /\ timers'[x] = timers[x],
           Sound(l)'
    PROVE  IInv'
<1>1. ASSUME NEW x \in Life PROVE Sound(x)'
  <2>1. CASE x = l
    BY <2>1
  <2>2. CASE x # l
    <3>1. Sound(x) /\ hls'[x] = hls[x] /\ refs'[x] = refs[x] /\ timers'[x] = timers[x]
      BY <2>2 DEF IInv, LivesSound
    <3> QED BY <3>1 DEF Sound, Alive
  <2> QED BY <2>1, <2>2
<1>2. LastIsMounted'
  BY DEF IInv, LastIsMounted
<1> QED BY <1>1, <1>2 DEF IInv, LivesSound

-----------------------------------------------------------------------------
LEMMA InitInv == PlayerInit => IInv
<1> SUFFICES ASSUME PlayerInit PROVE IInv
  OBVIOUS
<1>1. NoCopy \in Instance /\ [hls |-> 0, fatal |-> 0, restarted |-> FALSE] \in Refs
  BY PlayerAssumption DEF NoCopy, Instance, Refs, MaxErrors
<1>2. PlayerTypeOK
  <2>1. [c \in Copy |-> NoCopy] \in [Copy -> Instance]
    BY <1>1
  <2>2. hls \in [Life -> [Copy -> Instance]]
    BY <2>1 DEF PlayerInit
  <2>3. refs \in [Life -> Refs]
    BY <1>1 DEF PlayerInit
  <2>4. life \in 0 .. MaxLife
    BY PlayerAssumption DEF PlayerInit
  <2> QED BY <2>2, <2>3, <2>4 DEF PlayerInit, PlayerTypeOK
<1>3. LivesSound
  BY DEF PlayerInit, LivesSound, Sound, Alive, Copy, NoCopy
<1> QED BY <1>2, <1>3 DEF IInv, PlayerInit, LastIsMounted

LEMMA MountKeeps == IInv /\ MountPlayer => IInv'
<1> SUFFICES ASSUME IInv, MountPlayer PROVE IInv'
  OBVIOUS
<1> DEFINE n == life + 1
<1>1. n \in Life /\ life \in Nat /\ 1 \in Copy /\ PlayerTypeOK
  BY PlayerAssumption DEF IInv, PlayerTypeOK, Life, Copy, MountPlayer
<1>2. /\ hls' \in [Life -> [Copy -> Instance]]
      /\ hls'[n][1] = [state |-> "loading", errors |-> 0]
      /\ \A d \in Copy \ {1} : hls'[n][d] = hls[n][d]
      /\ \A x \in Life \ {n} : hls'[x] = hls[x]
  BY <1>1, SetHls, NewInstance DEF MountPlayer, MakeHls
<1>3. /\ refs' \in [Life -> Refs]
      /\ refs'[n] = [refs[n] EXCEPT !.hls = 1, !.fatal = 0]
      /\ \A x \in Life \ {n} : refs'[x] = refs[x]
  BY <1>1, SetRefs, NewRefs DEF MountPlayer, MakeHls
<1>4. refs'[n].hls = 1 /\ refs'[n].restarted = refs[n].restarted
  BY <1>1, <1>3, NewRefs DEF Refs
<1>5. PlayerTypeOK'
  <2>1. life' \in 0 .. MaxLife /\ mountedRef' \in [Life -> BOOLEAN] /\ pending' \in [Life -> BOOLEAN]
    BY <1>1, PlayerAssumption DEF PlayerTypeOK, MountPlayer
  <2> QED BY <1>1, <1>2, <1>3, <2>1 DEF PlayerTypeOK, MountPlayer
<1>6. LivesSound'
  <2> SUFFICES ASSUME NEW l \in Life PROVE Sound(l)'
    BY DEF LivesSound
  <2>1. Sound(l)
    BY DEF IInv, LivesSound
  <2>2. CASE l = n
    <3>1. ~refs[n].restarted /\ timers'[n] = {} /\ hls'[n][2].state = "none" /\ hls'[n][1].state = "loading"
      BY <1>1, <1>2, <2>1, <2>2 DEF Sound, MountPlayer, Copy
    <3>2. mountedRef'[n] /\ shown' /\ life' = n
      BY <1>1 DEF MountPlayer, PlayerTypeOK
    <3> QED BY <1>1, <1>4, <2>2, <3>1, <3>2 DEF Sound, Alive, Copy
  <2>3. CASE l # n
    <3>1. hls'[l] = hls[l] /\ refs'[l] = refs[l] /\ timers'[l] = timers[l] /\ mountedRef'[l] = mountedRef[l]
      BY <1>1, <1>2, <1>3, <2>3 DEF MountPlayer, PlayerTypeOK
    <3>2. ~mountedRef[l] /\ (l > life' => l > life)
      BY <1>1, <2>1 DEF Sound, MountPlayer, Life
    <3> QED BY <2>1, <3>1, <3>2 DEF Sound, Alive
  <2> QED BY <2>2, <2>3
<1>7. LastIsMounted'
  <2>1. life' = n /\ mountedRef'[n]
    BY <1>1 DEF MountPlayer, PlayerTypeOK
  <2> QED BY <1>1, <2>1 DEF LastIsMounted
<1> QED BY <1>5, <1>6, <1>7 DEF IInv

LEMMA UnmountKeeps == IInv /\ UnmountPlayer => IInv'
<1> SUFFICES ASSUME IInv, UnmountPlayer PROVE IInv'
  OBVIOUS
<1>1. life \in Life /\ 1 \in Copy /\ PlayerTypeOK
  BY DEF IInv, LastIsMounted, UnmountPlayer, Copy
<1> DEFINE i == [hls[life][1] EXCEPT !.state = "destroyed"]
<1>2. i \in Instance /\ i.state = "destroyed"
  BY <1>1, NewInstance
<1>3. /\ hls' \in [Life -> [Copy -> Instance]]
      /\ hls'[life][1] = i
      /\ \A d \in Copy \ {1} : hls'[life][d] = hls[life][d]
      /\ \A x \in Life \ {life} : hls'[x] = hls[x]
  BY <1>1, <1>2, SetHls DEF UnmountPlayer
<1>4. /\ refs' \in [Life -> Refs]
      /\ refs'[life] = [refs[life] EXCEPT !.hls = 0]
      /\ \A x \in Life \ {life} : refs'[x] = refs[x]
  BY <1>1, SetRefs, NewRefs DEF UnmountPlayer
<1>5. refs'[life].restarted = refs[life].restarted
  BY <1>1, <1>4, NewRefs DEF Refs
<1>6. PlayerTypeOK'
  BY <1>1, <1>3, <1>4 DEF PlayerTypeOK, UnmountPlayer
<1>7. LivesSound'
  <2> SUFFICES ASSUME NEW l \in Life PROVE Sound(l)'
    BY DEF LivesSound
  <2>1. Sound(l) /\ timers'[l] = timers[l] /\ life' = life /\ life \in Nat
    BY <1>1 DEF IInv, LivesSound, UnmountPlayer, Life
  <2>2. CASE l = life
    <3>1. ~mountedRef'[l] /\ hls'[l][1].state = "destroyed" /\ hls'[l][2].state = hls[l][2].state
      BY <1>1, <1>2, <1>3, <2>2 DEF UnmountPlayer, PlayerTypeOK, Copy
    <3> QED BY <1>5, <2>1, <2>2, <3>1 DEF Sound, Alive
  <2>3. CASE l # life
    <3>1. hls'[l] = hls[l] /\ refs'[l] = refs[l] /\ mountedRef'[l] = mountedRef[l] /\ ~mountedRef[l]
      BY <1>1, <1>3, <1>4, <2>1, <2>3 DEF UnmountPlayer, PlayerTypeOK, Sound
    <3> QED BY <2>1, <3>1 DEF Sound, Alive
  <2> QED BY <2>2, <2>3
<1>8. LastIsMounted'
  BY DEF LastIsMounted, UnmountPlayer
<1> QED BY <1>6, <1>7, <1>8 DEF IInv

(* Each event of hls.js writes the instance it comes from, and its life.    *)
LEMMA ParsedKeeps ==
    ASSUME IInv, NEW l \in Life, NEW c \in Copy, ManifestParsed(l, c)
    PROVE  IInv'
<1> DEFINE i == [hls[l][c] EXCEPT !.state = "parsed"]
           r == [refs[l] EXCEPT !.fatal = 0]
<1> USE DEF ManifestParsed
<1>1. PlayerTypeOK /\ Sound(l)
  BY DEF IInv, LivesSound
<1>2. i \in Instance /\ i.state = "parsed" /\ r \in Refs /\ r.hls = refs[l].hls /\ r.restarted = refs[l].restarted
  <2>1. i \in Instance /\ i.state = "parsed"
    BY <1>1, NewInstance
  <2>2. r \in Refs /\ r.hls = refs[l].hls /\ r.restarted = refs[l].restarted
    BY <1>1, NewRefs
  <2> QED BY <2>1, <2>2
<1>3. hls' \in [Life -> [Copy -> Instance]] /\ hls'[l][c] = i /\ (\A d \in Copy \ {c} : hls'[l][d] = hls[l][d])
      /\ \A x \in Life \ {l} : hls'[x] = hls[x]
  BY <1>1, <1>2, SetHls
<1>4. refs' \in [Life -> Refs] /\ refs'[l] = r /\ \A x \in Life \ {l} : refs'[x] = refs[x]
  BY <1>1, <1>2, SetRefs
<1>5. told' \in {"none", "ready", "failed"}
  BY SaysTyped
<1>6. PlayerTypeOK'
  BY <1>1, <1>3, <1>4, <1>5 DEF PlayerTypeOK
<1>7. Sound(l)'
  BY <1>1, <1>2, <1>3, <1>4 DEF Sound, Alive, Copy
<1> QED BY <1>3, <1>4, <1>6, <1>7, LifeStep

LEMMA NetworkKeeps ==
    ASSUME IInv, NEW l \in Life, NEW c \in Copy, NEW fatal \in BOOLEAN, NetworkError(l, c, fatal)
    PROVE  IInv'
<1> DEFINE h == Halted(hls[l][c].state)
           i == [hls[l][c] EXCEPT !.state = h]
           r == [refs[l] EXCEPT !.fatal = refs[l].fatal + 1]
<1>1. PlayerTypeOK /\ Sound(l) /\ Loading(l, c)
  BY DEF IInv, LivesSound, NetworkError
<1>0. h \in {"lost", "stopped"}
  BY DEF Halted
<1> HIDE DEF h
<1>2. i \in Instance /\ i.state \in {"lost", "stopped"}
  <2>1. PICK s : s = h
    OBVIOUS
  <2> QED BY <1>0, <1>1, <2>1, Written
<1>3. /\ hls' \in [Life -> [Copy -> Instance]]
      /\ \A d \in Copy \ {c} : hls'[l][d] = hls[l][d]
      /\ \A x \in Life \ {l} : hls'[x] = hls[x]
      /\ hls'[l][c].state \in {"loading", "lost", "parsed", "stopped"}
  <2>1. CASE fatal
    <3>1. hls' = [hls EXCEPT ![l][c] = i]
      BY <2>1 DEF NetworkError, h
    <3> QED BY <1>1, <1>2, <3>1, SetHls
  <2>2. CASE ~fatal
    BY <1>1, <2>2 DEF NetworkError, PlayerTypeOK, Loading
  <2> QED BY <2>1, <2>2
<1>4. CASE mountedRef[l] /\ InBudget(l)
  <2>1. r \in Refs /\ r.hls = refs[l].hls /\ r.restarted = refs[l].restarted
    BY <1>1, <1>4, NewRefs DEF Refs
  <2>2. refs' \in [Life -> Refs] /\ refs'[l] = r /\ \A x \in Life \ {l} : refs'[x] = refs[x]
    <3>1. refs' = [refs EXCEPT ![l] = r]
      BY <1>4 DEF NetworkError
    <3> QED BY <1>1, <2>1, <3>1, SetRefs
  <2>3. timers[l] \cup {c} \in SUBSET Timer
    BY <1>1 DEF PlayerTypeOK, Timer
  <2>4. timers' \in [Life -> SUBSET Timer] /\ timers'[l] = timers[l] \cup {c}
        /\ \A x \in Life \ {l} : timers'[x] = timers[x]
    BY <1>1, <1>4, <2>3, SetTimers DEF NetworkError
  <2>5. PlayerTypeOK'
    BY <1>1, <1>3, <1>4, <2>2, <2>4 DEF PlayerTypeOK, NetworkError
  <2>6. Sound(l)'
    BY <1>1, <1>3, <2>1, <2>2, <2>4 DEF Sound, Alive, Loading, Copy, NetworkError
  <2> QED BY <1>3, <1>4, <2>2, <2>4, <2>5, <2>6, LifeStep DEF NetworkError
<1>5. CASE ~(mountedRef[l] /\ InBudget(l))
  <2>1. UNCHANGED <<refs, timers, life, shown, mountedRef, pending>> /\ Says(l, "failed")
    BY <1>5 DEF NetworkError
  <2>2. told' \in {"none", "ready", "failed"}
    BY <2>1, SaysTyped
  <2>3. PlayerTypeOK'
    BY <1>1, <1>3, <2>1, <2>2 DEF PlayerTypeOK
  <2>4. Sound(l)'
    BY <1>1, <1>3, <2>1 DEF Sound, Alive, Loading, Copy
  <2> QED BY <1>3, <2>1, <2>3, <2>4, LifeStep
<1> QED BY <1>4, <1>5

LEMMA RecoverKeeps ==
    ASSUME IInv, NEW l \in Life, NEW c \in Copy, RecoverMedia(l, c)
    PROVE  IInv'
<1> DEFINE h == IF hls[l][c].state = "parsed" THEN "parsed" ELSE "lost"
           i == [state |-> h, errors |-> Count(hls[l][c].errors)]
<1> USE DEF RecoverMedia
<1>1. PlayerTypeOK /\ Sound(l) /\ Alive(l, c)
  BY DEF IInv, LivesSound, Loading, Alive
<1>2. i \in Instance /\ i.state \in {"lost", "parsed"}
  <2>1. h \in {"lost", "parsed"}
    OBVIOUS
  <2> HIDE DEF h
  <2> QED BY <1>1, <2>1, NewInstance
<1>3. hls' \in [Life -> [Copy -> Instance]] /\ hls'[l][c] = i /\ (\A d \in Copy \ {c} : hls'[l][d] = hls[l][d])
      /\ \A x \in Life \ {l} : hls'[x] = hls[x]
  <2>1. hls' = [hls EXCEPT ![l][c] = i]
    OBVIOUS
  <2> HIDE DEF RecoverMedia, i
  <2> QED BY <1>1, <1>2, <2>1, SetHls
<1>4. PlayerTypeOK'
  BY <1>1, <1>3 DEF PlayerTypeOK
<1>5. Sound(l)'
  BY <1>1, <1>2, <1>3 DEF Sound, Alive, Copy
<1> QED BY <1>3, <1>4, <1>5, LifeStep

LEMMA RestartStreamKeeps ==
    ASSUME IInv, NEW l \in Life, NEW c \in Copy, RestartStream(l, c)
    PROVE  IInv'
<1> DEFINE i == [state |-> "destroyed", errors |-> Count(hls[l][c].errors)]
           r == [refs[l] EXCEPT !.hls = 0, !.restarted = TRUE]
<1> USE DEF RestartStream
<1>1. PlayerTypeOK /\ Sound(l)
  BY DEF IInv, LivesSound
<1>2. i \in Instance /\ i.state = "destroyed" /\ r \in Refs /\ r.hls = 0 /\ r.restarted
  <2>1. i \in Instance /\ i.state = "destroyed"
    BY <1>1, NewInstance
  <2>2. r \in Refs /\ r.hls = 0 /\ r.restarted
    BY <1>1, NewRefs
  <2> QED BY <2>1, <2>2
<1>3. hls' \in [Life -> [Copy -> Instance]] /\ hls'[l][c] = i /\ (\A d \in Copy \ {c} : hls'[l][d] = hls[l][d])
      /\ \A x \in Life \ {l} : hls'[x] = hls[x]
  <2>1. hls' = [hls EXCEPT ![l][c] = i]
    OBVIOUS
  <2> HIDE DEF RestartStream, i
  <2> QED BY <1>1, <1>2, <2>1, SetHls
<1>4. refs' \in [Life -> Refs] /\ refs'[l] = r /\ \A x \in Life \ {l} : refs'[x] = refs[x]
  BY <1>1, <1>2, SetRefs
<1>5. timers[l] \cup {0} \in SUBSET Timer
  BY <1>1 DEF PlayerTypeOK, Timer
<1>6. timers' \in [Life -> SUBSET Timer] /\ timers'[l] = timers[l] \cup {0}
      /\ \A x \in Life \ {l} : timers'[x] = timers[x]
  BY <1>1, <1>5, SetTimers
<1>7. PlayerTypeOK'
  BY <1>1, <1>3, <1>4, <1>6 DEF PlayerTypeOK
<1>8. Sound(l)'
  BY <1>1, <1>2, <1>3, <1>4, <1>6 DEF Sound, Alive, Loading, Copy
<1> QED BY <1>3, <1>4, <1>6, <1>7, <1>8, LifeStep

LEMMA FailsKeeps ==
    ASSUME IInv, NEW l \in Life, NEW c \in Copy, MediaFails(l, c) \/ OtherError(l, c)
    PROVE  IInv'
<1>1. PlayerTypeOK /\ Sound(l) /\ mountedRef[l]
  BY DEF IInv, LivesSound, MediaFails, OtherError
<1>2. told' = "failed" /\ l = life
  BY <1>1, SaysTyped DEF MediaFails, OtherError
<1>3. UNCHANGED <<life, shown, mountedRef, timers, pending>>
  BY DEF MediaFails, OtherError
<1>5. CASE MediaFails(l, c)
  <2> DEFINE i == [state |-> "stopped", errors |-> Count(hls[l][c].errors)]
  <2>1. i \in Instance /\ i.state = "stopped"
    BY <1>1, NewInstance
  <2>2. hls' \in [Life -> [Copy -> Instance]] /\ hls'[l][c] = i /\ (\A d \in Copy \ {c} : hls'[l][d] = hls[l][d])
        /\ \A x \in Life \ {l} : hls'[x] = hls[x]
    BY <1>1, <1>5, <2>1, SetHls DEF MediaFails
  <2>3. refs' = refs /\ Loading(l, c)
    BY <1>5 DEF MediaFails
  <2>4. PlayerTypeOK'
    BY <1>1, <1>2, <1>3, <2>2, <2>3 DEF PlayerTypeOK
  <2>5. Sound(l)'
    BY <1>1, <1>3, <2>1, <2>2, <2>3 DEF Sound, Alive, Loading, Copy
  <2> QED BY <1>2, <1>3, <2>2, <2>3, <2>4, <2>5, LifeStep
<1>6. CASE OtherError(l, c)
  <2> DEFINE i == [hls[l][c] EXCEPT !.state = "destroyed"]
             r == [refs[l] EXCEPT !.hls = 0]
  <2>1. i \in Instance /\ i.state = "destroyed" /\ r \in Refs /\ r.hls = 0 /\ r.restarted = refs[l].restarted
    <3>1. i \in Instance /\ i.state = "destroyed"
      BY <1>1, NewInstance
    <3>2. r \in Refs /\ r.hls = 0 /\ r.restarted = refs[l].restarted
      BY <1>1, NewRefs
    <3> QED BY <3>1, <3>2
  <2>2. hls' \in [Life -> [Copy -> Instance]] /\ hls'[l][c] = i /\ (\A d \in Copy \ {c} : hls'[l][d] = hls[l][d])
        /\ \A x \in Life \ {l} : hls'[x] = hls[x]
    BY <1>1, <1>6, <2>1, SetHls DEF OtherError
  <2>3. refs' \in [Life -> Refs] /\ refs'[l] = r /\ \A x \in Life \ {l} : refs'[x] = refs[x]
    BY <1>1, <1>6, <2>1, SetRefs DEF OtherError
  <2>4. PlayerTypeOK'
    BY <1>1, <1>2, <1>3, <2>2, <2>3 DEF PlayerTypeOK
  <2>5. Sound(l)'
    BY <1>1, <1>3, <1>6, <2>1, <2>2, <2>3 DEF Sound, Alive, Loading, Copy, OtherError
  <2> QED BY <1>2, <1>3, <2>2, <2>3, <2>4, <2>5, LifeStep
<1> QED BY <1>5, <1>6

LEMMA EventKeeps ==
    ASSUME IInv, NEW l \in Life, NEW c \in Copy, Event(l, c)
    PROVE  IInv'
  BY ParsedKeeps, NetworkKeeps, RecoverKeeps, RestartStreamKeeps, FailsKeeps DEF Event

(* The timers. *)
LEMMA StartLoadKeeps ==
    ASSUME IInv, NEW l \in Life, NEW c \in Copy, StartLoad(l, c)
    PROVE  IInv'
<1> DEFINE h == Started(hls[l][c].state)
           i == [hls[l][c] EXCEPT !.state = h]
<1>1. PlayerTypeOK /\ Sound(l)
  BY DEF IInv, LivesSound
<1>0. h \in {"loading", "lost", "parsed"}
  BY DEF Started
<1>3. timers[l] \ {c} \in SUBSET Timer
  BY <1>1 DEF PlayerTypeOK
<1>4. timers' \in [Life -> SUBSET Timer] /\ timers'[l] = timers[l] \ {c}
      /\ \A x \in Life \ {l} : timers'[x] = timers[x]
  BY <1>1, <1>3, SetTimers DEF StartLoad
<1>5. UNCHANGED <<life, shown, told, mountedRef, refs, pending>>
  BY DEF StartLoad
<1>6. CASE Heard(l) /\ refs[l].hls = c
  <2>0. hls' = [hls EXCEPT ![l][c] = i]
    BY <1>6 DEF StartLoad
  <2> HIDE DEF h
  <2>1. i \in Instance /\ i.state \in {"loading", "lost", "parsed"}
    <3>1. PICK s : s = h
      OBVIOUS
    <3> QED BY <1>0, <1>1, <3>1, Written
  <2>2. hls' \in [Life -> [Copy -> Instance]] /\ hls'[l][c] = i /\ (\A d \in Copy \ {c} : hls'[l][d] = hls[l][d])
        /\ \A x \in Life \ {l} : hls'[x] = hls[x]
    BY <1>1, <2>0, <2>1, SetHls
  <2>3. PlayerTypeOK'
    BY <1>1, <1>4, <1>5, <2>2 DEF PlayerTypeOK
  <2>4. Alive(l, c) /\ Alive(l, c)' /\ mountedRef[l]
    BY <1>1, <1>6, <2>1, <2>2 DEF Sound, Heard, Alive
  <2>5. \A d \in Copy \ {c} : hls'[l][d].state = hls[l][d].state
    BY <2>2
  <2>6. Sound(l)'
    BY <1>1, <1>4, <1>5, <2>4, <2>5 DEF Sound, Alive, Copy
  <2> QED BY <1>4, <1>5, <2>2, <2>3, <2>6, LifeStep
<1>7. CASE ~(Heard(l) /\ refs[l].hls = c)
  <2>1. hls' = hls
    BY <1>7 DEF StartLoad
  <2>2. PlayerTypeOK'
    BY <1>1, <1>4, <1>5, <2>1 DEF PlayerTypeOK
  <2>3. Sound(l)'
    BY <1>1, <1>4, <1>5, <2>1 DEF Sound, Alive, Copy
  <2> QED BY <1>4, <1>5, <2>1, <2>2, <2>3, LifeStep
<1> QED BY <1>6, <1>7

LEMMA RestartInv ==
    ASSUME IInv, NEW l \in Life, Restart(l)
    PROVE  IInv'
<1> DEFINE i == [state |-> "loading", errors |-> 0]
           r == [refs[l] EXCEPT !.hls = 2, !.fatal = 0]
<1>1. PlayerTypeOK /\ Sound(l) /\ 2 \in Copy
  BY DEF IInv, LivesSound, Copy
<1>2. i \in Instance /\ r \in Refs /\ r.hls = 2 /\ r.restarted = refs[l].restarted
  BY <1>1, NewInstance, NewRefs DEF Refs
<1>3. timers[l] \ {0} \in SUBSET Timer
  BY <1>1 DEF PlayerTypeOK
<1>4. timers' \in [Life -> SUBSET Timer] /\ timers'[l] = timers[l] \ {0}
      /\ \A x \in Life \ {l} : timers'[x] = timers[x]
  BY <1>1, <1>3, SetTimers DEF Restart
<1>5. UNCHANGED <<life, shown, told, mountedRef, pending>> /\ 0 \in timers[l]
  BY DEF Restart
<1>6. CASE Heard(l) /\ refs[l].hls = 0
  <2>1. hls' \in [Life -> [Copy -> Instance]] /\ hls'[l][2] = i /\ (\A d \in Copy \ {2} : hls'[l][d] = hls[l][d])
        /\ \A x \in Life \ {l} : hls'[x] = hls[x]
    BY <1>1, <1>2, <1>6, SetHls DEF Restart, MakeHls
  <2>2. refs' \in [Life -> Refs] /\ refs'[l] = r /\ \A x \in Life \ {l} : refs'[x] = refs[x]
    BY <1>1, <1>2, <1>6, SetRefs DEF Restart, MakeHls
  <2>3. PlayerTypeOK'
    BY <1>1, <1>4, <1>5, <2>1, <2>2 DEF PlayerTypeOK
  <2>4. hls[l][1].state = "destroyed"
    <3>1. hls[l][1] \in Instance /\ ~Alive(l, 1) /\ hls[l][1].state # "none"
      BY <1>1, <1>6 DEF Sound, Heard, Copy, PlayerTypeOK
    <3> QED BY <3>1 DEF Instance, Alive
  <2>5. Sound(l)'
    BY <1>1, <1>2, <1>4, <1>5, <1>6, <2>1, <2>2, <2>4 DEF Sound, Alive, Copy, Heard
  <2> QED BY <1>4, <1>5, <2>1, <2>2, <2>3, <2>5, LifeStep
<1>7. CASE ~(Heard(l) /\ refs[l].hls = 0)
  <2>1. hls' = hls /\ refs' = refs
    BY <1>7 DEF Restart
  <2>2. PlayerTypeOK'
    BY <1>1, <1>4, <1>5, <2>1 DEF PlayerTypeOK
  <2>3. Sound(l)'
    BY <1>1, <1>4, <1>5, <2>1 DEF Sound, Alive, Copy
  <2> QED BY <1>4, <1>5, <2>1, <2>2, <2>3, LifeStep
<1> QED BY <1>6, <1>7

(* The <video> element only tells the page. *)
LEMMA VideoKeeps ==
    ASSUME IInv, NEW l \in Life, PlaySettles(l) \/ VideoError(l) \/ LoadedMetadata(l)
    PROVE  IInv'
<1>1. PlayerTypeOK
  BY DEF IInv
<1>2. UNCHANGED <<life, shown, mountedRef, refs, hls, timers>>
  BY DEF PlaySettles, VideoError, LoadedMetadata
<1>3. told' \in {"none", "ready", "failed"}
  BY <1>1, SaysTyped DEF PlaySettles, VideoError, LoadedMetadata, PlayerTypeOK
<1>4. pending' \in [Life -> BOOLEAN]
  BY <1>1 DEF PlaySettles, VideoError, LoadedMetadata, PlayerTypeOK
<1>5. PlayerTypeOK'
  BY <1>1, <1>2, <1>3, <1>4 DEF PlayerTypeOK
<1> QED BY <1>2, <1>5 DEF IInv, LastIsMounted, LivesSound, Sound, Alive

LEMMA AskKeeps == IInv /\ AskToPlay => IInv'
<1> SUFFICES ASSUME IInv, AskToPlay PROVE IInv'
  OBVIOUS
<1>1. UNCHANGED <<life, shown, told, mountedRef, refs, hls, timers>> /\ pending' \in [Life -> BOOLEAN]
  BY DEF AskToPlay, IInv, PlayerTypeOK
<1> QED BY <1>1 DEF IInv, PlayerTypeOK, LastIsMounted, LivesSound, Sound, Alive

LEMMA NextInv == IInv /\ [PlayerNext]_playerVars => IInv'
<1> SUFFICES ASSUME IInv, [PlayerNext]_playerVars PROVE IInv'
  OBVIOUS
<1>1. CASE UNCHANGED playerVars
  BY <1>1 DEF playerVars, IInv, PlayerTypeOK, LastIsMounted, LivesSound, Sound, Alive
<1> QED BY <1>1, MountKeeps, UnmountKeeps, AskKeeps, EventKeeps, StartLoadKeeps, RestartInv, VideoKeeps
        DEF PlayerNext

THEOREM Inductive == PlayerSpec => []IInv
  BY InitInv, NextInv, PTL DEF PlayerSpec

(* Type correctness; the retries stay in their budget. *)
THEOREM PlayerTypeCorrect == PlayerSpec => []PlayerTypeOK
<1>1. IInv => PlayerTypeOK
  BY DEF IInv
<1> QED BY <1>1, Inductive, PTL

(* Whatever the errors, the timers and the remounts, a mounted player has   *)
(* one live hls.js instance at most: makeHls and the restart.               *)
THEOREM OneStreamAlways == PlayerSpec => []OneStream
<1>1. IInv => OneStream
  BY DEF IInv, OneStream, LastIsMounted, LivesSound, Sound, Alive, Copy
<1> QED BY <1>1, Inductive, PTL

(* A step of another life leaves what the mounted player loads and waits for. *)
LEMMA OthersStep ==
    ASSUME IInv, shown, Loads \/ Waits, UNCHANGED life,
           hls'[life] = hls[life], refs'[life] = refs[life], timers'[life] = timers[life]
    PROVE  Loads' \/ Waits'
  BY DEF Loads, Waits, Loading

(* What an event of the mounted player leaves to wake it up. *)
LEMMA EventGoesOn ==
    ASSUME IInv, shown, NEW c \in Copy, Event(life, c)
    PROVE  Loads' \/ Waits' \/ ManifestLost' \/ told' = "failed"
<1>1. /\ PlayerTypeOK /\ life \in Life /\ mountedRef[life] /\ Sound(life) /\ life' = life
      /\ c # 0 /\ 0 \notin Copy
  <2>1. PlayerTypeOK /\ life \in Life /\ mountedRef[life]
    BY DEF IInv, LastIsMounted
  <2>2. Sound(life)
    BY <2>1 DEF IInv, LivesSound
  <2>3. life' = life
    BY DEF Event, ManifestParsed, NetworkError, RecoverMedia, RestartStream, MediaFails, OtherError
  <2> QED BY <2>1, <2>2, <2>3 DEF Copy
<1>2. Loading(life, c) /\ refs[life].hls = c
  <2>1. Loading(life, c)
    BY DEF Event, ManifestParsed, NetworkError, RecoverMedia, RestartStream, MediaFails, OtherError, Loading
  <2> QED BY <1>1, <2>1 DEF Sound, Alive, Loading
<1>3. CASE ManifestParsed(life, c)
  <2>1. hls' = [hls EXCEPT ![life][c] = [hls[life][c] EXCEPT !.state = "parsed"]]
    BY <1>3 DEF ManifestParsed
  <2>2. hls'[life][c].state = "parsed"
    <3>1. PICK i : i = [hls[life][c] EXCEPT !.state = "parsed"]
      OBVIOUS
    <3>2. i \in Instance /\ i.state = "parsed"
      BY <1>1, <3>1, Written
    <3> QED BY <1>1, <2>1, <3>1, <3>2, SetHls
  <2> QED BY <1>1, <2>2 DEF Loads, Loading
<1>4. ASSUME NEW fatal \in BOOLEAN, NetworkError(life, c, fatal)
      PROVE  Loads' \/ Waits' \/ ManifestLost' \/ told' = "failed"
  <2>1. CASE ~fatal
    <3>1. hls' = hls
      BY <1>4, <2>1 DEF NetworkError
    <3> QED BY <1>1, <1>2, <3>1 DEF Loads, Loading
  <2>2. CASE InBudget(life)
    <3> DEFINE r == [refs[life] EXCEPT !.fatal = refs[life].fatal + 1]
    <3>1. refs' = [refs EXCEPT ![life] = r] /\ timers' = [timers EXCEPT ![life] = timers[life] \cup {c}]
      BY <1>1, <1>4, <2>2 DEF NetworkError
    <3>2. r \in Refs /\ r.hls = c
      BY <1>1, <1>2, <2>2, NewRefs
    <3> HIDE DEF r
    <3>3. refs'[life].hls = c
      BY <1>1, <3>1, <3>2, SetRefs
    <3>4. c \in timers'[life]
      BY <1>1, <3>1 DEF PlayerTypeOK
    <3> QED BY <1>1, <3>3, <3>4 DEF Waits
  <2>3. CASE ~InBudget(life)
    <3>1. told' = "failed"
      BY <1>1, <1>4, <2>3, SaysTyped DEF NetworkError
    <3> QED BY <3>1
  <2> QED BY <2>2, <2>3
<1>5. CASE RecoverMedia(life, c)
  <2> DEFINE h == IF hls[life][c].state = "parsed" THEN "parsed" ELSE "lost"
             i == [state |-> h, errors |-> Count(hls[life][c].errors)]
  <2>1. hls' = [hls EXCEPT ![life][c] = i] /\ refs' = refs
    BY <1>5 DEF RecoverMedia
  <2>2. h \in {"lost", "parsed"}
    OBVIOUS
  <2> HIDE DEF h
  <2>3. hls'[life][c].state \in {"lost", "parsed"}
    <3>1. PICK s, j : s = h /\ j = i
      OBVIOUS
    <3>2. j \in Instance /\ j.state = s
      BY <1>1, <2>2, <3>1, Written
    <3> QED BY <1>1, <2>1, <2>2, <3>1, <3>2, SetHls
  <2> QED BY <1>1, <1>2, <2>1, <2>3 DEF Loads, Loading, ManifestLost
<1>6. CASE RestartStream(life, c)
  <2> DEFINE r == [refs[life] EXCEPT !.hls = 0, !.restarted = TRUE]
  <2>1. refs' = [refs EXCEPT ![life] = r] /\ timers' = [timers EXCEPT ![life] = timers[life] \cup {0}]
    BY <1>6 DEF RestartStream
  <2>2. r \in Refs /\ r.hls = 0
    BY <1>1, NewRefs
  <2> HIDE DEF r
  <2>3. refs'[life].hls = 0
    BY <1>1, <2>1, <2>2, SetRefs
  <2>4. 0 \in timers'[life]
    BY <1>1, <2>1 DEF PlayerTypeOK
  <2> QED BY <1>1, <2>3, <2>4 DEF Waits
<1>7. CASE MediaFails(life, c) \/ OtherError(life, c)
  BY <1>1, <1>7, SaysTyped DEF MediaFails, OtherError
<1> QED BY <1>3, <1>4, <1>5, <1>6, <1>7 DEF Event

(* What its timers leave. *)
LEMMA TimersGoOn ==
    ASSUME IInv, shown, Loads \/ Waits, Restart(life) \/ \E c \in Copy : StartLoad(life, c)
    PROVE  Loads' \/ Waits' \/ ManifestLost'
<1>1. /\ PlayerTypeOK /\ life \in Life /\ Sound(life) /\ life' = life
      /\ 0 \notin Copy /\ 2 \in Copy /\ Heard(life)
  <2>1. PlayerTypeOK /\ life \in Life /\ Heard(life)
    BY DEF IInv, LastIsMounted, Heard
  <2>2. Sound(life)
    BY <2>1 DEF IInv, LivesSound
  <2>3. life' = life
    BY DEF Restart, StartLoad
  <2> QED BY <2>1, <2>2, <2>3 DEF Copy
<1>2. CASE Restart(life)
  <2>1. timers' = [timers EXCEPT ![life] = timers[life] \ {0}]
    BY <1>2 DEF Restart
  <2>2. timers'[life] = timers[life] \ {0}
    BY <1>1, <2>1 DEF PlayerTypeOK
  <2>3. CASE refs[life].hls = 0
    <3>1. hls' = [hls EXCEPT ![life][2] = [state |-> "loading", errors |-> 0]]
      BY <1>1, <1>2, <2>3 DEF Restart, MakeHls
    <3>2. hls'[life][2].state = "loading"
      <4>1. PICK i : i = [state |-> "loading", errors |-> 0]
        OBVIOUS
      <4>2. i \in Instance /\ i.state = "loading"
        BY <1>1, <4>1, NewInstance
      <4> QED BY <1>1, <3>1, <4>1, <4>2, SetHls
    <3> QED BY <1>1, <3>2 DEF Loads, Loading
  <2>4. CASE refs[life].hls # 0
    <3>1. hls' = hls /\ refs' = refs
      BY <1>2, <2>4 DEF Restart
    <3> QED BY <1>1, <2>2, <2>4, <3>1 DEF Loads, Waits, Loading
  <2> QED BY <2>3, <2>4
<1>3. ASSUME NEW c \in Copy, StartLoad(life, c) PROVE Loads' \/ Waits' \/ ManifestLost'
  <2>1. timers' = [timers EXCEPT ![life] = timers[life] \ {c}] /\ refs' = refs
    BY <1>3 DEF StartLoad
  <2>2. timers'[life] = timers[life] \ {c}
    BY <1>1, <2>1 DEF PlayerTypeOK
  <2>3. CASE refs[life].hls = c
    <3> DEFINE h == Started(hls[life][c].state)
               i == [hls[life][c] EXCEPT !.state = h]
    <3>1. hls' = [hls EXCEPT ![life][c] = i]
      BY <1>1, <1>3, <2>3 DEF StartLoad
    <3>2. h \in {"loading", "lost", "parsed"}
      BY DEF Started
    <3> HIDE DEF h
    <3>3. hls'[life][c].state \in {"loading", "lost", "parsed"}
      <4>1. PICK s, j : s = h /\ j = i
        OBVIOUS
      <4>2. j \in Instance /\ j.state = s
        BY <1>1, <3>2, <4>1, Written
      <4> QED BY <1>1, <3>1, <3>2, <4>1, <4>2, SetHls
    <3> QED BY <1>1, <2>1, <2>3, <3>3 DEF Loads, Loading, ManifestLost
  <2>4. CASE refs[life].hls # c
    <3>1. hls' = hls
      BY <1>3, <2>4 DEF StartLoad
    <3> QED BY <1>1, <2>1, <2>2, <2>4, <3>1 DEF Loads, Waits, Loading
  <2> QED BY <2>3, <2>4
<1> QED BY <1>2, <1>3

(* A parsed stream that loads, or is about to, goes on doing so unless the   *)
(* page is told in that very step: the ladder of the ERROR handler, the      *)
(* backoffs and the restart leave no gap.                                    *)
THEOREM NeverStuckEver == PlayerSpec => NeverStuck
<1> DEFINE GoesOn == shown /\ shown' /\ (Loads \/ Waits) =>
                         Loads' \/ Waits' \/ ManifestLost' \/ told' = "failed"
<1>1. ASSUME IInv, PlayerNext PROVE GoesOn
  <2> SUFFICES ASSUME shown, shown', Loads \/ Waits
               PROVE  Loads' \/ Waits' \/ ManifestLost' \/ told' = "failed"
    OBVIOUS
  <2>0. IInv /\ PlayerTypeOK /\ life \in Life
    BY <1>1 DEF IInv, LastIsMounted
  <2>1. CASE MountPlayer \/ UnmountPlayer
    BY <2>1 DEF MountPlayer, UnmountPlayer
  <2>2. CASE AskToPlay \/ \E l \in Life : PlaySettles(l) \/ VideoError(l) \/ LoadedMetadata(l)
    <3>1. UNCHANGED <<life, refs, hls, timers>>
      BY <2>2 DEF AskToPlay, PlaySettles, VideoError, LoadedMetadata
    <3> QED BY <2>0, <3>1, OthersStep
  <2>3. ASSUME NEW l \in Life, NEW c \in Copy, Event(l, c)
        PROVE  Loads' \/ Waits' \/ ManifestLost' \/ told' = "failed"
    <3>1. CASE l = life
      BY <2>0, <2>3, <3>1, EventGoesOn
    <3>2. CASE l # life
      <4>1. /\ life' = life /\ hls'[life] = hls[life]
            /\ refs'[life] = refs[life] /\ timers'[life] = timers[life]
        BY <2>0, <2>3, <3>2 DEF Event, ManifestParsed, NetworkError, RecoverMedia, RestartStream, MediaFails,
           OtherError, PlayerTypeOK
      <4> QED BY <2>0, <4>1, OthersStep
    <3> QED BY <3>1, <3>2
  <2>4. ASSUME NEW l \in Life, Restart(l) \/ \E c \in Copy : StartLoad(l, c)
        PROVE  Loads' \/ Waits' \/ ManifestLost'
    <3>1. CASE l = life
      BY <2>0, <2>4, <3>1, TimersGoOn
    <3>2. CASE l # life
      <4>1. /\ life' = life /\ hls'[life] = hls[life]
            /\ refs'[life] = refs[life] /\ timers'[life] = timers[life]
        BY <2>0, <2>4, <3>2 DEF Restart, MakeHls, StartLoad, PlayerTypeOK
      <4> QED BY <2>0, <4>1, OthersStep
    <3> QED BY <3>1, <3>2
  <2> QED BY <1>1, <2>1, <2>2, <2>3, <2>4 DEF PlayerNext
<1>2. IInv /\ [PlayerNext]_playerVars => [GoesOn]_playerVars
  BY <1>1
<1> QED BY <1>2, Inductive, PTL DEF PlayerSpec, NeverStuck

(* An event writes an instance that loads; a timer writes the live instance  *)
(* of the player that is heard, or one that was not there.                   *)
LEMMA Writes ==
    ASSUME IInv, PlayerNext, ~UnmountPlayer, NEW x \in Life, NEW d \in Copy
    PROVE  \/ hls'[x][d] = hls[x][d]
           \/ hls[x][d].state \in {"none", "loading", "parsed"}
           \/ mountedRef[x] /\ Alive(x, d)
<1> USE DEF IInv
<1>1. \A l \in Life, c \in Copy : \A i : hls' = [hls EXCEPT ![l][c] = i] => (x = l /\ d = c) \/ hls'[x][d] = hls[x][d]
  BY DEF PlayerTypeOK
<1>2. CASE MountPlayer
  <2>1. life + 1 \in Life /\ life + 1 > life /\ 1 \in Copy
    BY <1>2, PlayerAssumption DEF MountPlayer, PlayerTypeOK, Life, Copy
  <2>2. hls[life + 1][1].state = "none"
    BY <2>1 DEF LivesSound, Sound
  <2> QED BY <1>1, <1>2, <2>1, <2>2 DEF MountPlayer, MakeHls
<1>3. CASE AskToPlay \/ \E l \in Life : PlaySettles(l) \/ VideoError(l) \/ LoadedMetadata(l)
  BY <1>3 DEF AskToPlay, PlaySettles, VideoError, LoadedMetadata
<1>4. ASSUME NEW l \in Life, NEW c \in Copy, Event(l, c)
      PROVE  hls'[x][d] = hls[x][d] \/ hls[x][d].state \in {"loading", "parsed"}
  <2>1. Loading(l, c)
    BY <1>4 DEF Event, ManifestParsed, NetworkError, RecoverMedia, RestartStream, MediaFails, OtherError, Loading
  <2>2. hls' = hls \/ \E i : hls' = [hls EXCEPT ![l][c] = i]
    <3>1. CASE ManifestParsed(l, c)
      BY <3>1 DEF ManifestParsed
    <3>2. ASSUME NEW fatal \in BOOLEAN, NetworkError(l, c, fatal)
          PROVE  hls' = hls \/ \E i : hls' = [hls EXCEPT ![l][c] = i]
      BY <3>2 DEF NetworkError
    <3>3. CASE RecoverMedia(l, c)
      BY <3>3 DEF RecoverMedia
    <3>4. CASE RestartStream(l, c)
      BY <3>4 DEF RestartStream
    <3>5. CASE MediaFails(l, c)
      BY <3>5 DEF MediaFails
    <3>6. CASE OtherError(l, c)
      BY <3>6 DEF OtherError
    <3> QED BY <1>4, <3>1, <3>2, <3>3, <3>4, <3>5, <3>6 DEF Event
  <2> QED BY <1>1, <2>1, <2>2 DEF Loading
<1>5. ASSUME NEW l \in Life, NEW c \in Copy, StartLoad(l, c)
      PROVE  hls'[x][d] = hls[x][d] \/ (mountedRef[x] /\ Alive(x, d))
  <2>1. CASE Heard(l) /\ refs[l].hls = c
    <3>1. Sound(l)
      BY DEF LivesSound
    <3>2. mountedRef[l] /\ Alive(l, c)
      BY <2>1, <3>1 DEF Heard, Sound
    <3>3. PICK i : hls' = [hls EXCEPT ![l][c] = i]
      BY <1>5, <2>1 DEF StartLoad
    <3> QED BY <1>1, <3>2, <3>3
  <2>2. CASE ~(Heard(l) /\ refs[l].hls = c)
    BY <1>5, <2>2 DEF StartLoad
  <2> QED BY <2>1, <2>2
<1>6. ASSUME NEW l \in Life, Restart(l)
      PROVE  hls'[x][d] = hls[x][d] \/ hls[x][d].state = "none"
  <2>1. hls[l][2].state = "none" /\ 2 \in Copy
    BY <1>6 DEF Restart, LivesSound, Sound, Copy
  <2> QED BY <1>1, <1>6, <2>1 DEF Restart, MakeHls
<1> QED BY <1>2, <1>3, <1>4, <1>5, <1>6 DEF PlayerNext

(* No timer or event wakes up an instance that was destroyed, nor one at     *)
(* rest in a player that is gone: the guards of the timers are enough.       *)
THEOREM NoZombieEver == PlayerSpec => NoZombie
<1> DEFINE Rests ==
        \A l \in Life, c \in Copy :
            hls[l][c].state = "destroyed" \/ (hls[l][c].state = "stopped" /\ ~mountedRef[l]) =>
                hls'[l][c].state = hls[l][c].state
<1>1. ASSUME IInv, PlayerNext PROVE Rests
  <2> SUFFICES ASSUME NEW x \in Life, NEW d \in Copy,
                      hls[x][d].state = "destroyed" \/ (hls[x][d].state = "stopped" /\ ~mountedRef[x])
               PROVE  hls'[x][d].state = hls[x][d].state
    OBVIOUS
  <2>1. CASE UnmountPlayer
    <3>0. PICK i : i = [hls[life][1] EXCEPT !.state = "destroyed"]
      OBVIOUS
    <3>1. life \in Life /\ mountedRef[life] /\ 1 \in Copy /\ PlayerTypeOK
      BY <1>1, <2>1 DEF IInv, LastIsMounted, UnmountPlayer, Copy
    <3>2. hls' = [hls EXCEPT ![life][1] = i] /\ i \in Instance /\ i.state = "destroyed"
      BY <2>1, <3>0, <3>1, Written DEF UnmountPlayer
    <3>3. /\ hls'[life][1] = i
          /\ \A e \in Copy \ {1} : hls'[life][e] = hls[life][e]
          /\ \A y \in Life \ {life} : hls'[y] = hls[y]
      BY <3>1, <3>2, SetHls
    <3>4. CASE x # life
      BY <3>3, <3>4
    <3>5. CASE x = life /\ d # 1
      BY <3>3, <3>5
    <3>6. CASE x = life /\ d = 1
      BY <3>1, <3>2, <3>3, <3>6
    <3> QED BY <3>4, <3>5, <3>6
  <2>2. CASE ~UnmountPlayer
    BY <1>1, <2>2, Writes DEF Alive
  <2> QED BY <2>1, <2>2
<1>2. IInv /\ [PlayerNext]_playerVars => [Rests]_playerVars
  BY <1>1
<1> QED BY <1>2, Inductive, PTL DEF PlayerSpec, NoZombie

(* The player keeps what it promises to the page: every step is a mount, an *)
(* unmount, a message of the mounted player, or nothing the page sees.      *)
THEOREM KeepsPromiseAlways == PlayerSpec => KeepsPromise
<1>1. PlayerInit => Promise!PromiseInit
  BY DEF PlayerInit, Promise!PromiseInit
<1>2. ASSUME IInv, [PlayerNext]_playerVars PROVE [Promise!PromiseNext]_(Promise!promiseVars)
  <2> USE <1>2 DEF Promise!PromiseNext, Promise!promiseVars, Promise!Mount, Promise!Unmount, Promise!Tell
  <2>1. CASE MountPlayer \/ UnmountPlayer
    BY <2>1 DEF MountPlayer, UnmountPlayer
  <2>2. CASE UNCHANGED playerVars \/ AskToPlay
    BY <2>2 DEF playerVars, AskToPlay
  <2>3. ASSUME NEW l \in Life, NEW r \in {"ready", "failed"}, Says(l, r), UNCHANGED shown
        PROVE  [Promise!PromiseNext]_(Promise!promiseVars)
    BY <2>3, SaysTyped
  <2>4. ASSUME NEW l \in Life, NEW c \in Copy, Event(l, c) \/ StartLoad(l, c)
        PROVE  [Promise!PromiseNext]_(Promise!promiseVars)
    BY <2>4, <2>3 DEF Event, ManifestParsed, NetworkError, RecoverMedia, RestartStream, MediaFails,
       OtherError, StartLoad
  <2>5. ASSUME NEW l \in Life, Restart(l) \/ PlaySettles(l) \/ VideoError(l) \/ LoadedMetadata(l)
        PROVE  [Promise!PromiseNext]_(Promise!promiseVars)
    BY <2>5, <2>3 DEF Restart, PlaySettles, VideoError, LoadedMetadata
  <2> QED BY <2>1, <2>2, <2>4, <2>5 DEF PlayerNext
<1> QED BY <1>1, <1>2, Inductive, PTL DEF PlayerSpec, KeepsPromise, Promise!PromiseSpec
=============================================================================
