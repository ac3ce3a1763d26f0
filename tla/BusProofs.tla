----------------------------- MODULE BusProofs -----------------------------
(***************************************************************************)
(* What listens to the bus and commands it, for every set of entrypoints,  *)
(* callers and frames and every length of the windows and deadlines: the   *)
(* mapper, the observers, the control connection and the ring holder.      *)
(***************************************************************************)
EXTENDS Mapper, BusObservers, BusControl, RingHolder, SequenceTheorems, TLAPS

-----------------------------------------------------------------------------
(* The mapper *)

\* Where the mapper is within a burst of stop frames: how long ago the last of
\* them was, and that the stale stop window of a ring announced inside the
\* burst lasts as long as the burst.
BurstCovered ==
    /\ shown => doorRings /\ activeEntrypoint # None
    /\ shown => ignoreStops >= burst
    /\ burst <= IF doorRings THEN BurstTail ELSE BurstGap
    /\ burst > 0 => lastStop + burst <=
                        IF doorRings THEN BurstGap + BurstTail - 1 ELSE BurstGap

MapperInv == MapperType /\ BurstCovered

\* A ring frame is given to a configured entrypoint, or to none.
LEMMA ResolveEntrypointType ==
    ASSUME NEW f PROVE ResolveEntrypoint(f) \in Entrypoints \cup {None}
BY MapperAssumption DEF ResolveEntrypoint

\* The mapper starts with no frame seen and no ring.
LEMMA MapperInitInv == MapperInit => MapperInv
<1> SUFFICES ASSUME MapperInit PROVE MapperInv  OBVIOUS
<1>1. recentFrames \in [MapperFrames -> 0 .. DuplicateWindow + 1]
  BY MapperAssumption DEF MapperInit
<1>2. /\ activeEntrypoint = None /\ lastStop \in 0 .. StopBurstBeforeRing + 1
      /\ ignoreStops = 0 /\ burst = 0 /\ event = None
      /\ doorRings = FALSE /\ shown = FALSE
  BY MapperAssumption DEF MapperInit
<1>3. /\ 0 \in 0 .. StaleStopWindow /\ 0 \in 0 .. BurstGap + BurstTail
      /\ 0 <= BurstGap
  BY MapperAssumption
<1>4. MapperType  BY <1>1, <1>2, <1>3 DEF MapperType
<1>5. BurstCovered  BY <1>2, <1>3 DEF BurstCovered
<1> QED  BY <1>4, <1>5 DEF MapperInv

\* Every frame the bus delivers, and every tick, keeps the mapper well typed.
LEMMA MapperTypeStep == MapperType /\ [MapperNext]_mapperVars => MapperType'
<1> SUFFICES ASSUME MapperType, [MapperNext]_mapperVars PROVE MapperType'
  OBVIOUS
<1> USE MapperAssumption
<1>1. ASSUME NEW f \in RingFrames, DoorRings(f) PROVE MapperType'
  <2>1. recentFrames' \in [MapperFrames -> 0 .. DuplicateWindow + 1]
    BY <1>1 DEF MapperType, DoorRings, MapRing, MapperFrames
  <2>2. /\ activeEntrypoint' \in Entrypoints \cup {None}
        /\ ignoreStops' \in 0 .. StaleStopWindow
        /\ lastStop' \in 0 .. StopBurstBeforeRing + 1
    BY <1>1, ResolveEntrypointType DEF MapperType, DoorRings, MapRing
  <2>3. event' \in {None} \cup {RingStarted(ep) : ep \in Entrypoints}
    BY <1>1, ResolveEntrypointType DEF DoorRings, MapRing
  <2>4. doorRings' \in BOOLEAN /\ burst' \in 0 .. BurstGap + BurstTail
    BY <1>1 DEF MapperType, DoorRings
  <2>5. shown' \in BOOLEAN
    BY <1>1 DEF DoorRings
  <2> QED  BY <2>1, <2>2, <2>3, <2>4, <2>5 DEF MapperType
<1>2. ASSUME NEW f \in StopFrames, MapStop(f),
             doorRings' \in BOOLEAN, shown' \in BOOLEAN,
             burst' \in 0 .. BurstGap + BurstTail
      PROVE  MapperType'
  <2>1. recentFrames' \in [MapperFrames -> 0 .. DuplicateWindow + 1]
    BY <1>2 DEF MapperType, MapStop, MapperFrames
  <2>2. /\ activeEntrypoint' \in Entrypoints \cup {None}
        /\ ignoreStops' \in 0 .. StaleStopWindow
        /\ lastStop' \in 0 .. StopBurstBeforeRing + 1
    BY <1>2 DEF MapperType, MapStop
  <2>3. event' \in {None} \cup {RingCleared(ep) : ep \in Entrypoints}
    BY <1>2 DEF MapStop, MapperType
  <2> QED  BY <1>2, <2>1, <2>2, <2>3 DEF MapperType
<1>3. ASSUME NEW f \in StopFrames, StreamEnds(f) \/ MoreStops(f) PROVE MapperType'
  <2>1. burst' \in 0 .. BurstGap + BurstTail
    BY <1>3 DEF StreamEnds, MoreStops, MapperType
  <2>2. MapStop(f) /\ doorRings' \in BOOLEAN /\ shown' \in BOOLEAN
    BY <1>3, Zenon DEF StreamEnds, MoreStops, MapperType
  <2> QED  BY <1>2, <2>1, <2>2
<1>4. ASSUME NEW f \in SettingFrames, SettingChanges(f) PROVE MapperType'
  <2>1. recentFrames' \in [MapperFrames -> 0 .. DuplicateWindow + 1]
    BY <1>4 DEF MapperType, SettingChanges, MapSetting, MapperFrames
  <2>2. event' \in {None} \cup SettingFrames
    BY <1>4, Zenon DEF SettingChanges, MapSetting
  <2> QED  BY <1>4, <2>1, <2>2 DEF MapperType, SettingChanges, MapSetting
<1>5. ASSUME Tick PROVE MapperType'
  <2>1. recentFrames' \in [MapperFrames -> 0 .. DuplicateWindow + 1]
    BY <1>5 DEF MapperType, Tick, Older
  <2>2. /\ lastStop' \in 0 .. StopBurstBeforeRing + 1
        /\ ignoreStops' \in 0 .. StaleStopWindow
        /\ burst' \in 0 .. BurstGap + BurstTail
    BY <1>5 DEF MapperType, Tick, Older, Down
  <2> QED  BY <1>5, <2>1, <2>2 DEF MapperType, Tick
<1>6. ASSUME UNCHANGED mapperVars PROVE MapperType'
  BY <1>6 DEF MapperType, mapperVars
<1> QED  BY <1>1, <1>3, <1>4, <1>5, <1>6 DEF MapperNext

\* The burst stays covered: an announcement inside it opens a window as long as
\* what is left of it, a stop frame that follows dates it again.
LEMMA BurstStep == MapperInv /\ [MapperNext]_mapperVars => BurstCovered'
<1> SUFFICES ASSUME MapperInv, [MapperNext]_mapperVars PROVE BurstCovered'
  OBVIOUS
<1> USE MapperAssumption DEF MapperInv
<1>0. /\ burst \in Nat /\ lastStop \in Nat /\ ignoreStops \in Nat
      /\ BurstGap \in Nat \ {0} /\ BurstTail \in Nat \ {0}
      /\ StopBurstBeforeRing \in Nat \ {0} /\ StaleStopWindow \in Nat \ {0}
  BY DEF MapperType
<1>1. ASSUME NEW f \in RingFrames, DoorRings(f) PROVE BurstCovered'
  <2> DEFINE announced ==
        ~Duplicate(f) /\ activeEntrypoint = None /\ ResolveEntrypoint(f) # None
  <2>1. CASE announced
    <3>1. activeEntrypoint' # None /\ doorRings' = TRUE /\ lastStop' = lastStop
      BY <1>1, <2>1 DEF DoorRings, MapRing
    <3>2. burst > 0 => ignoreStops' = StaleStopWindow
      BY <1>0, <1>1, <2>1 DEF DoorRings, MapRing, BurstCovered
    <3>3. burst' <= BurstTail /\ (burst = 0 => burst' = 0) /\ burst' \in Nat
      BY <1>0, <1>1 DEF DoorRings, BurstCovered
    <3>4. ignoreStops' >= burst'
      BY <1>0, <1>1, <2>1, <3>2, <3>3 DEF DoorRings, MapRing
    <3>5. burst' > 0 => lastStop' + burst' <= BurstGap + BurstTail - 1
      BY <1>0, <1>1, <3>1 DEF DoorRings, BurstCovered
    <3> QED  BY <1>0, <3>1, <3>3, <3>4, <3>5 DEF BurstCovered
  <2>2. CASE ~announced
    <3>1. /\ UNCHANGED <<activeEntrypoint, ignoreStops, lastStop>>
          /\ event' = None /\ doorRings' = TRUE
      BY <1>1, <2>2 DEF DoorRings, MapRing
    <3>2. shown' => shown /\ doorRings
      BY <1>1, <3>1 DEF DoorRings
    <3>3. /\ burst' \in Nat /\ burst' <= BurstTail
          /\ burst' > 0 => lastStop' + burst' <= BurstGap + BurstTail - 1
          /\ doorRings => burst' = burst
      BY <1>0, <1>1, <3>1 DEF DoorRings, BurstCovered
    <3> QED  BY <1>0, <3>1, <3>2, <3>3 DEF BurstCovered
  <2> QED  BY <2>1, <2>2
<1>2. ASSUME NEW f \in StopFrames, StreamEnds(f) PROVE BurstCovered'
  BY <1>0, <1>2 DEF StreamEnds, MapStop, BurstCovered, DatesBurst
<1>3. ASSUME NEW f \in StopFrames, MoreStops(f) PROVE BurstCovered'
  <2>1. shown => ignoreStops > 0
    BY <1>0, <1>3 DEF MoreStops, BurstCovered
  <2>2. shown' => activeEntrypoint' # None /\ ignoreStops' >= burst'
    BY <1>0, <1>3, <2>1 DEF MoreStops, MapStop, BurstCovered
  <2>3. lastStop' = 0 /\ burst' = IF doorRings THEN burst ELSE BurstGap
    BY <1>3 DEF MoreStops, MapStop, DatesBurst
  <2> QED  BY <1>0, <1>3, <2>2, <2>3 DEF MoreStops, BurstCovered
<1>4. ASSUME NEW f \in SettingFrames, SettingChanges(f) PROVE BurstCovered'
  BY <1>4 DEF SettingChanges, MapSetting, BurstCovered
<1>5. ASSUME Tick PROVE BurstCovered'
  <2>1. /\ lastStop' <= lastStop + 1 /\ lastStop' \in Nat
        /\ burst > 0 => burst' = burst - 1
        /\ burst = 0 => burst' = 0
        /\ ignoreStops > 0 => ignoreStops' = ignoreStops - 1
        /\ ignoreStops = 0 => ignoreStops' = 0
    BY <1>5 DEF Tick, MapperType, Older, Down
  <2>2. UNCHANGED <<shown, doorRings, activeEntrypoint>>
    BY <1>5 DEF Tick
  <2> QED  BY <1>0, <2>1, <2>2 DEF BurstCovered
<1>6. ASSUME UNCHANGED mapperVars PROVE BurstCovered'
  BY <1>6 DEF BurstCovered, mapperVars
<1> QED  BY <1>1, <1>2, <1>3, <1>4, <1>5, <1>6 DEF MapperNext

\* The mapper's timestamps, its ring and the event it maps a frame to always
\* have their types, and every burst of stop frames is covered.
THEOREM MapperCorrect == MapperSpec => []MapperInv
<1>1. MapperInit => MapperInv  BY MapperInitInv
<1>2. MapperInv /\ [MapperNext]_mapperVars => MapperInv'
  BY MapperTypeStep, BurstStep DEF MapperInv
<1> QED  BY <1>1, <1>2, PTL DEF MapperSpec

\* A stop frame that is left over from the stream before never clears a ring
\* that was announced inside the burst (Mapper.Map, the stale stop window).
THEOREM AnnouncedRingKept == MapperSpec => AnnouncedRingStays
<1>1. ASSUME MapperInv, [MapperNext]_mapperVars,
             burst > 0 /\ doorRings /\ shown
      PROVE  activeEntrypoint' = activeEntrypoint
  <2>1. ignoreStops # 0 /\ activeEntrypoint # None
    BY <1>1, MapperAssumption DEF MapperInv, MapperType, BurstCovered
  <2>2. ASSUME NEW f \in RingFrames, DoorRings(f) PROVE UNCHANGED activeEntrypoint
    BY <2>1, <2>2 DEF DoorRings, MapRing
  <2>3. ASSUME NEW f \in StopFrames, StreamEnds(f) \/ MoreStops(f)
        PROVE  UNCHANGED activeEntrypoint
    BY <2>1, <2>3 DEF StreamEnds, MoreStops, MapStop
  <2>4. ASSUME NEW f \in SettingFrames, SettingChanges(f)
        PROVE  UNCHANGED activeEntrypoint
    BY <2>4 DEF SettingChanges, MapSetting
  <2> QED  BY <1>1, <2>2, <2>3, <2>4 DEF MapperNext, Tick, mapperVars
<1>2. MapperInv /\ [MapperNext]_mapperVars =>
          [(burst > 0 /\ doorRings /\ shown) =>
               activeEntrypoint' = activeEntrypoint]_mapperVars
  BY <1>1
<1> QED  BY <1>2, MapperCorrect, PTL DEF MapperSpec, AnnouncedRingStays

-----------------------------------------------------------------------------
(* The ring watch and the bus call *)

\* The channel the next stream closes is the newest one that was made.
ObserverInv ==
    ObserverType /\ NextStreamReachesWaiters /\ upClosed \subseteq 1 .. streamUp

\* Nothing waits and no channel is closed at the start.
LEMMA ObserverInitInv == ObserverInit => ObserverInv
<1> SUFFICES ASSUME ObserverInit PROVE ObserverInv  OBVIOUS
<1>1. ObserverType
  <2>1. streamUp \in Channels /\ upClosed \subseteq Channels
    BY ObserverAssumption DEF ObserverInit, Channels
  <2>2. request \in [Requests -> RequestStates]
    BY ObserverAssumption DEF ObserverInit, RequestStates, Idle
  <2> QED  BY <2>1, <2>2, Zenon DEF ObserverInit, ObserverType
<1>2. NextStreamReachesWaiters /\ upClosed \subseteq 1 .. streamUp
  BY DEF ObserverInit, NextStreamReachesWaiters, Idle
<1> QED  BY <1>1, <1>2 DEF ObserverInv

\* A step of the bus call, or of the hangups that close it, leaves the watch alone.
LEMMA WatchStable ==
    ASSUME ObserverInv, UNCHANGED watchVars,
           called' \in BusCalls \cup {NoBusCall}, open' \in BOOLEAN,
           closing' \in [Hangups -> BusCalls \cup {NoBusCall}]
    PROVE  ObserverInv'
BY DEF ObserverInv, ObserverType, NextStreamReachesWaiters, watchVars

\* A step of one video request that keeps the channels.
LEMMA RequestMoves ==
    ASSUME ObserverInv, NEW r \in Requests, NEW q \in RequestStates,
           q.at = "waiting" => q.channel \in upClosed \cup {streamUp},
           request' = [request EXCEPT ![r] = q],
           UNCHANGED <<ringSeen, ringRecent, intercomStream, streamUp, upClosed, busVars>>
    PROVE  ObserverInv'
BY DEF ObserverInv, ObserverType, NextStreamReachesWaiters, busVars

\* One step of the ring watch, a video request, the bus call or a hangup.
LEMMA ObserverStep == ObserverInv /\ [ObserverNext]_observerVars => ObserverInv'
<1> SUFFICES ASSUME ObserverInv, [ObserverNext]_observerVars PROVE ObserverInv'
  OBVIOUS
<1>0. /\ streamUp \in 1 .. MaxChannels /\ MaxChannels \in Nat
      /\ request \in [Requests -> RequestStates]
  BY ObserverAssumption DEF ObserverInv, ObserverType, Channels
<1>1. ASSUME RingStartFrame PROVE ObserverInv'
  <2>1. CASE UNCHANGED <<watchVars, busVars>>
    BY <2>1 DEF ObserverInv, ObserverType, NextStreamReachesWaiters, watchVars, busVars
  <2>2. CASE StartRing /\ UNCHANGED busVars
    <3>0. streamUp' \in Channels
      BY <1>0, <2>2 DEF StartRing, Channels
    <3>1. ObserverType'
      BY <2>2, <3>0, Zenon DEF StartRing, ObserverInv, ObserverType, busVars
    <3>2. streamUp' \notin upClosed' /\ upClosed' \subseteq 1 .. streamUp'
      BY <1>0, <2>2 DEF StartRing, ObserverInv, NextStreamReachesWaiters, Renews
    <3>3. upClosed \cup {streamUp} \subseteq upClosed' \cup {streamUp'}
      BY <2>2 DEF StartRing, ObserverInv, NextStreamReachesWaiters, Renews
    <3>4. NextStreamReachesWaiters'
      BY <2>2, <3>2, <3>3 DEF StartRing, ObserverInv, NextStreamReachesWaiters
    <3> QED  BY <3>1, <3>2, <3>4 DEF ObserverInv
  <2> QED  BY <1>1, <2>1, <2>2 DEF RingStartFrame
<1>2. ASSUME RingStartAges PROVE ObserverInv'
  BY <1>2 DEF RingStartAges, ObserverInv, ObserverType, NextStreamReachesWaiters, busVars
<1>3. ASSUME IntercomStreamFrame PROVE ObserverInv'
  <2>1. CASE ringSeen /\ ~intercomStream
    <3>1. ObserverType'
      BY <1>0, <1>3, <2>1 DEF IntercomStreamFrame, ObserverInv, ObserverType, Channels, busVars
    <3>2. upClosed' \subseteq 1 .. streamUp' /\ streamUp' \in upClosed'
      <4>1. streamUp' = streamUp /\ upClosed' = upClosed \cup {streamUp}
        BY <1>3, <2>1 DEF IntercomStreamFrame
      <4>2. upClosed \subseteq 1 .. streamUp /\ streamUp \in 1 .. streamUp
        BY <1>0 DEF ObserverInv
      <4> QED  BY <4>1, <4>2
    <3>5. intercomStream' = TRUE
      BY <1>3, <2>1 DEF IntercomStreamFrame
    <3>3. upClosed \cup {streamUp} \subseteq upClosed' \cup {streamUp'}
      BY <1>3, <2>1 DEF IntercomStreamFrame
    <3>4. NextStreamReachesWaiters'
      BY <1>3, <2>1, <3>2, <3>3, <3>5 DEF IntercomStreamFrame, ObserverInv, NextStreamReachesWaiters
    <3> QED  BY <3>1, <3>2, <3>4 DEF ObserverInv
  <2>2. CASE UNCHANGED <<watchVars, busVars>>
    BY <2>2 DEF ObserverInv, ObserverType, NextStreamReachesWaiters, watchVars, busVars
  <2> QED  BY <1>3, <2>1, <2>2 DEF IntercomStreamFrame
<1>4. ASSUME NEW r \in Requests, AskVideo(r) PROVE ObserverInv'
  <2>1. [at |-> "waiting", channel |-> streamUp] \in RequestStates
    BY <1>0 DEF RequestStates
  <2> QED  BY <1>4, <2>1, RequestMoves DEF AskVideo
<1>5. ASSUME NEW r \in Requests, NEW at \in {"released", "cancelled"}, Returned(r, at)
      PROVE  ObserverInv'
  <2>1. [request[r] EXCEPT !.at = at] \in RequestStates
    BY <1>0, <1>5 DEF RequestStates
  <2>2. [request[r] EXCEPT !.at = at].at # "waiting"
    BY <1>0, <1>5 DEF RequestStates
  <2>3. request' = [request EXCEPT ![r] = [request[r] EXCEPT !.at = at]]
    BY <1>0, <1>5 DEF Returned
  <2> QED  BY <1>5, <2>1, <2>2, <2>3, RequestMoves DEF Returned
<1>6. ASSUME NEW r \in Requests, AsksAgain(r) PROVE ObserverInv'
  <2>1. Idle \in RequestStates /\ Idle.at # "waiting"
    BY <1>0 DEF Idle, RequestStates
  <2> QED  BY <1>6, <2>1, RequestMoves DEF AsksAgain
<1>7. ASSUME \/ \E c \in BusCalls : CallStartFrame(c)
             \/ CallAnswerFrame \/ CallEndFrame
             \/ \E h \in Hangups : TakeBusCall(h) \/ BusCallEnded(h)
      PROVE  ObserverInv'
  <2>1. UNCHANGED watchVars
    BY <1>7 DEF CallStartFrame, CallAnswerFrame, CallEndFrame, TakeBusCall, BusCallEnded
  <2>2. /\ called' \in BusCalls \cup {NoBusCall} /\ open' \in BOOLEAN
        /\ closing' \in [Hangups -> BusCalls \cup {NoBusCall}]
    BY <1>7 DEF CallStartFrame, CallAnswerFrame, CallEndFrame, TakeBusCall,
                BusCallEnded, ObserverInv, ObserverType
  <2> QED  BY <2>1, <2>2, WatchStable
<1>8. ASSUME UNCHANGED observerVars PROVE ObserverInv'
  BY <1>8 DEF ObserverInv, ObserverType, NextStreamReachesWaiters, observerVars,
              watchVars, busVars
<1> QED
  BY <1>1, <1>2, <1>3, <1>4, <1>5, <1>6, <1>7, <1>8
  DEF ObserverNext, StreamReleases, FallbackReleases, ContextCancels

\* Every video request that waits is reached by the next stream of the intercom,
\* and no channel is closed twice (ringVideoWatch), however rings, streams and
\* requests interleave.
THEOREM WaitersReached == ObserverSpec => [](ObserverType /\ NextStreamReachesWaiters)
<1>1. ObserverInv => ObserverType /\ NextStreamReachesWaiters  BY DEF ObserverInv
<1> QED  BY <1>1, ObserverInitInv, ObserverStep, PTL DEF ObserverSpec

-----------------------------------------------------------------------------
(* The control connection *)

Excused(s) == s.gone \/ s.refused \/ s.slow

\* How the deadline and the press of one connection relate, step by step, for
\* as long as the intercom answers at once.
PressFits(s) ==
    /\ s.down => /\ s.op = "unlock"
                 /\ s.at \in {"asked", "press", "close", "failed", "done"}
    /\ s.at \in {"failed", "done"} /\ s.down => Excused(s)
    /\ s.at \in {"handshake", "asks", "asked"} /\ ~s.slow =>
           s.left = Budget /\ s.due < Budget
    /\ s.at = "press" /\ ~s.slow => s.left > s.due
    /\ s.at = "close" /\ ~s.slow => s.left > 0

ControlInv == ControlType /\ \A c \in Commanders : PressFits(session[c])

\* Nobody has a command under way at the start.
LEMMA ControlInitInv == ControlInit => ControlInv
<1> SUFFICES ASSUME ControlInit PROVE ControlInv  OBVIOUS
<1>1. NoSession \in Connections
  BY ControlAssumption DEF NoSession, Connections
<1>2. PressFits(NoSession)
  BY DEF NoSession, PressFits
<1> QED  BY <1>1, <1>2 DEF ControlInit, ControlInv, ControlType

\* A step of one caller's connection leaves the others alone.
LEMMA OneConnection ==
    ASSUME ControlInv, NEW c \in Commanders, NEW s \in Connections, PressFits(s),
           session' = [session EXCEPT ![c] = s]
    PROVE  ControlInv'
BY DEF ControlInv, ControlType

\* Steps of one connection that only move it on to another stage.
LEMMA ConnectionMoves ==
    ASSUME ControlInv, NEW c \in Commanders,
           \/ Handshake(c) \/ PressEnds(c) \/ CloseAnswered(c) \/ Expires(c) \/ Fails(c)
    PROVE  ControlInv'
<1> DEFINE old == session[c]
<1>0. old \in Connections /\ PressFits(old)
  BY DEF ControlInv, ControlType
<1>1. ASSUME NEW stage \in {"asks", "close", "done", "failed"}, Move(c, stage),
             PressFits([old EXCEPT !.at = stage])
      PROVE  ControlInv'
  <2>1. session' = [session EXCEPT ![c] = [old EXCEPT !.at = stage]]
    BY <1>1 DEF Move
  <2>2. [old EXCEPT !.at = stage] \in Connections
    BY <1>0 DEF Connections
  <2> QED  BY <1>1, <2>1, <2>2, OneConnection
<1>2. CASE Handshake(c)
  <2>1. PressFits([old EXCEPT !.at = "asks"]) /\ PressFits([old EXCEPT !.at = "failed"])
    BY <1>0, <1>2 DEF Handshake, PressFits, Connections
  <2> QED  BY <1>1, <1>2, <2>1 DEF Handshake
<1>3. CASE PressEnds(c)
  <2>1. old.due = 0 => PressFits([old EXCEPT !.at = "close"])
    BY <1>0, <1>3 DEF PressEnds, PressFits, Connections
  <2>2. old.gone => PressFits([old EXCEPT !.at = "failed"])
    BY <1>0, <1>3 DEF PressEnds, PressFits, Connections, Excused
  <2> QED  BY <1>1, <1>3, <2>1, <2>2 DEF PressEnds
<1>4. CASE CloseAnswered(c)
  <2>1. PressFits([old EXCEPT !.at = "done"]) /\ PressFits([old EXCEPT !.at = "failed"])
    BY <1>0, <1>4 DEF CloseAnswered, PressFits, Connections
  <2> QED  BY <1>1, <1>4, <2>1 DEF CloseAnswered
<1>5. CASE Expires(c)
  <2>1. PressFits([old EXCEPT !.at = "failed"])
    BY <1>0, <1>5, ControlAssumption DEF Expires, PressFits, Connections, Excused
  <2> QED  BY <1>1, <1>5, <2>1 DEF Expires
<1>6. CASE Fails(c)
  <2>1. PressFits([old EXCEPT !.at = "done"])
    BY <1>0, <1>6 DEF Fails, PressFits, Connections, Excused
  <2> QED  BY <1>1, <1>6, <2>1 DEF Fails
<1> QED  BY <1>2, <1>3, <1>4, <1>5, <1>6

\* A command begins, its first frame is sent and answered, the close frame is
\* sent, or the caller goes away.
LEMMA ConnectionCommands ==
    ASSUME ControlInv, NEW c \in Commanders,
           \/ \E op \in Operations, d \in 0 .. Budget : Begin(c, op, d)
           \/ Ask(c) \/ CommandAnswered(c) \/ CloseFrame(c) \/ CallerLeaves(c)
    PROVE  ControlInv'
<1> DEFINE old == session[c]
<1>0. old \in Connections /\ PressFits(old) /\ session \in [Commanders -> Connections]
  BY DEF ControlInv, ControlType
<1>1. ASSUME NEW op \in Operations, NEW d \in 0 .. Budget, Begin(c, op, d)
      PROVE  ControlInv'
  <2> DEFINE due == IF op = "unlock" THEN PressOf(d) ELSE 0
             new == [NoSession EXCEPT !.at = "handshake", !.op = op,
                                      !.left = Budget, !.due = due]
  <2>0. op = "unlock" => PressOf(d) \in 1 .. Budget - 1
    BY <1>1 DEF Begin, PressAllowed, DefaultPress
  <2>1. due \in 0 .. Budget /\ due < Budget
    BY <2>0, ControlAssumption
  <2>3. session' = [session EXCEPT ![c] = new]
    BY <1>1 DEF Begin
  <2> HIDE DEF due
  <2>2. NoSession \in Connections
    BY ControlAssumption DEF NoSession, Connections
  <2>4. new \in Connections
    <3>1. Budget \in 0 .. Budget  BY ControlAssumption
    <3>2. ASSUME NEW n \in 0 .. Budget
          PROVE  [NoSession EXCEPT !.at = "handshake", !.op = op, !.left = Budget,
                                   !.due = n] \in Connections
      BY <2>2, <3>1 DEF Connections
    <3> QED  BY <2>1, <3>2
  <2>5. PressFits(new)
    BY <2>1 DEF PressFits, NoSession
  <2> HIDE DEF new
  <2> QED  BY <2>3, <2>4, <2>5, OneConnection
<1>2. CASE Ask(c)
  <2> DEFINE sends == [old EXCEPT !.at = "asked", !.down = old.op = "unlock"]
             refused == [old EXCEPT !.at = "failed", !.refused = TRUE]
  <2>1. sends \in Connections /\ refused \in Connections
    BY <1>0 DEF Connections
  <2>2. PressFits(sends)
    BY <1>0, <1>2 DEF Ask, PressFits, Connections
  <2>3. PressFits(refused)
    BY <1>0, <1>2 DEF Ask, PressFits, Connections, Excused
  <2>4. session' = [session EXCEPT ![c] = sends] \/ session' = [session EXCEPT ![c] = refused]
    BY <1>0, <1>2 DEF Ask
  <2> HIDE DEF sends, refused
  <2> QED  BY <2>1, <2>2, <2>3, <2>4, OneConnection
<1>3. CASE CommandAnswered(c)
  <2> DEFINE goesOn == [old EXCEPT !.at = IF old.op = "unlock" THEN "press" ELSE "done"]
             refused == [old EXCEPT !.at = "failed", !.refused = TRUE]
  <2>1. goesOn \in Connections /\ refused \in Connections
    BY <1>0 DEF Connections
  <2>2. PressFits(goesOn)
    BY <1>0, <1>3 DEF CommandAnswered, PressFits, Connections
  <2>3. PressFits(refused)
    BY <1>0, <1>3 DEF CommandAnswered, PressFits, Connections, Excused
  <2>4. session' = [session EXCEPT ![c] = goesOn] \/ session' = [session EXCEPT ![c] = refused]
    BY <1>0, <1>3 DEF CommandAnswered
  <2> HIDE DEF goesOn, refused
  <2> QED  BY <2>1, <2>2, <2>3, <2>4, OneConnection
<1>4. CASE CloseFrame(c)
  <2> DEFINE new == [old EXCEPT !.at = "closed", !.down = FALSE]
  <2>1. new \in Connections  BY <1>0 DEF Connections
  <2>2. PressFits(new)  BY <1>0 DEF PressFits, Connections
  <2>3. session' = [session EXCEPT ![c] = new]  BY <1>0, <1>4 DEF CloseFrame
  <2> HIDE DEF new
  <2> QED  BY <2>1, <2>2, <2>3, OneConnection
<1>5. CASE CallerLeaves(c)
  <2> DEFINE new == [old EXCEPT !.gone = TRUE]
  <2>1. new \in Connections  BY <1>0 DEF Connections
  <2>2. PressFits(new)  BY <1>0 DEF PressFits, Connections, Excused
  <2>3. session' = [session EXCEPT ![c] = new]  BY <1>0, <1>5 DEF CallerLeaves
  <2> HIDE DEF new
  <2> QED  BY <2>1, <2>2, <2>3, OneConnection
<1> QED  BY <1>1, <1>2, <1>3, <1>4, <1>5

\* A tick of the clock: a press and its deadline go down together, and a tick
\* spent waiting for an answer makes the connection a slow one.
LEMMA ControlTicks == ASSUME ControlInv, ControlTick PROVE ControlInv'
<1> DEFINE new(c) == [session[c] EXCEPT
               !.left = IF @ > 0 THEN @ - 1 ELSE 0,
               !.due = IF session[c].at = "press" THEN @ - 1 ELSE @,
               !.slow = @ \/ session[c].at \in {"handshake", "asks", "asked", "close"}]
<1>1. session' = [c \in Commanders |-> new(c)]
  BY DEF ControlTick
<1>2. ASSUME NEW c \in Commanders
      PROVE  new(c) \in Connections /\ PressFits(new(c))
  <2>1. session[c] \in Connections /\ PressFits(session[c])
    BY DEF ControlInv, ControlType
  <2>2. session[c].at = "press" => session[c].due > 0
    BY DEF ControlTick
  <2> DEFINE s == session[c]
             left == IF s.left > 0 THEN s.left - 1 ELSE 0
             due == IF s.at = "press" THEN s.due - 1 ELSE s.due
             slow == s.slow \/ s.at \in {"handshake", "asks", "asked", "close"}
  <2>3. /\ new(c).at = s.at /\ new(c).op = s.op /\ new(c).left = left
        /\ new(c).due = due /\ new(c).down = s.down /\ new(c).gone = s.gone
        /\ new(c).slow = slow /\ new(c).refused = s.refused
    BY <2>1 DEF Connections
  <2>4. left \in 0 .. Budget /\ due \in 0 .. Budget
    BY <2>1, <2>2, ControlAssumption DEF Connections
  <2>5. new(c) \in Connections
    BY <2>1, <2>4 DEF Connections
  <2>6. PressFits(new(c))
    <3> HIDE DEF new
    <3>1. s.left \in 0 .. Budget /\ s.due \in 0 .. Budget
      BY <2>1 DEF Connections
    <3>2. s.down => /\ s.op = "unlock"
                    /\ s.at \in {"asked", "press", "close", "failed", "done"}
      BY <2>1 DEF PressFits
    <3>3. s.at \in {"failed", "done"} /\ s.down => Excused(s)
      BY <2>1 DEF PressFits
    <3>4. s.at = "press" /\ ~s.slow => s.left > s.due
      BY <2>1 DEF PressFits
    <3>5. s.at \in {"failed", "done"} /\ new(c).down => Excused(new(c))
      BY <2>3, <3>3, Zenon DEF Excused
    <3>6. s.at = "press" /\ ~slow => new(c).left > new(c).due
      BY <2>2, <2>3, <3>1, <3>4
    <3>7. s.at \in {"handshake", "asks", "asked", "close"} => slow
      OBVIOUS
    <3> HIDE DEF s, slow
    <3> QED  BY <2>3, <3>2, <3>5, <3>6, <3>7 DEF PressFits
  <2> QED  BY <2>5, <2>6
<1> HIDE DEF new
<1> QED  BY <1>1, <1>2 DEF ControlInv, ControlType

\* An unlock whose button is still down when it is over was left by its caller,
\* refused or slow: the longest press Unlock accepts fits the deadline exec
\* sets, for every length of that deadline.
THEOREM PressFitsDeadline == ControlSpec => [](ControlType /\ PressFitsBudget)
<1>1. ControlInv /\ [ControlNext]_controlVars => ControlInv'
  <2> SUFFICES ASSUME ControlInv, [ControlNext]_controlVars PROVE ControlInv'
    OBVIOUS
  <2>1. CASE ControlTick  BY <2>1, ControlTicks
  <2>2. CASE ControlNext /\ ~ControlTick
    BY <2>2, ConnectionMoves, ConnectionCommands DEF ControlNext
  <2>3. CASE UNCHANGED controlVars
    BY <2>3 DEF controlVars, ControlInv, ControlType
  <2> QED  BY <2>1, <2>2, <2>3
<1>2. ControlInv => ControlType /\ PressFitsBudget
  BY DEF ControlInv, PressFitsBudget, LeftDown, PressFits, Excused
<1> QED  BY <1>1, <1>2, ControlInitInv, PTL DEF ControlSpec

-----------------------------------------------------------------------------
(* The ring holder *)

\* What the acquire goroutines may still do: only the newest ring can store a
\* lease, a goroutine that found its ring gone has closed its clip, and what the
\* drain has taken is nobody else's.
GoroutinesAgree ==
    /\ lease # 0 => lease = generation /\ acquiring[lease] = "done"
    /\ leaving # 0 => acquiring[leaving] = "done" /\ leaving \notin clips
    /\ \A g \in Generations :
           /\ acquiring[g] = "stale" => g \notin clips
           /\ g > generation => acquiring[g] = "none"

\* What is still to be delivered ends the ring if the line does not ring; when
\* all is delivered nothing acquires for the ring that was.
EndOfRingDelivered ==
    /\ ringing = None /\ queue # <<>> => EndsRing(queue[Len(queue)])
    /\ ringing = None /\ queue = <<>> =>
           lease = 0 /\ (generation > 0 => acquiring[generation] = "none")

HolderInv ==
    /\ HolderType
    /\ GoroutinesAgree
    /\ EndOfRingDelivered
    /\ NothingForgotten

\* The holder starts with nothing held and nothing to deliver.
LEMMA HolderInitInv == HolderInit => HolderInv
<1> SUFFICES ASSUME HolderInit PROVE HolderInv  OBVIOUS
<1>1. HolderType
  <2>1. CallType  BY DEF HolderInit, CallInit, CallType
  <2> QED  BY <2>1, HolderAssumption DEF HolderInit, HolderType, Generations, AcquireSteps
<1>2. GoroutinesAgree  BY DEF HolderInit, GoroutinesAgree
<1>3. EndOfRingDelivered  BY DEF HolderInit, CallInit, EndOfRingDelivered
<1>4. NothingForgotten  BY DEF HolderInit, NothingForgotten
<1> QED  BY <1>1, <1>2, <1>3, <1>4 DEF HolderInv

\* The manager's commits keep the line well typed, and a line that does not
\* ring has an event that says so behind the ring.
LEMMA LineCommits ==
    ASSUME CallType, CallNext, Len(queue') > Len(queue)
    PROVE  /\ CallType' /\ queue' # <<>>
           /\ ringing' = None => EndsRing(queue'[Len(queue')])
<1>0. queue \in Seq(CallEvents) /\ Len(queue) \in Nat
  BY DEF CallType
<1>1. ASSUME NEW e \in CallEvents, Commit(e)
      PROVE  queue' \in Seq(CallEvents) /\ queue' # <<>> /\ queue'[Len(queue')] = e
  BY <1>0, <1>1 DEF Commit
<1>2. ASSUME NEW d \in Dialogs, NEW ep \in Entrypoints, Rings(d, ep)
      PROVE  CallType' /\ queue' # <<>> /\ ringing' # None
  <2>1. IncomingCallStarted(d, ep) \in CallEvents  BY DEF CallEvents
  <2>2. queue' \in Seq(CallEvents) /\ queue' # <<>>
    BY <1>1, <1>2, <2>1 DEF Rings
  <2> QED  BY <1>2, <2>2, NoneAssumption DEF CallType, Rings
<1>3. ASSUME NEW r \in Reasons, RingEnded(r)
      PROVE  CallType' /\ queue' # <<>> /\ EndsRing(queue'[Len(queue')])
  <2>0. ringing \in Dialogs  BY <1>3 DEF RingEnded, CallType
  <2>1. IncomingCallEnded(ringing, r) \in CallEvents  BY <2>0 DEF CallEvents
  <2>2. /\ queue' \in Seq(CallEvents) /\ queue' # <<>>
        /\ queue'[Len(queue')] = IncomingCallEnded(ringing, r)
    BY <1>1, <1>3, <2>1 DEF RingEnded
  <2>3. EndsRing(IncomingCallEnded(ringing, r))
    BY DEF EndsRing, IncomingCallEnded
  <2> QED  BY <1>3, <2>2, <2>3 DEF CallType, RingEnded
<1>4. ASSUME Declined \/ RingHungUp \/ Answered
      PROVE  CallType' /\ queue' # <<>> /\ EndsRing(queue'[Len(queue')])
  <2>0. ringing \in Dialogs  BY <1>4 DEF Declined, RingHungUp, Answered, CallType
  <2>1. /\ CallDeclined(ringing) \in CallEvents /\ CallHungUp(ringing) \in CallEvents
        /\ CallAnswered(ringing) \in CallEvents
    BY <2>0 DEF CallEvents
  <2>2. /\ queue' \in Seq(CallEvents) /\ queue' # <<>>
        /\ queue'[Len(queue')] \in {CallDeclined(ringing), CallHungUp(ringing),
                                    CallAnswered(ringing)}
    BY <1>1, <1>4, <2>1 DEF Declined, RingHungUp, Answered
  <2>3. /\ EndsRing(CallDeclined(ringing)) /\ EndsRing(CallHungUp(ringing))
        /\ EndsRing(CallAnswered(ringing))
    BY DEF EndsRing, CallDeclined, CallHungUp, CallAnswered
  <2>4. ringing' \in Dialogs \cup {None} /\ answered' \in Dialogs \cup {None}
    BY <1>4, <2>0 DEF CallType, Declined, RingHungUp, Answered
  <2> QED  BY <2>2, <2>3, <2>4 DEF CallType
<1>5. ASSUME HungUp
      PROVE  CallType' /\ queue' # <<>> /\ EndsRing(queue'[Len(queue')])
  <2>0. answered \in Dialogs  BY <1>5 DEF HungUp, CallType
  <2>1. CallHungUp(answered) \in CallEvents  BY <2>0 DEF CallEvents
  <2>2. /\ queue' \in Seq(CallEvents) /\ queue' # <<>>
        /\ queue'[Len(queue')] = CallHungUp(answered)
    BY <1>1, <1>5, <2>1 DEF HungUp
  <2>3. EndsRing(CallHungUp(answered))
    BY DEF EndsRing, CallHungUp
  <2> QED  BY <1>5, <2>2, <2>3 DEF CallType, HungUp
<1>6. ASSUME Delivered PROVE FALSE
  BY <1>0, <1>6 DEF Delivered
<1> QED  BY <1>2, <1>3, <1>4, <1>5, <1>6 DEF CallNext

\* The manager commits an event; the holder is not involved.
LEMMA HolderLineMoves == ASSUME HolderInv, LineMoves PROVE HolderInv'
<1>1. CallType' /\ queue' # <<>> /\ (ringing' = None => EndsRing(queue'[Len(queue')]))
  BY LineCommits DEF HolderInv, HolderType, LineMoves
<1> QED
  BY <1>1 DEF HolderInv, HolderType, GoroutinesAgree, EndOfRingDelivered,
              NothingForgotten, LineMoves, ownHolderVars

\* The drain hands one event over: what was held is taken, and a ring of a
\* streaming entrypoint starts an acquire goroutine.
LEMMA HolderRoutes == ASSUME HolderInv, RouteEvent PROVE HolderInv'
<1> DEFINE e == Head(queue)
<1>0. /\ queue \in Seq(CallEvents) /\ queue # <<>> /\ queue' = Tail(queue)
      /\ UNCHANGED <<ringing, answered>> /\ leaving = 0
      /\ generation \in 0 .. MaxGeneration /\ generation < MaxGeneration
      /\ MaxGeneration \in Nat
  BY HolderAssumption DEF HolderInv, HolderType, CallType, RouteEvent, Delivered
<1>1. CallType'
  BY <1>0 DEF HolderInv, HolderType, CallType
<1>2. queue' # <<>> => queue'[Len(queue')] = queue[Len(queue)]
  BY <1>0
<1>3. queue' = <<>> => e = queue[Len(queue)]
  <2>1. Len(queue') = Len(queue) - 1 /\ Len(queue) \in Nat
    BY <1>0
  <2>2. queue' = <<>> => Len(queue) = 1
    BY <2>1
  <2> QED  BY <1>0, <2>2
<1>4. generation + 1 \in Generations /\ acquiring[generation + 1] = "none"
  BY <1>0 DEF HolderInv, GoroutinesAgree, Generations
<1>5. ASSUME TakeHeld, UNCHANGED leases, clips' = clips \ {lease},
             \/ acquiring' = acquiring
             \/ /\ acquiring' = [acquiring EXCEPT ![generation + 1] = "spawned"]
                /\ queue' = <<>> => ringing # None
      PROVE  HolderInv'
  <2>1. HolderType'
    BY <1>0, <1>1, <1>4, <1>5 DEF TakeHeld, HolderInv, HolderType, AcquireSteps, Generations
  <2>2. \A g \in Generations : /\ acquiring[g] # "none" => acquiring'[g] = acquiring[g]
                               /\ g # generation + 1 => acquiring'[g] = acquiring[g]
                               /\ acquiring'[g] = "stale" => acquiring[g] = "stale"
    BY <1>4, <1>5 DEF HolderInv, HolderType
  <2>3. GoroutinesAgree'
    <3>1. leaving' # 0 => acquiring'[leaving'] = "done" /\ leaving' \notin clips'
      BY <1>0, <1>5, <2>2 DEF TakeHeld, HolderInv, HolderType, GoroutinesAgree, Generations
    <3>2. \A g \in Generations : g > generation + 1 => acquiring'[g] = "none"
      BY <1>0, <2>2 DEF HolderInv, GoroutinesAgree, Generations
    <3>3. \A g \in Generations : acquiring'[g] = "stale" => g \notin clips'
      BY <1>5, <2>2 DEF HolderInv, GoroutinesAgree
    <3> QED  BY <1>5, <3>1, <3>2, <3>3 DEF TakeHeld, GoroutinesAgree
  <2>4. EndOfRingDelivered'
    BY <1>0, <1>2, <1>4, <1>5 DEF TakeHeld, HolderInv, EndOfRingDelivered
  <2>5. NothingForgotten'
    <3>1. \A g \in leases' : g \in {lease', leaving'} \/ acquiring'[g] \in {"acquired", "stale"}
      BY <1>0, <1>5, <2>2 DEF TakeHeld, HolderInv, HolderType, NothingForgotten
    <3>2. \A g \in clips' : acquiring'[g] = "starting" \/ g \in leases'
      BY <1>5, <2>2 DEF HolderInv, HolderType, NothingForgotten
    <3> QED  BY <1>5, <3>1, <3>2 DEF TakeHeld, NothingForgotten
  <2> QED  BY <2>1, <2>3, <2>4, <2>5 DEF HolderInv
<1>6. CASE e.type = "call.incoming"
  <2>1. ~EndsRing(e)  BY <1>6 DEF EndsRing
  <2>2. queue' = <<>> => ringing # None
    BY <1>0, <1>3, <2>1 DEF HolderInv, EndOfRingDelivered
  <2>3. Hold(e.entrypoint)  BY <1>6 DEF RouteEvent
  <2> HIDE DEF e
  <2> QED  BY <1>5, <2>2, <2>3 DEF Hold
<1>7. CASE e.type # "call.incoming" /\ EndsRing(e)
  <2>1. Release  BY <1>7 DEF RouteEvent
  <2> QED  BY <1>5, <2>1 DEF Release
<1>8. CASE e.type # "call.incoming" /\ ~EndsRing(e)
  <2>1. UNCHANGED ownHolderVars  BY <1>8 DEF RouteEvent
  <2>2. queue' = <<>> => ringing # None
    BY <1>0, <1>3, <1>8 DEF HolderInv, EndOfRingDelivered
  <2> HIDE DEF e
  <2>3. HolderType' /\ GoroutinesAgree'
    BY <1>1, <2>1 DEF HolderInv, HolderType, GoroutinesAgree, ownHolderVars
  <2>4. EndOfRingDelivered' /\ NothingForgotten'
    BY <1>0, <1>2, <2>1, <2>2
    DEF HolderInv, EndOfRingDelivered, NothingForgotten, ownHolderVars
  <2> QED  BY <2>3, <2>4 DEF HolderInv
<1> QED  BY <1>6, <1>7, <1>8

\* A step of one acquire goroutine, of the drain after it has taken a lease, or
\* of the coordinator that reports a lost stream.
LEMMA HolderGoroutines ==
    ASSUME HolderInv,
           \/ LeaveTaken
           \/ \E g \in Generations : \/ StartClip(g) \/ Acquire(g) \/ Store(g)
                                     \/ LeaveStale(g) \/ StreamLost(g)
    PROVE  HolderInv'
<1>0. /\ UNCHANGED <<callVars, generation>> /\ MaxGeneration \in Nat
      /\ generation \in 0 .. MaxGeneration
      /\ acquiring \in [Generations -> AcquireSteps]
  BY HolderAssumption DEF LeaveTaken, StartClip, Acquire, Store, LeaveStale, StreamLost,
                          HolderInv, HolderType
<1>1. CallType'  BY <1>0 DEF HolderInv, HolderType, CallType, callVars
<1>2. CASE LeaveTaken
  <2>1. HolderType'  BY <1>0, <1>1, <1>2 DEF LeaveTaken, HolderInv, HolderType
  <2>2. GoroutinesAgree'  BY <1>2 DEF LeaveTaken, HolderInv, GoroutinesAgree
  <2>3. EndOfRingDelivered' /\ NothingForgotten'
    BY <1>0, <1>2 DEF LeaveTaken, HolderInv, EndOfRingDelivered, NothingForgotten,
                      GoroutinesAgree, callVars
  <2> QED  BY <2>1, <2>2, <2>3 DEF HolderInv
<1>3. ASSUME NEW g \in Generations, StartClip(g) PROVE HolderInv'
  <2>0. g # 0 /\ leaving # g  BY <1>3, <1>0 DEF Generations, StartClip, HolderInv, GoroutinesAgree
  <2>1. HolderType'
    BY <1>0, <1>1, <1>3 DEF StartClip, HolderInv, HolderType, AcquireSteps
  <2>2. GoroutinesAgree'
    BY <1>0, <1>3, <2>0 DEF StartClip, HolderInv, HolderType, GoroutinesAgree
  <2>3. EndOfRingDelivered'
    BY <1>0, <1>3 DEF StartClip, HolderInv, EndOfRingDelivered, callVars
  <2>4. NothingForgotten'
    BY <1>0, <1>3 DEF StartClip, HolderInv, HolderType, NothingForgotten, callVars
  <2> QED  BY <2>1, <2>2, <2>3, <2>4 DEF HolderInv
<1>4. ASSUME NEW g \in Generations, Acquire(g) PROVE HolderInv'
  <2>0. acquiring[g] = "starting" /\ UNCHANGED <<lease, leaving>> /\ g # lease /\ g # leaving
    BY <1>4, <1>0 DEF Acquire, HolderInv, GoroutinesAgree, Generations
  <2>1. HolderType'
    BY <1>0, <1>1, <1>4 DEF Acquire, HolderInv, HolderType, AcquireSteps
  <2>2. PICK s \in {"acquired", "done"} :
           /\ acquiring' = [acquiring EXCEPT ![g] = s]
           /\ IF s = "acquired" THEN leases' = leases \cup {g} /\ clips' = clips
                                ELSE clips' = clips \ {g} /\ leases' = leases
    BY <1>4 DEF Acquire
  <2>3. acquiring'[g] = s /\ \A h \in Generations \ {g} : acquiring'[h] = acquiring[h]
    BY <1>0, <2>2
  <2>4. GoroutinesAgree'
    BY <1>0, <2>0, <2>2, <2>3 DEF HolderInv, HolderType, GoroutinesAgree, Generations
  <2>5. EndOfRingDelivered'
    BY <1>0, <2>0, <2>3 DEF HolderInv, EndOfRingDelivered, callVars, Generations
  <2>6. NothingForgotten'
    BY <1>0, <1>4 DEF Acquire, HolderInv, HolderType, NothingForgotten, callVars
  <2> QED  BY <2>1, <2>4, <2>5, <2>6 DEF HolderInv
<1>5. ASSUME NEW g \in Generations, Store(g) PROVE HolderInv'
  <2>1. CASE Current(g)
    <3>0. lease = 0 /\ lease' = g /\ g = generation
          /\ acquiring' = [acquiring EXCEPT ![g] = "done"]
          /\ UNCHANGED <<clips, leaving, leases>>
      BY <1>5, <2>1 DEF Store, Current, HolderInv, GoroutinesAgree
    <3>1. HolderType'
      BY <1>0, <1>1, <3>0 DEF HolderInv, HolderType, AcquireSteps
    <3>2. GoroutinesAgree'
      BY <1>0, <1>5, <3>0 DEF Store, HolderInv, HolderType, GoroutinesAgree
    <3>3. ~(ringing = None /\ queue = <<>>)
      BY <1>0, <1>5, <3>0 DEF Store, HolderInv, EndOfRingDelivered, Generations
    <3>4. EndOfRingDelivered' /\ NothingForgotten'
      BY <1>0, <1>5, <3>0, <3>3 DEF Store, HolderInv, HolderType, EndOfRingDelivered,
                                    NothingForgotten, callVars
    <3> QED  BY <3>1, <3>2, <3>4 DEF HolderInv
  <2>2. CASE ~Current(g)
    <3>0. /\ acquiring' = [acquiring EXCEPT ![g] = "stale"]
          /\ clips' = clips \ {g} /\ UNCHANGED <<lease, leaving, leases>>
      BY <1>5, <2>2 DEF Store
    <3>1. HolderType'
      BY <1>0, <1>1, <3>0 DEF HolderInv, HolderType, AcquireSteps
    <3>2. GoroutinesAgree'
      BY <1>0, <1>5, <3>0 DEF Store, HolderInv, HolderType, GoroutinesAgree
    <3>3. EndOfRingDelivered'
      BY <1>0, <1>5, <2>2, <3>0 DEF Store, HolderInv, EndOfRingDelivered, callVars, Current
    <3>4. NothingForgotten'
      BY <1>0, <1>5, <3>0 DEF Store, HolderInv, HolderType, NothingForgotten, callVars
    <3> QED  BY <3>1, <3>2, <3>3, <3>4 DEF HolderInv
  <2> QED  BY <2>1, <2>2
<1>6. ASSUME NEW g \in Generations, LeaveStale(g) PROVE HolderInv'
  <2>0. acquiring[generation] = "none" => g # generation
    BY <1>6 DEF LeaveStale
  <2>1. HolderType'
    BY <1>0, <1>1, <1>6 DEF LeaveStale, HolderInv, HolderType, AcquireSteps
  <2>2. GoroutinesAgree'
    BY <1>0, <1>6 DEF LeaveStale, HolderInv, HolderType, GoroutinesAgree
  <2>3. EndOfRingDelivered'
    BY <1>0, <1>6, <2>0 DEF LeaveStale, HolderInv, EndOfRingDelivered, callVars
  <2>4. NothingForgotten'
    BY <1>0, <1>6 DEF LeaveStale, HolderInv, HolderType, NothingForgotten,
                      GoroutinesAgree, callVars
  <2> QED  BY <2>1, <2>2, <2>3, <2>4 DEF HolderInv
<1>7. ASSUME NEW g \in Generations, StreamLost(g) PROVE HolderInv'
  BY <1>0, <1>1, <1>7 DEF StreamLost, HolderInv, HolderType, GoroutinesAgree,
                          EndOfRingDelivered, NothingForgotten, callVars
<1> QED  BY <1>2, <1>3, <1>4, <1>5, <1>6, <1>7

\* Whatever the ring holder opened it will close, and once nothing rings and
\* every event is delivered it holds nothing (ringHolder.hold, release), for
\* every number of rings and of events the manager has still to deliver.
THEOREM HolderForgetsNothing == HolderSpec => [](HolderType /\ NothingForgotten)
<1>1. HolderInv /\ [HolderNext]_holderVars => HolderInv'
  <2> SUFFICES ASSUME HolderInv, [HolderNext]_holderVars PROVE HolderInv'
    OBVIOUS
  <2>1. CASE UNCHANGED holderVars
    BY <2>1 DEF holderVars, callVars, HolderInv, HolderType, CallType, GoroutinesAgree,
                EndOfRingDelivered, NothingForgotten
  <2> QED
    BY <2>1, HolderLineMoves, HolderRoutes, HolderGoroutines DEF HolderNext
<1>2. HolderInv => HolderType /\ NothingForgotten  BY DEF HolderInv
<1> QED  BY <1>1, <1>2, HolderInitInv, PTL DEF HolderSpec
=============================================================================
