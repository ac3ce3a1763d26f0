------------------------------- MODULE Mapper -------------------------------
(***************************************************************************)
(* openwebnet.Mapper: the frames of the bus become ring and setting        *)
(* events.  What a frame means depends on when it comes, so the mapper's   *)
(* three timestamps are kept as ages in ticks, each saturated one past the *)
(* window that reads it.  The door and the indoor unit that send the       *)
(* frames are the environment.                                             *)
(***************************************************************************)
EXTENDS CoreState

CONSTANTS
    RingFrames,          \* ring start frames, records of addresses [a, b]
    EntrypointAt,        \* the configured devaddr -> entrypoint
    MapperDoorbell,      \* config.DoorbellEntrypoint, None if not named
    DuplicateWindow,     \* 300 ms
    StopBurstBeforeRing, \* stopBurstBeforeRing, 1 s
    StaleStopWindow,     \* staleStopWindow, 1.5 s
    BurstGap,            \* the longest pause inside a burst of stop frames
    BurstTail            \* how long a burst goes on once a ring has begun

\* What the two windows are worth depends on the bus: the comments on them give
\* about 0.5 s of stop frames.  The last stop before a ring frame that comes
\* inside a burst is a pause and the tail so far ago at most, both cut short.
ASSUME MapperAssumption ==
    /\ {DuplicateWindow, StopBurstBeforeRing, StaleStopWindow,
        BurstGap, BurstTail} \subseteq Nat \ {0}
    /\ (BurstGap - 1) + (BurstTail - 1) <= StopBurstBeforeRing
    /\ BurstTail <= StaleStopWindow
    /\ \A f \in DOMAIN EntrypointAt : EntrypointAt[f] \in Entrypoints
    /\ MapperDoorbell \in Entrypoints \cup {None}

StopFrames == [stop : {"stream", "free av resources"}]
SettingFrames == [type : {"audio.muted", "voicemail.enabled"}]
MapperFrames == RingFrames \cup StopFrames \cup SettingFrames

VARIABLES
    recentFrames,      \* age of the last such frame
    activeEntrypoint,  \* the ring announced and not cleared
    lastStop,          \* age of the latest stop frame
    ignoreStops,       \* ticks left of the stale stop window
    event,             \* what the last frame was mapped to
    doorRings,         \* environment: the door rings
    burst,             \* environment: ticks in which a stop may still follow
    shown              \* history: the ring at the door was announced

mapperVars == <<recentFrames, activeEntrypoint, lastStop, ignoreStops, event,
                doorRings, burst, shown>>

MapperType ==
    /\ recentFrames \in [MapperFrames -> 0 .. DuplicateWindow + 1]
    /\ activeEntrypoint \in Entrypoints \cup {None}
    /\ lastStop \in 0 .. StopBurstBeforeRing + 1
    /\ ignoreStops \in 0 .. StaleStopWindow
    /\ event \in {None} \cup SettingFrames
                   \cup {RingStarted(ep) : ep \in Entrypoints}
                   \cup {RingCleared(ep) : ep \in Entrypoints}
    /\ doorRings \in BOOLEAN /\ shown \in BOOLEAN
    /\ burst \in 0 .. BurstGap + BurstTail

MapperInit ==
    /\ recentFrames = [f \in MapperFrames |-> DuplicateWindow + 1]
    /\ activeEntrypoint = None
    /\ lastStop = StopBurstBeforeRing + 1
    /\ ignoreStops = 0
    /\ event = None
    /\ doorRings = FALSE /\ burst = 0 /\ shown = FALSE

Duplicate(f) == recentFrames[f] <= DuplicateWindow

\* The doorbell takes every ring; otherwise <b>, then <a>, then the sole
\* entrypoint.
ResolveEntrypoint(f) ==
    IF MapperDoorbell # None THEN MapperDoorbell
    ELSE IF f.b \in DOMAIN EntrypointAt THEN EntrypointAt[f.b]
    ELSE IF f.a \in DOMAIN EntrypointAt THEN EntrypointAt[f.a]
    ELSE IF \E a \in DOMAIN EntrypointAt : DOMAIN EntrypointAt = {a}
      THEN EntrypointAt[CHOOSE a \in DOMAIN EntrypointAt : TRUE]
    ELSE None

MapRing(f) ==
    LET id == ResolveEntrypoint(f) IN
    /\ IF ~Duplicate(f) /\ activeEntrypoint = None /\ id # None
         THEN /\ activeEntrypoint' = id
              /\ ignoreStops' = IF lastStop <= StopBurstBeforeRing
                                  THEN StaleStopWindow ELSE ignoreStops
              /\ event' = RingStarted(id)
         ELSE UNCHANGED <<activeEntrypoint, ignoreStops>> /\ event' = None
    /\ recentFrames' = [recentFrames EXCEPT ![f] = 0]
    /\ UNCHANGED lastStop

\* MUTANT of DatesBurst: a duplicate no longer dates the burst.
DatesBurst_FirstOnly(f) == ~Duplicate(f)

\* The last frame of a burst dates it, so lastStop is set before the duplicate
\* check.
DatesBurst(f) == TRUE

MapStop(f) ==
    /\ lastStop' = IF DatesBurst(f) THEN 0 ELSE lastStop
    /\ IF ~Duplicate(f) /\ activeEntrypoint # None /\ ignoreStops = 0
         THEN /\ activeEntrypoint' = None
              /\ event' = RingCleared(activeEntrypoint)
         ELSE UNCHANGED activeEntrypoint /\ event' = None
    /\ recentFrames' = [recentFrames EXCEPT ![f] = 0]
    /\ UNCHANGED ignoreStops

MapSetting(f) ==
    /\ event' = IF Duplicate(f) THEN None ELSE f
    /\ recentFrames' = [recentFrames EXCEPT ![f] = 0]
    /\ UNCHANGED <<activeEntrypoint, lastStop, ignoreStops>>

-----------------------------------------------------------------------------
(* The bus *)

\* The door rings, possibly in the middle of the burst that ends the stream
\* before; a ring is announced with several frames.
DoorRings(f) ==
    /\ MapRing(f)
    /\ doorRings' = TRUE
    /\ burst' = IF doorRings THEN burst ELSE IF burst > 0 THEN BurstTail ELSE 0
    /\ shown' = (event' # None \/ (shown /\ doorRings))

\* The ring or the stream ends with a burst of stop frames.
StreamEnds(f) ==
    /\ burst = 0
    /\ MapStop(f)
    /\ doorRings' = FALSE /\ burst' = BurstGap /\ shown' = FALSE

MoreStops(f) ==
    /\ burst > 0
    /\ MapStop(f)
    /\ burst' = IF doorRings THEN burst ELSE BurstGap
    /\ UNCHANGED <<doorRings, shown>>

SettingChanges(f) == MapSetting(f) /\ UNCHANGED <<doorRings, burst, shown>>

Older(age, window) == IF age > window THEN age ELSE age + 1
Down(n) == IF n = 0 THEN 0 ELSE n - 1

Tick ==
    /\ recentFrames' = [f \in MapperFrames |->
                            Older(recentFrames[f], DuplicateWindow)]
    /\ lastStop' = Older(lastStop, StopBurstBeforeRing)
    /\ ignoreStops' = Down(ignoreStops)
    /\ burst' = Down(burst)
    /\ UNCHANGED <<activeEntrypoint, event, doorRings, shown>>

MapperNext ==
    \/ \E f \in RingFrames : DoorRings(f)
    \/ \E f \in StopFrames : StreamEnds(f) \/ MoreStops(f)
    \/ \E f \in SettingFrames : SettingChanges(f)
    \/ Tick

MapperSpec == MapperInit /\ [][MapperNext]_mapperVars

-----------------------------------------------------------------------------

\* A ring that was announced is not cleared by the stop frames that are left
\* over from the stream before it, however the two bursts interleave: the stale
\* stop window (mapper.go:89) covers the tail of the burst.
AnnouncedRingStays ==
    [][(burst > 0 /\ doorRings /\ shown) =>
           activeEntrypoint' = activeEntrypoint]_mapperVars
=============================================================================
