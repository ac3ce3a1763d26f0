---------------------------- MODULE ClientProofs ----------------------------
(***************************************************************************)
(* What serves people, for every value of the constants: the camera        *)
(* sessions and the lock of HomeKit, the WebSocket hub with the event      *)
(* applier that feeds it, the WebRTC signalling sockets, and the accounts  *)
(* over the configuration store.  Last, the projected state that all of    *)
(* them show, for every order of events.                                   *)
(*                                                                         *)
(* Each part has an inductive invariant made of named conjuncts, a lemma   *)
(* per group of actions, and a theorem that states what the run Parts      *)
(* checks on a small instance.                                             *)
(***************************************************************************)
EXTENDS HomeKit, Clients, Accounts, Projector, CoreStateProofs

-----------------------------------------------------------------------------
(* The camera sessions of HomeKit. *)

\* A session that acquires has been started and has no lease yet, since a
\* second start of it returns at once; a session with a lease was started.
StartsOnce ==
    \A n \in Cams :
        /\ cam[n].at \in {"acquires", "acquired"} => cam[n].started /\ ~cam[n].lease
        /\ cam[n].lease => cam[n].started

\* The coordinator holds a lease only for a session that has it, or whose start
\* is about to look whether it may keep it; the close of a session that has one
\* releases it.
LeasesAccounted ==
    \A n \in held :
        /\ cam[n].at = "acquired" \/ cam[n].lease
        /\ ~(cam[n].closed /\ cam[n].lease)

\* The lock is shown open exactly while a timer is the current one.  Only that
\* one still runs, every other was stopped or has fired, and the current one is
\* one that runs or has fired.
CurrentTimer ==
    /\ lockShown = "unsecured" <=> lockTimer # 0
    /\ armedTimers \subseteq {lockTimer} /\ armedTimers \cap firedTimers = {}
    /\ lockTimer # 0 => lockTimer \in armedTimers \cup firedTimers
    /\ armedTimers \cup firedTimers \subseteq 1 .. lockTimers

HomeKitInv == HomeKitType /\ StartsOnce /\ LeasesAccounted /\ CurrentTimer

-----------------------------------------------------------------------------
(* The hub and the event applier. *)

ApplySteps ==
    [at : {"idle", "applied", "read", "told", "payload", "writes"},
     read : Revisions, left : SUBSET Viewers]
ViewerSteps == [at : {"out", "open", "read", "ready"}, read : Revisions]
SignalSteps ==
    [at : {"out", "reads", "offering", "registered", "replies"},
     holds : CardIds \cup {NoCard}, offers : CardIds \cup {NoCard}]

\* Somebody is going to read the newest state, or has read it, for HomeKit.
TellsHomeKit(a) ==
    applying[a].at = "applied" \/ (applying[a].at = "read" /\ applying[a].read = revision)

\* The same for client c of the hub.
TellsClient(a, c) ==
    \/ applying[a].at \in {"applied", "read", "told"}
    \/ applying[a].at = "payload" /\ applying[a].read = revision
    \/ applying[a].at = "writes" /\ applying[a].read = revision /\ c \in applying[a].left

HomeKitTold == given = revision \/ \E a \in Appliers : TellsHomeKit(a)

\* A client that is being written, or is about to be written, its first state is
\* of the set and has the newest state, holds it, or somebody brings it.
ClientTold(c) ==
    viewer[c].at # "out" /\ c \notin dropped =>
        /\ c \in hub
        /\ viewer[c].at = "read" =>
              \/ revision \in {reached[c], viewer[c].read}
              \/ \E a \in Appliers : TellsClient(a, c)
        /\ viewer[c].at = "ready" =>
              reached[c] = revision \/ \E a \in Appliers : TellsClient(a, c)

\* Nobody has read, and nobody was given, a state that does not exist yet.
ReadsPast ==
    /\ given <= revision
    /\ \A a \in Appliers : applying[a].read <= revision
    /\ \A c \in Viewers : viewer[c].read <= revision /\ reached[c] <= revision

\* A session that is open is held by a socket or was registered by one whose
\* offer is not over; a socket that is not open, or in an offer, holds none.
CardsHeld ==
    /\ \A id \in cards : \E k \in Signallers :
          \/ signaller[k].holds = id
          \/ signaller[k].at = "registered" /\ signaller[k].offers = id
    /\ \A k \in Signallers :
          /\ signaller[k].at \in {"out", "offering", "registered"} => signaller[k].holds = NoCard
          /\ signaller[k].at \in {"offering", "registered"} => signaller[k].offers \in CardIds

\* The types, without those of what HomeKit and a client show now.
ToldType ==
    /\ revision \in Revisions /\ given \in Revisions
    /\ applying \in [Appliers -> ApplySteps] /\ viewer \in [Viewers -> ViewerSteps]
    /\ hub \subseteq Viewers /\ dropped \subseteq Viewers
    /\ reached \in [Viewers -> Revisions]
    /\ signaller \in [Signallers -> SignalSteps] /\ cards \subseteq CardIds

ClientsInv ==
    /\ ToldType /\ ReadsPast /\ HomeKitTold /\ \A c \in Viewers : ClientTold(c)
    /\ CardsHeld

\* What HomeKit and the clients show is overwritten by whoever writes last.  When
\* no other applier was at work as the newest event was applied, whatever an
\* applier still has in hand is the newest state.
ReadsNewest ==
    crossed = {} =>
        \A a \in Appliers : applying[a].at \in {"read", "payload", "writes"} =>
                               applying[a].read = revision

HomeKitShown ==
    crossed = {} => synced = revision \/ \E a \in Appliers : TellsHomeKit(a)

\* The same for a client whose first state was not on its way then.
ClientShown(c) ==
    crossed = {} /\ c \notin late /\ c \notin dropped =>
        /\ viewer[c].at = "read" => viewer[c].read = revision
        /\ viewer[c].at = "ready" =>
              sentTo[c] = revision \/ \E a \in Appliers : TellsClient(a, c)

ShownType ==
    /\ synced \in Revisions /\ sentTo \in [Viewers -> Revisions]
    /\ crossed \subseteq Appliers /\ late \subseteq Viewers

ShownInv == ShownType /\ ReadsNewest /\ HomeKitShown /\ \A c \in Viewers : ClientShown(c)

-----------------------------------------------------------------------------
(* The accounts. *)

\* No configuration that is loaded, on the disk or could come back after a power
\* loss has an owner and still waits for its setup.
OwnedIsSetUp ==
    \A c \in {cfg, disk} \cup unsynced : c.owner # 0 => c.pairing # "setup_required"

\* A request that is going to save a password without a setup was routed there
\* after the setup.
SavesAfterSetup ==
    \A q \in AccountRequests :
        handling[q].at = "save" \/ (handling[q].at = "checked" /\ ~handling[q].bootstrap) =>
            cfg.pairing # "setup_required"

AccountInv == AccountType /\ AckedSurvives /\ OwnedIsSetUp /\ SavesAfterSetup
-----------------------------------------------------------------------------
(* Proofs for HomeKit. *)

\* The state after HomeKitInit: nobody streams and the lock is secured.
LEMMA HomeKitInitInv == HomeKitInit => HomeKitInv
<1> SUFFICES ASSUME HomeKitInit PROVE HomeKitInv
  OBVIOUS
<1>1. \A n \in Cams : cam[n] = NewCam  BY DEF HomeKitInit
<1>2. HomeKitType
  BY HomeKitAssumption DEF HomeKitInit, HomeKitType, NewCam
<1>3. StartsOnce  BY <1>1 DEF StartsOnce, NewCam
<1>4. LeasesAccounted  BY DEF HomeKitInit, LeasesAccounted
<1>5. CurrentTimer  BY HomeKitAssumption DEF HomeKitInit, CurrentTimer
<1> QED  BY <1>2, <1>3, <1>4, <1>5 DEF HomeKitInv

\* The bounds are numbers, and nobody is a camera session's number too.
LEMMA HomeKitBounds ==
    /\ MaxCameraSessions \in Nat /\ MaxUnlocks \in Nat
    /\ 0 \in 0 .. MaxCameraSessions /\ Cams \subseteq 1 .. MaxCameraSessions
<1>1. MaxCameraSessions \in Nat /\ MaxUnlocks \in Nat  BY HomeKitAssumption
<1> QED  BY <1>1 DEF Cams

\* What holds of one camera session (cameraSession in camera.go).
CamStages == {"none", "command", "acquires", "acquired", "shows"}
CamFits(s, leased) ==
    /\ s.at \in CamStages
    /\ s.started \in BOOLEAN /\ s.lease \in BOOLEAN /\ s.closed \in BOOLEAN
    /\ s.at \in {"acquires", "acquired"} => s.started /\ ~s.lease
    /\ s.lease => s.started
    /\ leased => (s.at = "acquired" \/ s.lease) /\ ~(s.closed /\ s.lease)

\* The lock's part of the invariant does not look at the camera's, so a step of
\* the camera that keeps every session fit keeps the invariant.
LEMMA CameraMoves ==
    ASSUME HomeKitInv, UNCHANGED lockVars,
           NEW n \in Cams, NEW s, s \in [at : CamStages, started : BOOLEAN,
                                         lease : BOOLEAN, closed : BOOLEAN],
           cam' = [cam EXCEPT ![n] = s],
           held' \subseteq held \cup {n}, CamFits(s, n \in held'),
           camActive' \in 0 .. MaxCameraSessions, camSessions' = camSessions,
           camClosing' \subseteq Cams, streaming' \in {"available", "in use"}
    PROVE  HomeKitInv'
<1>1. HomeKitType'
  BY DEF HomeKitInv, HomeKitType, lockVars, CamStages
<1>2. /\ cam'[n] = s /\ \A m \in Cams \ {n} : cam'[m] = cam[m] /\ (m \in held' => m \in held)
  BY DEF HomeKitInv, HomeKitType
<1>3. StartsOnce'  BY <1>2 DEF HomeKitInv, StartsOnce, CamFits
<1>4. LeasesAccounted'
  <2> SUFFICES ASSUME NEW m \in held'
               PROVE /\ cam'[m].at = "acquired" \/ cam'[m].lease
                     /\ ~(cam'[m].closed /\ cam'[m].lease)
    BY DEF LeasesAccounted
  <2>1. CASE m = n  BY <1>2, <2>1 DEF CamFits
  <2>2. CASE m # n
    BY <1>1, <1>2, <2>2 DEF HomeKitInv, LeasesAccounted, HomeKitType
  <2> QED  BY <2>1, <2>2
<1>5. CurrentTimer'  BY DEF HomeKitInv, CurrentTimer, lockVars
<1> QED  BY <1>1, <1>3, <1>4, <1>5 DEF HomeKitInv

\* What is known of session n before a step.
LEMMA CamFacts ==
    ASSUME HomeKitInv, NEW n \in Cams
    PROVE  /\ cam[n] \in [at : CamStages, started : BOOLEAN, lease : BOOLEAN, closed : BOOLEAN]
           /\ CamFits(cam[n], n \in held)
           /\ cam = [cam EXCEPT ![n] = cam[n]]
           /\ camActive \in 0 .. MaxCameraSessions /\ camClosing \subseteq Cams
           /\ streaming \in {"available", "in use"} /\ held \subseteq Cams
<1>1. /\ cam \in [Cams -> [at : CamStages, started : BOOLEAN, lease : BOOLEAN, closed : BOOLEAN]]
      /\ camActive \in 0 .. MaxCameraSessions /\ camClosing \subseteq Cams
      /\ streaming \in {"available", "in use"} /\ held \subseteq Cams
  BY DEF HomeKitInv, HomeKitType, CamStages
<1>2. cam[n] \in [at : CamStages, started : BOOLEAN, lease : BOOLEAN, closed : BOOLEAN]
  BY <1>1
<1>3. CamFits(cam[n], n \in held)
  BY <1>2 DEF CamFits, HomeKitInv, StartsOnce, LeasesAccounted
<1> QED  BY <1>1, <1>2, <1>3
\* The start of a camera session, from its command to the status shown
\* (cameraSessionManager.handleCommand and start).
LEMMA CameraStarts ==
    ASSUME HomeKitInv, NEW n \in Cams,
           \/ StartCommand(n) \/ StartBegins(n) \/ AcquireReturns(n)
           \/ StartReturns(n) \/ StreamingShown(n)
    PROVE  HomeKitInv'
<1> DEFINE s == cam[n]
<1>1. /\ s \in [at : CamStages, started : BOOLEAN, lease : BOOLEAN, closed : BOOLEAN]
      /\ CamFits(s, n \in held) /\ n \in Cams
      /\ camActive \in 0 .. MaxCameraSessions /\ camClosing \subseteq Cams
      /\ streaming \in {"available", "in use"} /\ held \subseteq Cams
  BY CamFacts
<1>0. cam \in [Cams -> [at : CamStages, started : BOOLEAN, lease : BOOLEAN, closed : BOOLEAN]]
  BY DEF HomeKitInv, HomeKitType, CamStages
<1>2. CASE StartCommand(n)
  <2> DEFINE r == [s EXCEPT !.at = "command"]
  <2>1. cam' = [cam EXCEPT ![n] = r]  BY <1>0, <1>2 DEF StartCommand
  <2>2. /\ r \in [at : CamStages, started : BOOLEAN, lease : BOOLEAN, closed : BOOLEAN]
        /\ CamFits(r, n \in held)
    BY <1>1, <1>2 DEF StartCommand, CamFits, CamStages
  <2>3. UNCHANGED <<camActive, camSessions, camClosing, held, streaming, lockVars>>
    BY <1>2 DEF StartCommand
  <2> QED  BY <1>1, <2>1, <2>2, <2>3, CameraMoves
<1>3. CASE StartBegins(n)
  <2> DEFINE go == camActive = n /\ ~s.closed /\ ~s.started
             r == [s EXCEPT !.at = IF go THEN "acquires" ELSE "none",
                            !.started = @ \/ (camActive = n /\ ~s.closed)]
  <2>1. cam' = [cam EXCEPT ![n] = r]  BY <1>0, <1>3 DEF StartBegins
  <2>2. /\ r.at = IF go THEN "acquires" ELSE "none"
        /\ r.started = (s.started \/ (camActive = n /\ ~s.closed))
        /\ r.lease = s.lease /\ r.closed = s.closed
        /\ r \in [at : CamStages, started : BOOLEAN, lease : BOOLEAN, closed : BOOLEAN]
    BY <1>1 DEF CamStages
  <2>3. CamFits(r, n \in held)
    BY <1>1, <1>3, <2>2 DEF CamFits, StartBegins
  <2>4. UNCHANGED <<camActive, camSessions, camClosing, held, streaming, lockVars>>
    BY <1>3 DEF StartBegins
  <2> QED  BY <1>1, <2>1, <2>2, <2>3, <2>4, CameraMoves
<1>4. CASE AcquireReturns(n)
  <2>1. UNCHANGED <<camSessions, streaming, lockVars>> /\ s.at = "acquires"
    BY <1>4 DEF AcquireReturns
  <2>2. CASE /\ cam' = [cam EXCEPT ![n].at = "acquired"] /\ held' = held \cup {n}
             /\ UNCHANGED <<camActive, camClosing>>
    <3> DEFINE r == [s EXCEPT !.at = "acquired"]
    <3>1. cam' = [cam EXCEPT ![n] = r]  BY <1>0, <2>2
    <3>2. /\ r \in [at : CamStages, started : BOOLEAN, lease : BOOLEAN, closed : BOOLEAN]
          /\ CamFits(r, n \in held')
      BY <1>1, <2>1 DEF CamFits, CamStages
    <3> QED  BY <1>1, <2>1, <2>2, <3>1, <3>2, CameraMoves
  <2>3. CASE /\ cam' = [cam EXCEPT ![n].at = "none"] /\ Clears(n)
             /\ UNCHANGED held
    <3> DEFINE r == [s EXCEPT !.at = "none"]
    <3>1. cam' = [cam EXCEPT ![n] = r]  BY <1>0, <2>3
    <3>2. /\ r \in [at : CamStages, started : BOOLEAN, lease : BOOLEAN, closed : BOOLEAN]
          /\ CamFits(r, n \in held')
      BY <1>1, <2>1, <2>3 DEF CamFits, CamStages
    <3>3. camActive' \in 0 .. MaxCameraSessions /\ camClosing' \subseteq Cams
      BY <1>1, <2>3, HomeKitBounds DEF Clears
    <3> QED  BY <1>1, <2>1, <2>3, <3>1, <3>2, <3>3, CameraMoves
  <2> QED  BY <1>4, <2>2, <2>3 DEF AcquireReturns
<1>5. CASE StartReturns(n)
  <2>1. UNCHANGED <<camActive, camSessions, camClosing, streaming, lockVars>> /\ s.at = "acquired"
    BY <1>5 DEF StartReturns
  <2>2. CASE StillActive(n)
    <3>0. ~s.closed /\ held' = held /\ cam' = [cam EXCEPT ![n].at = "shows", ![n].lease = TRUE]
      BY <1>5, <2>2 DEF StartReturns, StillActive
    <3>1. ASSUME NEW t \in BOOLEAN, t
          PROVE  LET r == [s EXCEPT !.at = "shows", !.lease = t] IN
                 /\ r \in [at : CamStages, started : BOOLEAN, lease : BOOLEAN, closed : BOOLEAN]
                 /\ CamFits(r, n \in held)
      BY <1>1, <2>1, <3>0, <3>1 DEF CamFits, CamStages
    <3> DEFINE r == [s EXCEPT !.at = "shows", !.lease = TRUE]
    <3>2. cam' = [cam EXCEPT ![n] = r]  BY <1>0, <3>0
    <3>3. /\ r \in [at : CamStages, started : BOOLEAN, lease : BOOLEAN, closed : BOOLEAN]
          /\ CamFits(r, n \in held)
      BY <3>1
    <3> HIDE DEF r
    <3> QED  BY <1>1, <2>1, <3>0, <3>2, <3>3, CameraMoves
  <2>3. CASE ~StillActive(n)
    <3> DEFINE r == [s EXCEPT !.at = "none"]
    <3>0. held' = held \ {n} /\ cam' = [cam EXCEPT ![n].at = "none"]
      BY <1>5, <2>3 DEF StartReturns
    <3>1. cam' = [cam EXCEPT ![n] = r]  BY <1>0, <3>0
    <3>2. /\ r \in [at : CamStages, started : BOOLEAN, lease : BOOLEAN, closed : BOOLEAN]
          /\ CamFits(r, n \in held')
      BY <1>1, <3>0 DEF CamFits, CamStages
    <3> QED  BY <1>1, <2>1, <3>0, <3>1, <3>2, CameraMoves
  <2> QED  BY <2>2, <2>3
<1>6. CASE StreamingShown(n)
  <2> DEFINE r == [s EXCEPT !.at = "none"]
  <2>1. cam' = [cam EXCEPT ![n] = r] /\ s.at = "shows"  BY <1>0, <1>6 DEF StreamingShown
  <2>2. /\ r \in [at : CamStages, started : BOOLEAN, lease : BOOLEAN, closed : BOOLEAN]
        /\ CamFits(r, n \in held)
    BY <1>1, <2>1 DEF CamFits, CamStages
  <2>3. /\ UNCHANGED <<camActive, camSessions, camClosing, held, lockVars>>
        /\ streaming' = "in use"
    BY <1>6 DEF StreamingShown
  <2> QED  BY <1>1, <2>1, <2>2, <2>3, CameraMoves
<1> QED  BY <1>2, <1>3, <1>4, <1>5, <1>6

\* What ends a camera session or takes its place (setupEndpoints, clearSession,
\* closeSession, RemoteBYE and Failed).
LEMMA CameraEnds ==
    ASSUME HomeKitInv,
           SetupEndpoints \/ \E n \in Cams : EndCommand(n) \/ CameraLost(n) \/ CloseCamera(n)
    PROVE  HomeKitInv'
<1>1. CASE SetupEndpoints
  <2>1. /\ camSessions' \in 0 .. MaxCameraSessions /\ camActive' \in 0 .. MaxCameraSessions
        /\ camClosing' \subseteq Cams
    <3>1. /\ camSessions \in 0 .. MaxCameraSessions /\ camActive \in 0 .. MaxCameraSessions
          /\ camClosing \subseteq Cams
      BY DEF HomeKitInv, HomeKitType
    <3>2. /\ camSessions < MaxCameraSessions
          /\ camSessions' = camSessions + 1 /\ camActive' = camSessions + 1
          /\ camClosing' \subseteq camClosing \cup ({camActive} \ {0}) \cup {camSessions + 1}
      BY <1>1 DEF SetupEndpoints
    <3>3. camSessions + 1 \in 1 .. MaxCameraSessions  BY <3>1, <3>2, HomeKitBounds
    <3>4. camSessions + 1 \in Cams /\ ({camActive} \ {0}) \subseteq Cams
      BY <3>1, <3>3, HomeKitBounds DEF Cams
    <3> QED  BY <3>1, <3>2, <3>3, <3>4, HomeKitBounds
  <2>2. UNCHANGED <<cam, held, streaming, lockVars>>  BY <1>1 DEF SetupEndpoints
  <2> QED
    BY <2>1, <2>2 DEF HomeKitInv, HomeKitType, StartsOnce, LeasesAccounted, CurrentTimer, lockVars
<1>2. ASSUME NEW n \in Cams, EndCommand(n) \/ CameraLost(n) PROVE HomeKitInv'
  <2> DEFINE s == cam[n]
  <2>1. /\ s \in [at : CamStages, started : BOOLEAN, lease : BOOLEAN, closed : BOOLEAN]
        /\ CamFits(s, n \in held) /\ n \in Cams /\ cam = [cam EXCEPT ![n] = s]
        /\ camActive \in 0 .. MaxCameraSessions /\ camClosing \subseteq Cams
        /\ streaming \in {"available", "in use"} /\ held \subseteq Cams
    BY CamFacts
  <2>2. UNCHANGED <<cam, camSessions, streaming, lockVars>> /\ Clears(n)
    BY <1>2 DEF EndCommand, CameraLost
  <2>3. camActive' \in 0 .. MaxCameraSessions /\ camClosing' \subseteq Cams
    BY <2>1, <2>2, HomeKitBounds DEF Clears
  <2>4. held' \subseteq held  BY <1>2 DEF EndCommand, CameraLost
  <2>5. CamFits(s, n \in held')  BY <2>1, <2>4 DEF CamFits
  <2>6. cam' = [cam EXCEPT ![n] = s]  BY <2>1, <2>2
  <2> QED  BY <2>1, <2>2, <2>3, <2>4, <2>5, <2>6, CameraMoves
<1>3. ASSUME NEW n \in Cams, CloseCamera(n) PROVE HomeKitInv'
  <2> DEFINE s == cam[n]
  <2>1. /\ s \in [at : CamStages, started : BOOLEAN, lease : BOOLEAN, closed : BOOLEAN]
        /\ CamFits(s, n \in held) /\ n \in Cams /\ cam = [cam EXCEPT ![n] = s]
        /\ camActive \in 0 .. MaxCameraSessions /\ camClosing \subseteq Cams
        /\ streaming \in {"available", "in use"} /\ held \subseteq Cams
    BY CamFacts
  <2>0. cam \in [Cams -> [at : CamStages, started : BOOLEAN, lease : BOOLEAN, closed : BOOLEAN]]
    BY DEF HomeKitInv, HomeKitType, CamStages
  <2>2. UNCHANGED <<camActive, camSessions, lockVars>> /\ camClosing' \subseteq Cams
    BY <1>3, <2>1 DEF CloseCamera
  <2>3. CASE s.closed
    <3>1. UNCHANGED <<cam, held, streaming>>  BY <1>3, <2>3 DEF CloseCamera
    <3>2. cam' = [cam EXCEPT ![n] = s] /\ CamFits(s, n \in held')  BY <2>1, <3>1
    <3> QED  BY <2>1, <2>2, <3>1, <3>2, CameraMoves
  <2>4. CASE ~s.closed
    <3>0. /\ cam' = [cam EXCEPT ![n].closed = TRUE] /\ streaming' = "available"
          /\ held' = IF s.lease THEN held \ {n} ELSE held
      BY <1>3, <2>4 DEF CloseCamera
    <3>1. ASSUME NEW t \in BOOLEAN, t
          PROVE  LET r == [s EXCEPT !.closed = t] IN
                 /\ r \in [at : CamStages, started : BOOLEAN, lease : BOOLEAN, closed : BOOLEAN]
                 /\ CamFits(r, n \in held')
      BY <2>1, <3>0, <3>1 DEF CamFits, CamStages
    <3> DEFINE r == [s EXCEPT !.closed = TRUE]
    <3>2. cam' = [cam EXCEPT ![n] = r]  BY <2>0, <3>0
    <3>3. /\ r \in [at : CamStages, started : BOOLEAN, lease : BOOLEAN, closed : BOOLEAN]
          /\ CamFits(r, n \in held')
      BY <3>1
    <3>4. held' \subseteq held \cup {n}  BY <3>0
    <3> HIDE DEF r
    <3> QED  BY <2>1, <2>2, <3>0, <3>2, <3>3, <3>4, CameraMoves
  <2> QED  BY <2>3, <2>4
<1> QED  BY <1>1, <1>2, <1>3

\* The lock's part of the invariant.
LockFits ==
    /\ lockTimer \in 0 .. MaxUnlocks /\ lockTimers \in 0 .. MaxUnlocks
    /\ armedTimers \subseteq 1 .. MaxUnlocks /\ firedTimers \subseteq 1 .. MaxUnlocks
    /\ lockShown \in {"secured", "unsecured"} /\ CurrentTimer

\* The lock: an unlock is shown, a timer fires, its callback gets the mutex
\* (markUnlocking).
LEMMA LockStep ==
    ASSUME HomeKitInv,
           MarkUnlocking \/ \E t \in 1 .. MaxUnlocks : TimerFires(t) \/ SecuresAgain(t)
    PROVE  HomeKitInv'
<1>1. LockFits  BY DEF HomeKitInv, HomeKitType, LockFits
<1>2. UNCHANGED camVars  BY DEF MarkUnlocking, TimerFires, SecuresAgain
<1>3. LockFits'
  <2>1. CASE MarkUnlocking
    BY <1>1, <2>1, HomeKitAssumption DEF MarkUnlocking, LockFits, CurrentTimer
  <2>2. ASSUME NEW t \in 1 .. MaxUnlocks, TimerFires(t) PROVE LockFits'
    BY <1>1, <2>2, HomeKitAssumption DEF TimerFires, LockFits, CurrentTimer
  <2>3. ASSUME NEW t \in 1 .. MaxUnlocks, SecuresAgain(t) PROVE LockFits'
    BY <1>1, <2>3, HomeKitAssumption DEF SecuresAgain, IsCurrentTimer, LockFits, CurrentTimer
  <2> QED  BY <2>1, <2>2, <2>3
<1> QED
  BY <1>2, <1>3
     DEF LockFits, HomeKitInv, HomeKitType, StartsOnce, LeasesAccounted, camVars

\* A camera session that was closed keeps no stream, whoever closed it and
\* wherever its start was, and the lock is shown open for the whole time of the
\* last unlock and secured once no timer is left (camera.go: start,
\* closeSession; lifecycle.go: markUnlocking): for every number of sessions and
\* unlocks.
THEOREM HomeKitKeepsItsWord ==
    HomeKitSpec => [](HomeKitType /\ CameraLeaseReleased /\ LockFollowsLastUnlock)
<1>1. HomeKitInv /\ [HomeKitNext]_homeKitVars => HomeKitInv'
  <2> SUFFICES ASSUME HomeKitInv, [HomeKitNext]_homeKitVars PROVE HomeKitInv'
    OBVIOUS
  <2>1. CASE UNCHANGED homeKitVars
    BY <2>1 DEF homeKitVars, camVars, lockVars, HomeKitInv, HomeKitType, StartsOnce,
                LeasesAccounted, CurrentTimer
  <2> QED  BY <2>1, CameraStarts, CameraEnds, LockStep DEF HomeKitNext
<1>2. HomeKitInv => HomeKitType /\ CameraLeaseReleased
  BY DEF HomeKitInv, LeasesAccounted, CameraLeaseReleased
<1>3. HomeKitInv => LockFollowsLastUnlock
  <2> SUFFICES ASSUME HomeKitInv PROVE LockFollowsLastUnlock
    OBVIOUS
  <2>1. LockFits  BY DEF HomeKitInv, HomeKitType, LockFits
  <2>2. 0 \notin armedTimers  BY <2>1, HomeKitBounds DEF LockFits
  <2> QED  BY <2>1, <2>2 DEF LockFits, CurrentTimer, LockFollowsLastUnlock
<1> QED  BY <1>1, <1>2, <1>3, HomeKitInitInv, PTL DEF HomeKitSpec
-----------------------------------------------------------------------------
(* Proofs for the hub and the signalling sockets. *)

\* The types, one by one.
LEMMA ClientsFacts ==
    ASSUME ClientsInv
    PROVE  /\ applying \in [Appliers -> ApplySteps] /\ viewer \in [Viewers -> ViewerSteps]
           /\ reached \in [Viewers -> Revisions] /\ hub \subseteq Viewers
           /\ dropped \subseteq Viewers /\ revision \in Revisions /\ given \in Revisions
           /\ signaller \in [Signallers -> SignalSteps] /\ cards \subseteq CardIds
BY DEF ClientsInv, ToldType, ApplySteps, ViewerSteps, SignalSteps

\* Revisions are numbers.
LEMMA RevisionsAreNumbers == MaxRevisions \in Nat /\ Revisions \subseteq Nat /\ 0 \in Revisions
BY ClientsAssumption DEF Revisions

\* The state after ClientsInit: everybody has the state the projector starts from.
LEMMA ClientsInitInv == ClientsInit => ClientsInv
<1> SUFFICES ASSUME ClientsInit PROVE ClientsInv
  OBVIOUS
<1>1. ToldType
  <2>1. NoApply \in ApplySteps /\ NoViewer \in ViewerSteps /\ NoSignaller \in SignalSteps
    BY RevisionsAreNumbers
       DEF NoApply, NoViewer, NoSignaller, ApplySteps, ViewerSteps, SignalSteps
  <2> QED
    BY <2>1, RevisionsAreNumbers
       DEF ClientsInit, ToldType, ApplySteps, ViewerSteps, SignalSteps
<1>2. ReadsPast
  BY RevisionsAreNumbers DEF ClientsInit, ReadsPast, NoApply, NoViewer
<1>3. HomeKitTold /\ \A c \in Viewers : ClientTold(c)
  BY DEF ClientsInit, HomeKitTold, ClientTold, NoViewer
<1>4. CardsHeld
  BY DEF ClientsInit, CardsHeld, NoSignaller
<1> QED  BY <1>1, <1>2, <1>3, <1>4 DEF ClientsInv

\* A step of one applier that leaves the projector's state alone keeps the
\* invariant when nothing it had in hand, for HomeKit or for a client, is lost:
\* it still has it, or it gave it, or the client is gone.
LEMMA ApplierMoves ==
    ASSUME ClientsInv, NEW a \in Appliers, NEW r \in ApplySteps,
           applying' = [applying EXCEPT ![a] = r], r.read <= revision,
           UNCHANGED <<revision, viewer, signalVars>>,
           given' \in Revisions, given <= given', given' <= revision,
           TellsHomeKit(a) => given' = revision \/ TellsHomeKit(a)',
           hub' \subseteq Viewers, dropped \subseteq dropped', dropped' \subseteq Viewers,
           reached' \in [Viewers -> Revisions],
           \A c \in Viewers : reached[c] <= reached'[c] /\ reached'[c] <= revision,
           \A c \in Viewers : viewer[c].at # "out" /\ c \notin dropped' =>
               /\ c \in hub => c \in hub'
               /\ TellsClient(a, c) => reached'[c] = revision \/ TellsClient(a, c)'
    PROVE  ClientsInv'
<1>1. /\ applying \in [Appliers -> ApplySteps] /\ viewer \in [Viewers -> ViewerSteps]
      /\ reached \in [Viewers -> Revisions] /\ revision \in Revisions /\ given \in Revisions
  BY ClientsFacts
<1>2. /\ applying' \in [Appliers -> ApplySteps] /\ applying'[a] = r
      /\ \A b \in Appliers \ {a} : applying'[b] = applying[b]
  BY <1>1
<1>3. ToldType'
  BY <1>2, ClientsFacts
     DEF ClientsInv, ToldType, ApplySteps, ViewerSteps, SignalSteps, signalVars
<1>4. ReadsPast'
  <2>1. \A b \in Appliers : applying'[b].read <= revision'
    BY <1>2 DEF ClientsInv, ReadsPast
  <2>2. \A c \in Viewers : viewer'[c].read <= revision' /\ reached'[c] <= revision'
    BY DEF ClientsInv, ReadsPast
  <2> QED  BY <2>1, <2>2 DEF ReadsPast
<1>5. \A b \in Appliers \ {a} : /\ TellsHomeKit(b) => TellsHomeKit(b)'
                                /\ \A c \in Viewers : TellsClient(b, c) => TellsClient(b, c)'
  BY <1>2 DEF TellsHomeKit, TellsClient
<1>6. HomeKitTold'
  <2>1. CASE given = revision
    BY <1>1, <2>1, RevisionsAreNumbers DEF HomeKitTold
  <2>2. CASE \E b \in Appliers : TellsHomeKit(b)
    BY <1>5, <2>2 DEF HomeKitTold
  <2> QED  BY <2>1, <2>2 DEF ClientsInv, HomeKitTold
<1>7. ASSUME NEW c \in Viewers PROVE ClientTold(c)'
  <2> SUFFICES ASSUME viewer[c].at # "out", c \notin dropped'
               PROVE  /\ c \in hub'
                      /\ viewer[c].at = "read" =>
                            \/ revision \in {reached'[c], viewer[c].read}
                            \/ \E b \in Appliers : TellsClient(b, c)'
                      /\ viewer[c].at = "ready" =>
                            reached'[c] = revision \/ \E b \in Appliers : TellsClient(b, c)'
    BY DEF ClientTold
  <2>1. c \notin dropped /\ ClientTold(c)  BY DEF ClientsInv
  <2>2. c \in hub'  BY <2>1 DEF ClientTold
  <2>3. (\E b \in Appliers : TellsClient(b, c)) =>
           reached'[c] = revision \/ \E b \in Appliers : TellsClient(b, c)'
    BY <1>5
  <2>4. reached[c] = revision => reached'[c] = revision
    <3>1. /\ reached[c] \in Nat /\ reached'[c] \in Nat /\ revision \in Nat
          /\ reached[c] <= reached'[c] /\ reached'[c] <= revision
      BY <1>1, RevisionsAreNumbers
    <3> QED  BY <3>1
  <2> QED  BY <2>1, <2>2, <2>3, <2>4 DEF ClientTold
<1>8. CardsHeld'  BY DEF ClientsInv, CardsHeld, signalVars
<1> QED  BY <1>3, <1>4, <1>6, <1>7, <1>8 DEF ClientsInv
\* projector.Apply: the applier that changed the state is the one that tells
\* everybody.
LEMMA ApplyStep ==
    ASSUME ClientsInv, NEW a \in Appliers, ApplierApplies(a)
    PROVE  ClientsInv'
<1> DEFINE r == [applying[a] EXCEPT !.at = "applied"]
<1>1. /\ applying \in [Appliers -> ApplySteps] /\ viewer \in [Viewers -> ViewerSteps]
      /\ reached \in [Viewers -> Revisions] /\ revision \in Revisions /\ given \in Revisions
  BY ClientsFacts
<1>2. /\ revision' = revision + 1 /\ revision < MaxRevisions
      /\ applying' = [applying EXCEPT ![a] = r]
      /\ UNCHANGED <<given, hub, viewer, dropped, reached, signalVars>>
  BY <1>1 DEF ApplierApplies
<1>3. r \in ApplySteps /\ r.at = "applied" /\ r.read = applying[a].read
  BY <1>1 DEF ApplySteps
<1>4. /\ applying' \in [Appliers -> ApplySteps] /\ applying'[a] = r
      /\ \A b \in Appliers \ {a} : applying'[b] = applying[b]
  BY <1>1, <1>2, <1>3
<1>5. /\ revision \in Nat /\ revision' \in Revisions
  BY <1>1, <1>2, RevisionsAreNumbers DEF Revisions
<1>6. ToldType'
  BY <1>2, <1>4, <1>5, ClientsFacts
     DEF ClientsInv, ToldType, ApplySteps, ViewerSteps, SignalSteps, signalVars
<1>7. ReadsPast'
  <2>1. ASSUME NEW b \in Appliers PROVE applying'[b].read <= revision'
    <3>1. applying'[b].read = applying[b].read  BY <1>3, <1>4
    <3>2. applying[b].read \in Nat /\ applying[b].read <= revision
      BY <1>1, RevisionsAreNumbers DEF ClientsInv, ReadsPast, ApplySteps
    <3> QED  BY <1>2, <1>5, <3>1, <3>2
  <2>2. ASSUME NEW c \in Viewers PROVE viewer'[c].read <= revision' /\ reached'[c] <= revision'
    <3>1. /\ viewer[c].read \in Nat /\ reached[c] \in Nat
          /\ viewer[c].read <= revision /\ reached[c] <= revision
      BY <1>1, RevisionsAreNumbers DEF ClientsInv, ReadsPast, ViewerSteps
    <3> QED  BY <1>2, <1>5, <3>1
  <2>3. given' <= revision'
    <3>1. given \in Nat /\ given <= revision
      BY <1>1, RevisionsAreNumbers DEF ClientsInv, ReadsPast
    <3> QED  BY <1>2, <1>5, <3>1
  <2> QED  BY <2>1, <2>2, <2>3 DEF ReadsPast
<1>8. TellsHomeKit(a)' /\ \A c \in Viewers : TellsClient(a, c)'
  BY <1>3, <1>4 DEF TellsHomeKit, TellsClient
<1>9. HomeKitTold'  BY <1>8 DEF HomeKitTold
<1>10. \A c \in Viewers : ClientTold(c)'
  BY <1>2, <1>8 DEF ClientsInv, ClientTold
<1>11. CardsHeld'  BY <1>2 DEF ClientsInv, CardsHeld, signalVars
<1> QED  BY <1>6, <1>7, <1>9, <1>10, <1>11 DEF ClientsInv

\* The steps of an applier from its Apply to the list of the clients, and its
\* return: what it reads is the newest state (Sync and BroadcastState).
LEMMA ApplierReads ==
    ASSUME ClientsInv, NEW a \in Appliers,
           \/ SnapshotForHomeKit(a) \/ SyncHomeKit(a) \/ BroadcastState(a)
           \/ ListClients(a) \/ ApplyReturns(a)
    PROVE  ClientsInv'
<1> DEFINE s == applying[a]
<1>1. /\ applying \in [Appliers -> ApplySteps] /\ viewer \in [Viewers -> ViewerSteps]
      /\ reached \in [Viewers -> Revisions] /\ revision \in Revisions /\ given \in Revisions
      /\ hub \subseteq Viewers /\ dropped \subseteq Viewers /\ s \in ApplySteps
  BY ClientsFacts
<1>2. /\ s.read \in Nat /\ given \in Nat /\ revision \in Nat
      /\ s.read <= revision /\ given <= revision
      /\ given <= given /\ revision <= revision
      /\ \A c \in Viewers : reached[c] <= reached[c] /\ reached[c] <= revision
  <2>1. \A c \in Viewers : reached[c] \in Nat  BY <1>1, RevisionsAreNumbers
  <2>2. s.read \in Revisions  BY <1>1 DEF ApplySteps
  <2>3. ReadsPast  BY DEF ClientsInv
  <2>4. s.read \in Nat /\ given \in Nat /\ revision \in Nat
    BY <1>1, <2>2, RevisionsAreNumbers
  <2> QED  BY <2>1, <2>3, <2>4 DEF ReadsPast
<1>3. ASSUME NEW r \in ApplySteps, applying' = [applying EXCEPT ![a] = r], r.read <= revision,
             UNCHANGED <<revision, given, hub, viewer, dropped, reached, signalVars>>,
             TellsHomeKit(a) => r.at = "applied" \/ (r.at = "read" /\ r.read = revision),
             \A c \in Viewers : viewer[c].at # "out" /\ c \notin dropped /\ TellsClient(a, c) =>
               \/ r.at \in {"applied", "read", "told"}
               \/ r.at = "payload" /\ r.read = revision
               \/ r.at = "writes" /\ r.read = revision /\ c \in r.left
      PROVE  ClientsInv'
  <2>1. applying'[a] = r  BY <1>1, <1>3
  <2>2. TellsHomeKit(a) => TellsHomeKit(a)'  BY <1>3, <2>1 DEF TellsHomeKit
  <2>3. \A c \in Viewers : viewer[c].at # "out" /\ c \notin dropped' =>
            (TellsClient(a, c) => TellsClient(a, c)')
    BY <1>3, <2>1 DEF TellsClient
  <2> QED  BY <1>1, <1>2, <1>3, <2>2, <2>3, ApplierMoves
<1>4. CASE SnapshotForHomeKit(a)
  <2> DEFINE r == [s EXCEPT !.at = "read", !.read = revision]
  <2>1. r \in ApplySteps /\ r.at = "read" /\ r.read = revision  BY <1>1 DEF ApplySteps
  <2>2. /\ applying' = [applying EXCEPT ![a] = r]
        /\ UNCHANGED <<revision, given, hub, viewer, dropped, reached, signalVars>>
    BY <1>1, <1>4 DEF tellVars, SnapshotForHomeKit
  <2> HIDE DEF r
  <2> QED  BY <1>2, <1>3, <2>1, <2>2
<1>5. CASE SyncHomeKit(a)
  <2> DEFINE r == [s EXCEPT !.at = "told"]
  <2>1. r \in ApplySteps /\ r.at = "told" /\ r.read = s.read  BY <1>1 DEF ApplySteps
  <2>2. /\ applying' = [applying EXCEPT ![a] = r] /\ s.at = "read"
        /\ UNCHANGED <<revision, hub, viewer, dropped, reached, signalVars>>
        /\ given' = Newest(given, s.read)
    BY <1>1, <1>5 DEF SyncHomeKit
  <2>3. /\ given' \in Revisions /\ given <= given' /\ given' <= revision
        /\ s.read = revision => given' = revision
    BY <1>1, <1>2, <2>2 DEF Newest, ApplySteps
  <2>4. applying'[a] = r  BY <1>1, <2>2
  <2>5. TellsHomeKit(a) => given' = revision  BY <2>2, <2>3 DEF TellsHomeKit
  <2>6. \A c \in Viewers : TellsClient(a, c)'  BY <2>1, <2>4 DEF TellsClient
  <2> HIDE DEF r
  <2> QED  BY <1>1, <1>2, <2>1, <2>2, <2>3, <2>5, <2>6, ApplierMoves
<1>6. CASE BroadcastState(a)
  <2> DEFINE r == [s EXCEPT !.at = "payload", !.read = revision]
  <2>1. r \in ApplySteps /\ r.at = "payload" /\ r.read = revision  BY <1>1 DEF ApplySteps
  <2>2. /\ applying' = [applying EXCEPT ![a] = r] /\ s.at = "told"
        /\ UNCHANGED <<revision, given, hub, viewer, dropped, reached, signalVars>>
    BY <1>1, <1>6 DEF tellVars, BroadcastState
  <2>3. ~TellsHomeKit(a)  BY <2>2 DEF TellsHomeKit
  <2> HIDE DEF r
  <2> QED  BY <1>2, <1>3, <2>1, <2>2, <2>3
<1>7. CASE ListClients(a)
  <2> DEFINE r == [s EXCEPT !.at = "writes", !.left = hub]
  <2>1. r \in ApplySteps /\ r.at = "writes" /\ r.read = s.read /\ r.left = hub
    BY <1>1 DEF ApplySteps
  <2>2. /\ applying' = [applying EXCEPT ![a] = r] /\ s.at = "payload"
        /\ UNCHANGED <<revision, given, hub, viewer, dropped, reached, signalVars>>
    BY <1>1, <1>7 DEF tellVars, ListClients
  <2>3. ~TellsHomeKit(a)  BY <2>2 DEF TellsHomeKit
  <2>4. \A c \in Viewers : viewer[c].at # "out" /\ c \notin dropped /\ TellsClient(a, c) =>
            s.read = revision /\ c \in hub
    BY <2>2 DEF TellsClient, ClientsInv, ClientTold
  <2> HIDE DEF r
  <2> QED  BY <1>2, <1>3, <2>1, <2>2, <2>3, <2>4
<1>8. CASE ApplyReturns(a)
  <2>1. /\ applying' = [applying EXCEPT ![a] = NoApply] /\ s.at = "writes" /\ s.left = {}
        /\ UNCHANGED <<revision, given, hub, viewer, dropped, reached, signalVars>>
    BY <1>8 DEF tellVars, ApplyReturns
  <2>2. NoApply \in ApplySteps /\ NoApply.read <= revision
    BY <1>2, RevisionsAreNumbers DEF NoApply, ApplySteps
  <2>3. ~TellsHomeKit(a) /\ \A c \in Viewers : ~TellsClient(a, c)
    BY <2>1 DEF TellsHomeKit, TellsClient
  <2> QED  BY <1>3, <2>1, <2>2, <2>3
<1> QED  BY <1>4, <1>5, <1>6, <1>7, <1>8

\* One write of a broadcast: the client has the state, or is taken off the set
\* with its connection closed (broadcast in websocket.go).
LEMMA BroadcastStep ==
    ASSUME ClientsInv, NEW a \in Appliers, NEW c \in Viewers, Broadcast(a, c)
    PROVE  ClientsInv'
<1> DEFINE s == applying[a]
           r == [s EXCEPT !.left = @ \ {c}]
<1>1. /\ applying \in [Appliers -> ApplySteps] /\ viewer \in [Viewers -> ViewerSteps]
      /\ reached \in [Viewers -> Revisions] /\ revision \in Revisions /\ given \in Revisions
      /\ hub \subseteq Viewers /\ dropped \subseteq Viewers /\ s \in ApplySteps
  BY ClientsFacts
<1>2. /\ s.read \in Revisions /\ s.read \in Nat /\ given \in Nat /\ revision \in Nat
      /\ s.read <= revision /\ given <= revision /\ given <= given
      /\ \A d \in Viewers : reached[d] \in Nat /\ reached[d] <= revision
  <2>1. s.read \in Revisions  BY <1>1 DEF ApplySteps
  <2>2. /\ s.read \in Nat /\ given \in Nat /\ revision \in Nat
        /\ \A d \in Viewers : reached[d] \in Nat
    BY <1>1, <2>1, RevisionsAreNumbers
  <2> QED  BY <2>1, <2>2 DEF ClientsInv, ReadsPast
<1>3. r \in ApplySteps /\ r.at = s.at /\ r.read = s.read /\ r.left = s.left \ {c}
  BY <1>1 DEF ApplySteps
<1>4. /\ applying' = [applying EXCEPT ![a] = r] /\ s.at = "writes" /\ c \in s.left
      /\ UNCHANGED <<revision, given, viewer, signalVars>>
  BY <1>1 DEF Broadcast
<1>5. applying'[a] = r  BY <1>1, <1>4
<1>6. ~TellsHomeKit(a)  BY <1>4 DEF TellsHomeKit
<1>7. \A d \in Viewers \ {c} : TellsClient(a, d) => TellsClient(a, d)'
  BY <1>3, <1>4, <1>5 DEF TellsClient
<1>8. TellsClient(a, c) => s.read = revision  BY <1>4 DEF TellsClient
<1>9. CASE /\ viewer[c].at # "out" /\ c \notin dropped
           /\ Wrote(c, s.read)
           /\ UNCHANGED <<hub, dropped>>
  <2>1. reached' = [reached EXCEPT ![c] = Newest(reached[c], s.read)]
    BY <1>9 DEF Wrote
  <2>2. /\ reached'[c] = Newest(reached[c], s.read)
        /\ \A d \in Viewers \ {c} : reached'[d] = reached[d]
    BY <1>1, <2>1
  <2>3. /\ Newest(reached[c], s.read) \in Revisions
        /\ reached[c] <= Newest(reached[c], s.read) /\ Newest(reached[c], s.read) <= revision
        /\ s.read = revision => Newest(reached[c], s.read) = revision
    BY <1>1, <1>2 DEF Newest
  <2>4. reached' \in [Viewers -> Revisions]  BY <1>1, <2>1, <2>3
  <2>5. \A d \in Viewers : reached[d] <= reached'[d] /\ reached'[d] <= revision
    BY <1>2, <2>2, <2>3
  <2>6. \A d \in Viewers : TellsClient(a, d) => reached'[d] = revision \/ TellsClient(a, d)'
    BY <1>7, <1>8, <2>2, <2>3
  <2> HIDE DEF r
  <2> QED  BY <1>1, <1>2, <1>3, <1>4, <1>6, <1>9, <2>4, <2>5, <2>6, ApplierMoves
<1>10. CASE /\ hub' = hub \ {c}
            /\ dropped' = IF viewer[c].at = "out" THEN dropped ELSE dropped \cup {c}
            /\ UNCHANGED reached
  <2>1. hub' \subseteq Viewers /\ dropped \subseteq dropped' /\ dropped' \subseteq Viewers
    BY <1>1, <1>10
  <2>2. \A d \in Viewers : viewer[d].at # "out" /\ d \notin dropped' => d # c
    BY <1>10
  <2>3. \A d \in Viewers : reached[d] <= reached'[d] /\ reached'[d] <= revision
    BY <1>2, <1>10
  <2>4. \A d \in Viewers : viewer[d].at # "out" /\ d \notin dropped' =>
            /\ d \in hub => d \in hub'
            /\ TellsClient(a, d) => TellsClient(a, d)'
    BY <1>7, <1>10, <2>2
  <2> HIDE DEF r
  <2> QED  BY <1>1, <1>2, <1>3, <1>4, <1>6, <1>10, <2>1, <2>3, <2>4, ApplierMoves
<1> QED  BY <1>9, <1>10 DEF Broadcast
\* A step of one socket's handler touches nothing of another's, so it keeps the
\* invariant when its own client is told.
LEMMA ViewerMoves ==
    ASSUME ClientsInv, NEW c \in Viewers, NEW v \in ViewerSteps, NEW x \in Revisions,
           viewer' = [viewer EXCEPT ![c] = v], v.read <= revision,
           reached' = [reached EXCEPT ![c] = x], x <= revision,
           UNCHANGED <<revision, applying, given, signalVars>>,
           hub' \subseteq Viewers, dropped' \subseteq Viewers,
           hub' \ {c} = hub \ {c}, dropped' \ {c} = dropped \ {c},
           v.at # "out" /\ c \notin dropped' =>
               /\ c \in hub'
               /\ v.at = "read" =>
                     \/ revision \in {x, v.read}
                     \/ \E a \in Appliers : TellsClient(a, c)
               /\ v.at = "ready" => x = revision \/ \E a \in Appliers : TellsClient(a, c)
    PROVE  ClientsInv'
<1>1. /\ viewer \in [Viewers -> ViewerSteps] /\ reached \in [Viewers -> Revisions]
  BY ClientsFacts
<1>2. /\ viewer' \in [Viewers -> ViewerSteps] /\ reached' \in [Viewers -> Revisions]
      /\ viewer'[c] = v /\ reached'[c] = x
      /\ \A d \in Viewers \ {c} : viewer'[d] = viewer[d] /\ reached'[d] = reached[d]
  BY <1>1
<1>3. ToldType'
  BY <1>2, ClientsFacts
     DEF ClientsInv, ToldType, ApplySteps, ViewerSteps, SignalSteps, signalVars
<1>4. ReadsPast'  BY <1>2 DEF ClientsInv, ReadsPast
<1>5. HomeKitTold'  BY DEF ClientsInv, HomeKitTold, TellsHomeKit
<1>6. \A a \in Appliers, d \in Viewers : TellsClient(a, d) => TellsClient(a, d)'
  BY DEF TellsClient
<1>7. ASSUME NEW d \in Viewers PROVE ClientTold(d)'
  <2>1. CASE d = c  BY <1>2, <1>6, <2>1 DEF ClientTold
  <2>2. CASE d # c
    <3>1. /\ viewer'[d] = viewer[d] /\ reached'[d] = reached[d] /\ revision' = revision
          /\ d \in hub => d \in hub'
          /\ d \notin dropped' => d \notin dropped
      BY <1>2, <2>2
    <3>2. ClientTold(d)  BY DEF ClientsInv
    <3> QED  BY <1>6, <3>1, <3>2 DEF ClientTold
  <2> QED  BY <2>1, <2>2
<1>8. CardsHeld'  BY DEF ClientsInv, CardsHeld, signalVars
<1> QED  BY <1>3, <1>4, <1>5, <1>7, <1>8 DEF ClientsInv

\* The handler of a state socket joins the set before it reads the state it
\* writes first, so what changes after that read reaches it by a broadcast
\* (websocket in websocket.go).
LEMMA ViewerStep ==
    ASSUME ClientsInv, NEW c \in Viewers,
           \/ OpenSocket(c) \/ ReadInitialState(c) \/ WriteInitialState(c)
           \/ LoseConnection(c) \/ LeaveHub(c)
    PROVE  ClientsInv'
<1> DEFINE v == viewer[c]
<1>1. /\ viewer \in [Viewers -> ViewerSteps] /\ reached \in [Viewers -> Revisions]
      /\ hub \subseteq Viewers /\ dropped \subseteq Viewers /\ revision \in Revisions
      /\ v \in ViewerSteps /\ reached[c] \in Revisions /\ ClientTold(c)
  BY ClientsFacts DEF ClientsInv
<1>2. /\ reached = [reached EXCEPT ![c] = reached[c]] /\ viewer = [viewer EXCEPT ![c] = v]
  BY <1>1
<1>3. /\ v.read \in Revisions /\ v.read \in Nat /\ reached[c] \in Nat /\ revision \in Nat
      /\ v.read <= revision /\ reached[c] <= revision /\ revision <= revision /\ 0 <= revision
  <2>1. v.read \in Revisions  BY <1>1 DEF ViewerSteps
  <2>2. v.read \in Nat /\ reached[c] \in Nat /\ revision \in Nat
    BY <1>1, <2>1, RevisionsAreNumbers
  <2> QED  BY <2>1, <2>2 DEF ClientsInv, ReadsPast
<1>4. CASE OpenSocket(c)
  <2> DEFINE w == [v EXCEPT !.at = "open"]
  <2>1. w \in ViewerSteps /\ w.at = "open" /\ w.read = v.read  BY <1>1 DEF ViewerSteps
  <2>2. /\ viewer' = [viewer EXCEPT ![c] = w] /\ hub' = hub \cup {c}
        /\ UNCHANGED <<revision, applying, given, dropped, reached, signalVars>>
    BY <1>1, <1>4 DEF tellVars, OpenSocket, Join, JoinsAt
  <2>3. /\ reached' = [reached EXCEPT ![c] = reached[c]]
        /\ hub' \subseteq Viewers /\ dropped' \subseteq Viewers /\ c \in hub'
        /\ hub' \ {c} = hub \ {c} /\ dropped' \ {c} = dropped \ {c}
    BY <1>1, <1>2, <2>2
  <2> HIDE DEF w
  <2> QED  BY <1>1, <1>3, <2>1, <2>2, <2>3, ViewerMoves
<1>5. CASE ReadInitialState(c)
  <2> DEFINE w == [at |-> "read", read |-> revision]
  <2>1. w \in ViewerSteps /\ w.at = "read" /\ w.read = revision  BY <1>1 DEF ViewerSteps
  <2>2. /\ viewer' = [viewer EXCEPT ![c] = w] /\ v.at = "open"
        /\ UNCHANGED <<revision, applying, given, hub, dropped, reached, signalVars>>
    BY <1>5 DEF tellVars, ReadInitialState
  <2>3. /\ reached' = [reached EXCEPT ![c] = reached[c]]
        /\ hub' \subseteq Viewers /\ dropped' \subseteq Viewers
        /\ hub' \ {c} = hub \ {c} /\ dropped' \ {c} = dropped \ {c}
        /\ c \notin dropped' => c \in hub'
    BY <1>1, <1>2, <2>2 DEF ClientTold
  <2> HIDE DEF w
  <2> QED  BY <1>1, <1>3, <2>1, <2>2, <2>3, ViewerMoves
<1>6. CASE WriteInitialState(c)
  <2> DEFINE w == [v EXCEPT !.at = "ready"]
             x == Newest(reached[c], v.read)
  <2>1. w \in ViewerSteps /\ w.at = "ready" /\ w.read = v.read  BY <1>1 DEF ViewerSteps
  <2>2. /\ viewer' = [viewer EXCEPT ![c] = w] /\ v.at = "read" /\ c \notin dropped
        /\ reached' = [reached EXCEPT ![c] = x]
        /\ UNCHANGED <<revision, applying, given, hub, dropped, signalVars>>
    BY <1>1, <1>6 DEF WriteInitialState, Wrote, Join, JoinsAt
  <2>3. /\ x \in Revisions /\ x <= revision
        /\ revision \in {reached[c], v.read} => x = revision
    BY <1>1, <1>3 DEF Newest
  <2>4. /\ c \in hub
        /\ revision \in {reached[c], v.read} \/ \E a \in Appliers : TellsClient(a, c)
    BY <1>1, <2>2 DEF ClientTold
  <2> HIDE DEF w, x
  <2> QED  BY <1>1, <1>3, <2>1, <2>2, <2>3, <2>4, ViewerMoves
<1>7. CASE LoseConnection(c)
  <2>1. /\ dropped' = dropped \cup {c}
        /\ UNCHANGED <<revision, applying, given, hub, viewer, reached, signalVars>>
    BY <1>7 DEF tellVars, LoseConnection
  <2>2. /\ reached' = [reached EXCEPT ![c] = reached[c]] /\ viewer' = [viewer EXCEPT ![c] = v]
        /\ hub' \subseteq Viewers /\ dropped' \subseteq Viewers /\ c \in dropped'
        /\ hub' \ {c} = hub \ {c} /\ dropped' \ {c} = dropped \ {c}
    BY <1>1, <1>2, <2>1
  <2> HIDE DEF v
  <2> QED  BY <1>1, <1>3, <2>1, <2>2, ViewerMoves
<1>8. CASE LeaveHub(c)
  <2>1. NoViewer \in ViewerSteps /\ NoViewer.at = "out" /\ NoViewer.read = 0 /\ 0 \in Revisions
    BY RevisionsAreNumbers DEF NoViewer, ViewerSteps
  <2>2. /\ viewer' = [viewer EXCEPT ![c] = NoViewer] /\ reached' = [reached EXCEPT ![c] = 0]
        /\ hub' = hub \ {c} /\ dropped' = dropped \ {c}
        /\ UNCHANGED <<revision, applying, given, signalVars>>
    BY <1>8 DEF LeaveHub
  <2>3. /\ hub' \subseteq Viewers /\ dropped' \subseteq Viewers
        /\ hub' \ {c} = hub \ {c} /\ dropped' \ {c} = dropped \ {c}
    BY <1>1, <2>2
  <2> QED  BY <1>3, <2>1, <2>2, <2>3, ViewerMoves
<1> QED  BY <1>4, <1>5, <1>6, <1>7, <1>8

\* A signalling socket's step that changes its record to s and the sessions to
\* any of which every one is still held, by it or by another.
LEMMA SignalMoves ==
    ASSUME ClientsInv, NEW k \in Signallers, NEW s \in SignalSteps,
           Signals(k, s), UNCHANGED hubVars, cards' \subseteq CardIds,
           s.at \in {"out", "offering", "registered"} => s.holds = NoCard,
           s.at \in {"offering", "registered"} => s.offers \in CardIds,
           \A id \in cards' : \/ s.holds = id \/ (s.at = "registered" /\ s.offers = id)
                              \/ \E j \in Signallers \ {k} :
                                    \/ signaller[j].holds = id
                                    \/ signaller[j].at = "registered" /\ signaller[j].offers = id
    PROVE  ClientsInv'
<1>1. signaller \in [Signallers -> SignalSteps]  BY ClientsFacts
<1>2. /\ signaller' \in [Signallers -> SignalSteps] /\ signaller'[k] = s
      /\ \A j \in Signallers \ {k} : signaller'[j] = signaller[j]
  BY <1>1 DEF Signals
<1>3. ToldType'
  BY <1>2, ClientsFacts
     DEF ClientsInv, ToldType, ApplySteps, ViewerSteps, SignalSteps, hubVars, tellVars
<1>4. ReadsPast' /\ HomeKitTold' /\ \A c \in Viewers : ClientTold(c)'
  BY DEF ClientsInv, ReadsPast, HomeKitTold, ClientTold, TellsHomeKit, TellsClient, hubVars,
         tellVars
<1>5. CardsHeld'
  <2>1. \A id \in cards' : \E j \in Signallers :
           \/ signaller'[j].holds = id
           \/ signaller'[j].at = "registered" /\ signaller'[j].offers = id
    BY <1>2
  <2>2. \A j \in Signallers :
           /\ signaller'[j].at \in {"out", "offering", "registered"} =>
                 signaller'[j].holds = NoCard
           /\ signaller'[j].at \in {"offering", "registered"} => signaller'[j].offers \in CardIds
    BY <1>2 DEF ClientsInv, CardsHeld
  <2> QED  BY <2>1, <2>2 DEF CardsHeld
<1> QED  BY <1>3, <1>4, <1>5 DEF ClientsInv

\* The steps of a signalling socket's handler (webrtcWebsocket and
\* webrtcResponse in websocket.go).
LEMMA SignalStep ==
    ASSUME ClientsInv, NEW k \in Signallers,
           \/ OpenSignalling(k) \/ OfferRegisters(k) \/ OfferAnswered(k)
           \/ OfferRefused(k) \/ CloseMessage(k) \/ Reply(k)
           \/ SignallingEnds(k) \/ \E id \in CardIds : OfferMessage(k, id)
    PROVE  ClientsInv'
<1> DEFINE s == signaller[k]
           Others(id) == \E j \in Signallers \ {k} :
                            \/ signaller[j].holds = id
                            \/ signaller[j].at = "registered" /\ signaller[j].offers = id
<1>1. s \in SignalSteps /\ cards \subseteq CardIds /\ NoCard \notin CardIds
  BY ClientsFacts, ClientsAssumption
<1>2. /\ \A id \in cards : \/ s.holds = id \/ (s.at = "registered" /\ s.offers = id)
                           \/ Others(id)
      /\ s.at \in {"out", "offering", "registered"} => s.holds = NoCard
      /\ s.at \in {"offering", "registered"} => s.offers \in CardIds
  BY DEF ClientsInv, CardsHeld
<1>3. ASSUME NEW r \in SignalSteps, Signals(k, r), UNCHANGED hubVars, cards' \subseteq CardIds,
             r.at \in {"out", "offering", "registered"} => r.holds = NoCard,
             r.at \in {"offering", "registered"} => r.offers \in CardIds,
             \A id \in cards' : \/ r.holds = id \/ (r.at = "registered" /\ r.offers = id)
                                \/ Others(id)
      PROVE  ClientsInv'
  BY <1>3, SignalMoves
<1> HIDE DEF Others
<1>4. CASE OpenSignalling(k)
  <2> DEFINE r == [NoSignaller EXCEPT !.at = "reads"]
  <2>1. r \in SignalSteps /\ r.at = "reads" /\ r.holds = NoCard
    BY DEF NoSignaller, SignalSteps
  <2>2. Signals(k, r) /\ UNCHANGED <<cards, hubVars>> /\ s.at = "out"
    BY <1>4 DEF OpenSignalling
  <2>3. \A id \in cards' : Others(id)  BY <1>1, <1>2, <2>2
  <2> HIDE DEF r
  <2> QED  BY <1>1, <1>3, <2>1, <2>2, <2>3
<1>5. CASE SignallingEnds(k)
  <2>1. NoSignaller \in SignalSteps /\ NoSignaller.at = "out" /\ NoSignaller.holds = NoCard
    BY DEF NoSignaller, SignalSteps
  <2>2. /\ Signals(k, NoSignaller) /\ UNCHANGED hubVars /\ cards' = cards \ {s.holds}
        /\ s.at \in {"reads", "replies"}
    BY <1>5 DEF SignallingEnds
  <2>3. cards' \subseteq CardIds /\ \A id \in cards' : Others(id)  BY <1>1, <1>2, <2>2
  <2> QED  BY <1>3, <2>1, <2>2, <2>3
<1>6. ASSUME NEW id \in CardIds, OfferMessage(k, id) PROVE ClientsInv'
  <2> DEFINE r == [s EXCEPT !.at = "offering", !.offers = id]
  <2>1. r \in SignalSteps /\ r.at = "offering" /\ r.holds = s.holds /\ r.offers = id
    BY <1>1 DEF SignalSteps
  <2>2. Signals(k, r) /\ UNCHANGED <<cards, hubVars>> /\ s.at = "reads" /\ s.holds = NoCard
    BY <1>6 DEF OfferMessage, MayOffer
  <2>3. \A x \in cards' : Others(x)  BY <1>1, <1>2, <2>2
  <2> HIDE DEF r
  <2> QED  BY <1>1, <1>3, <2>1, <2>2, <2>3
<1>7. CASE OfferRegisters(k)
  <2> DEFINE r == [s EXCEPT !.at = "registered"]
  <2>1. r \in SignalSteps /\ r.at = "registered" /\ r.holds = s.holds /\ r.offers = s.offers
    BY <1>1 DEF SignalSteps
  <2>2. /\ Signals(k, r) /\ UNCHANGED hubVars /\ s.at = "offering"
        /\ cards' = cards \cup {s.offers}
    BY <1>7 DEF OfferRegisters
  <2>3. cards' \subseteq CardIds /\ \A x \in cards' : r.offers = x \/ Others(x)
    BY <1>1, <1>2, <2>1, <2>2
  <2> HIDE DEF r
  <2> QED  BY <1>2, <1>3, <2>1, <2>2, <2>3
<1>8. CASE OfferAnswered(k)
  <2> DEFINE r == [at |-> "replies", holds |-> s.offers, offers |-> NoCard]
  <2>1. r \in SignalSteps /\ r.at = "replies" /\ r.holds = s.offers
    BY <1>1 DEF SignalSteps
  <2>2. Signals(k, r) /\ UNCHANGED <<cards, hubVars>> /\ s.at = "registered"
    BY <1>8 DEF OfferAnswered
  <2>3. \A x \in cards' : r.holds = x \/ Others(x)
    BY <1>1, <1>2, <2>1, <2>2
  <2> HIDE DEF r
  <2> QED  BY <1>1, <1>3, <2>1, <2>2, <2>3
<1>9. CASE OfferRefused(k)
  <2> DEFINE r == [s EXCEPT !.at = "replies", !.offers = NoCard]
  <2>1. r \in SignalSteps /\ r.at = "replies" /\ r.holds = s.holds
    BY <1>1 DEF SignalSteps
  <2>2. /\ Signals(k, r) /\ UNCHANGED hubVars /\ s.at \in {"offering", "registered"}
        /\ cards' = IF s.at = "registered" THEN cards \ {s.offers} ELSE cards
    BY <1>9 DEF OfferRefused
  <2>3. cards' \subseteq CardIds /\ \A x \in cards' : r.holds = x \/ Others(x)
    BY <1>1, <1>2, <2>1, <2>2
  <2> HIDE DEF r
  <2> QED  BY <1>3, <2>1, <2>2, <2>3
<1>10. CASE CloseMessage(k)
  <2> DEFINE r == [s EXCEPT !.at = "replies", !.holds = NoCard]
  <2>1. r \in SignalSteps /\ r.at = "replies"  BY <1>1 DEF SignalSteps
  <2>2. /\ Signals(k, r) /\ UNCHANGED hubVars /\ s.at = "reads" /\ cards' = cards \ {s.holds}
    BY <1>10 DEF CloseMessage
  <2>3. cards' \subseteq CardIds /\ \A x \in cards' : Others(x)  BY <1>1, <1>2, <2>2
  <2> HIDE DEF r
  <2> QED  BY <1>3, <2>1, <2>2, <2>3
<1>11. CASE Reply(k)
  <2> DEFINE r == [s EXCEPT !.at = "reads"]
  <2>1. r \in SignalSteps /\ r.at = "reads" /\ r.holds = s.holds  BY <1>1 DEF SignalSteps
  <2>2. Signals(k, r) /\ UNCHANGED <<cards, hubVars>> /\ s.at = "replies"
    BY <1>11 DEF Reply
  <2>3. \A x \in cards' : r.holds = x \/ Others(x)  BY <1>2, <2>1, <2>2
  <2> HIDE DEF r
  <2> QED  BY <1>1, <1>3, <2>1, <2>2, <2>3
<1> QED  BY <1>4, <1>5, <1>6, <1>7, <1>8, <1>9, <1>10, <1>11

\* What the newest event changes by being applied: its applier tells everybody,
\* and nobody else has anything in hand unless that is recorded (newEventApplier).
LEMMA ShownApply ==
    ASSUME ClientsInv, ShownInv, NEW a \in Appliers, ApplierApplies(a)
    PROVE  ShownInv'
<1>1. /\ applying \in [Appliers -> ApplySteps] /\ viewer \in [Viewers -> ViewerSteps]
  BY ClientsFacts
<1>2. /\ applying'[a].at = "applied" /\ \A b \in Appliers \ {a} : applying'[b] = applying[b]
      /\ UNCHANGED <<viewer, dropped, synced, sentTo>>
      /\ crossed' = {b \in Appliers \ {a} : applying[b].at # "idle"}
      /\ late' = {c \in Viewers : viewer[c].at = "read"}
  BY <1>1 DEF ApplierApplies, ApplySteps
<1>3. ShownType'  BY <1>2 DEF ShownInv, ShownType
<1>4. ReadsNewest'
  <2>1. crossed' = {} => \A b \in Appliers \ {a} : applying'[b].at = "idle"  BY <1>2
  <2> QED  BY <1>2, <2>1 DEF ReadsNewest
<1>5. TellsHomeKit(a)' /\ \A c \in Viewers : TellsClient(a, c)'
  BY <1>2 DEF TellsHomeKit, TellsClient
<1>6. HomeKitShown'  BY <1>5 DEF HomeKitShown
<1>7. \A c \in Viewers : ClientShown(c)'  BY <1>2, <1>5 DEF ClientShown
<1> QED  BY <1>3, <1>4, <1>6, <1>7 DEF ShownInv

\* A step of one applier that leaves the projector's state alone: what it takes in
\* hand is the newest state, and nothing it had in hand is lost.
LEMMA ShownMoves ==
    ASSUME ClientsInv, ShownInv, NEW a \in Appliers, NEW r \in ApplySteps,
           applying' = [applying EXCEPT ![a] = r],
           UNCHANGED <<revision, viewer, crossed, late>>, dropped \subseteq dropped',
           ShownType',
           crossed = {} /\ r.at \in {"read", "payload", "writes"} => r.read = revision,
           crossed = {} =>
               /\ synced = revision => synced' = revision
               /\ TellsHomeKit(a) => synced' = revision \/ TellsHomeKit(a)',
           crossed = {} =>
               \A c \in Viewers : viewer[c].at = "ready" /\ c \notin dropped' =>
                   /\ sentTo[c] = revision => sentTo'[c] = revision
                   /\ TellsClient(a, c) => sentTo'[c] = revision \/ TellsClient(a, c)'
    PROVE  ShownInv'
<1>1. applying \in [Appliers -> ApplySteps]  BY ClientsFacts
<1>2. applying'[a] = r /\ \A b \in Appliers \ {a} : applying'[b] = applying[b]
  BY <1>1
<1>3. ReadsNewest'
  <2>1. SUFFICES ASSUME crossed = {}, NEW b \in Appliers,
                        applying'[b].at \in {"read", "payload", "writes"}
                 PROVE  applying'[b].read = revision
    BY DEF ReadsNewest
  <2>2. CASE b = a  BY <1>2, <2>1, <2>2
  <2>3. CASE b # a  BY <1>2, <2>1, <2>3 DEF ShownInv, ReadsNewest
  <2> QED  BY <2>2, <2>3
<1>4. \A b \in Appliers \ {a} : /\ TellsHomeKit(b) => TellsHomeKit(b)'
                                /\ \A c \in Viewers : TellsClient(b, c) => TellsClient(b, c)'
  BY <1>2 DEF TellsHomeKit, TellsClient
<1>5. HomeKitShown'  BY <1>4 DEF ShownInv, HomeKitShown
<1>6. ASSUME NEW c \in Viewers PROVE ClientShown(c)'
  <2> SUFFICES ASSUME crossed = {}, c \notin late, c \notin dropped'
               PROVE  /\ viewer[c].at = "read" => viewer[c].read = revision
                      /\ viewer[c].at = "ready" =>
                            sentTo'[c] = revision \/ \E b \in Appliers : TellsClient(b, c)'
    BY DEF ClientShown
  <2>1. c \notin dropped /\ ClientShown(c)  BY DEF ShownInv
  <2>2. (\E b \in Appliers : TellsClient(b, c)) /\ viewer[c].at = "ready" =>
           sentTo'[c] = revision \/ \E b \in Appliers : TellsClient(b, c)'
    BY <1>4
  <2> QED  BY <2>1, <2>2 DEF ClientShown
<1> QED  BY <1>3, <1>5, <1>6 DEF ShownInv

\* The steps of an applier: HomeKit and the clients are overwritten with what it
\* has in hand (newEventApplier in run.go, Sync, BroadcastState and broadcast).
LEMMA ShownApplier ==
    ASSUME ClientsInv, ShownInv, NEW a \in Appliers,
           \/ SnapshotForHomeKit(a) \/ SyncHomeKit(a) \/ BroadcastState(a)
           \/ ListClients(a) \/ ApplyReturns(a) \/ \E c \in Viewers : Broadcast(a, c)
    PROVE  ShownInv'
<1> DEFINE s == applying[a]
<1>1. /\ applying \in [Appliers -> ApplySteps] /\ s \in ApplySteps
      /\ sentTo \in [Viewers -> Revisions] /\ revision \in Revisions
      /\ s.read \in Revisions
  BY ClientsFacts DEF ShownInv, ShownType, ApplySteps
<1>2. crossed = {} /\ s.at \in {"read", "payload", "writes"} => s.read = revision
  BY DEF ShownInv, ReadsNewest
<1>3. ASSUME NEW r \in ApplySteps, applying' = [applying EXCEPT ![a] = r],
             UNCHANGED <<revision, hub, viewer, dropped, tellVars>>,
             crossed = {} /\ r.at \in {"read", "payload", "writes"} => r.read = revision,
             TellsHomeKit(a) => r.at = "applied" \/ (r.at = "read" /\ r.read = revision),
             \A c \in Viewers : viewer[c].at = "ready" /\ c \notin dropped /\ TellsClient(a, c) =>
               \/ r.at \in {"applied", "read", "told"}
               \/ r.at = "payload" /\ r.read = revision
               \/ r.at = "writes" /\ r.read = revision /\ c \in r.left
      PROVE  ShownInv'
  <2>1. applying'[a] = r  BY <1>1, <1>3
  <2>2. UNCHANGED <<revision, viewer, dropped, synced, sentTo, crossed, late>>
    BY <1>3 DEF tellVars
  <2>3. TellsHomeKit(a) => TellsHomeKit(a)'  BY <1>3, <2>1, <2>2 DEF TellsHomeKit
  <2>4. \A c \in Viewers : viewer[c].at = "ready" /\ c \notin dropped' =>
            (TellsClient(a, c) => TellsClient(a, c)')
    BY <1>3, <2>1, <2>2 DEF TellsClient
  <2>5. ShownType'  BY <2>2 DEF ShownInv, ShownType
  <2> QED  BY <1>3, <2>2, <2>3, <2>4, <2>5, ShownMoves
<1>4. CASE SnapshotForHomeKit(a)
  <2> DEFINE r == [s EXCEPT !.at = "read", !.read = revision]
  <2>1. r \in ApplySteps /\ r.at = "read" /\ r.read = revision  BY <1>1 DEF ApplySteps
  <2>2. /\ applying' = [applying EXCEPT ![a] = r]
        /\ UNCHANGED <<revision, hub, viewer, dropped, tellVars>>
    BY <1>1, <1>4 DEF SnapshotForHomeKit
  <2> HIDE DEF r
  <2> QED  BY <1>3, <2>1, <2>2
<1>5. CASE SyncHomeKit(a)
  <2> DEFINE r == [s EXCEPT !.at = "told"]
  <2>1. r \in ApplySteps /\ r.at = "told"  BY <1>1 DEF ApplySteps
  <2>2. /\ applying' = [applying EXCEPT ![a] = r] /\ s.at = "read" /\ synced' = s.read
        /\ UNCHANGED <<revision, viewer, dropped, sentTo, crossed, late>>
    BY <1>1, <1>5 DEF SyncHomeKit
  <2>3. applying'[a] = r  BY <1>1, <2>2
  <2>4. \A c \in Viewers : TellsClient(a, c)'  BY <2>1, <2>3 DEF TellsClient
  <2>5. crossed = {} => synced' = revision  BY <1>2, <2>2
  <2>6. ShownType'  BY <1>1, <2>2 DEF ShownInv, ShownType
  <2> HIDE DEF r
  <2> QED  BY <2>1, <2>2, <2>4, <2>5, <2>6, ShownMoves
<1>6. CASE BroadcastState(a)
  <2> DEFINE r == [s EXCEPT !.at = "payload", !.read = revision]
  <2>1. r \in ApplySteps /\ r.at = "payload" /\ r.read = revision  BY <1>1 DEF ApplySteps
  <2>2. /\ applying' = [applying EXCEPT ![a] = r] /\ s.at = "told"
        /\ UNCHANGED <<revision, hub, viewer, dropped, tellVars>>
    BY <1>1, <1>6 DEF BroadcastState
  <2>3. ~TellsHomeKit(a)  BY <2>2 DEF TellsHomeKit
  <2> HIDE DEF r
  <2> QED  BY <1>3, <2>1, <2>2, <2>3
<1>7. CASE ListClients(a)
  <2> DEFINE r == [s EXCEPT !.at = "writes", !.left = hub]
  <2>1. r \in ApplySteps /\ r.at = "writes" /\ r.read = s.read /\ r.left = hub
    BY <1>1, ClientsFacts DEF ApplySteps
  <2>2. /\ applying' = [applying EXCEPT ![a] = r] /\ s.at = "payload"
        /\ UNCHANGED <<revision, hub, viewer, dropped, tellVars>>
    BY <1>1, <1>7 DEF ListClients
  <2>3. ~TellsHomeKit(a)  BY <2>2 DEF TellsHomeKit
  <2>4. \A c \in Viewers : viewer[c].at = "ready" /\ c \notin dropped /\ TellsClient(a, c) =>
            s.read = revision /\ c \in hub
    BY <2>2 DEF TellsClient, ClientsInv, ClientTold
  <2> HIDE DEF r
  <2> QED  BY <1>2, <1>3, <2>1, <2>2, <2>3, <2>4
<1>8. CASE ApplyReturns(a)
  <2>1. /\ applying' = [applying EXCEPT ![a] = NoApply] /\ s.at = "writes" /\ s.left = {}
        /\ UNCHANGED <<revision, hub, viewer, dropped, tellVars>>
    BY <1>8 DEF ApplyReturns
  <2>2. NoApply \in ApplySteps /\ NoApply.at = "idle"
    BY RevisionsAreNumbers DEF NoApply, ApplySteps
  <2>3. ~TellsHomeKit(a) /\ \A c \in Viewers : ~TellsClient(a, c)
    BY <2>1 DEF TellsHomeKit, TellsClient
  <2> QED  BY <1>3, <2>1, <2>2, <2>3
<1>9. ASSUME NEW c \in Viewers, Broadcast(a, c) PROVE ShownInv'
  <2> DEFINE r == [s EXCEPT !.left = @ \ {c}]
  <2>1. r \in ApplySteps /\ r.at = s.at /\ r.read = s.read /\ r.left = s.left \ {c}
    BY <1>1 DEF ApplySteps
  <2>2. /\ applying' = [applying EXCEPT ![a] = r] /\ s.at = "writes" /\ c \in s.left
        /\ UNCHANGED <<revision, viewer, synced, crossed, late>>
    BY <1>1, <1>9 DEF Broadcast
  <2>3. applying'[a] = r  BY <1>1, <2>2
  <2>4. ~TellsHomeKit(a)  BY <2>2 DEF TellsHomeKit
  <2>5. \A d \in Viewers \ {c} : TellsClient(a, d) => TellsClient(a, d)'
    BY <2>1, <2>2, <2>3 DEF TellsClient
  <2>6. CASE Wrote(c, s.read) /\ UNCHANGED dropped
    <3>1. /\ sentTo' \in [Viewers -> Revisions] /\ sentTo'[c] = s.read
          /\ \A d \in Viewers \ {c} : sentTo'[d] = sentTo[d]
      BY <1>1, <2>6 DEF Wrote
    <3>2. ShownType'  BY <2>2, <3>1 DEF ShownInv, ShownType
    <3> HIDE DEF r
    <3> QED  BY <1>2, <2>1, <2>2, <2>4, <2>5, <2>6, <3>1, <3>2, ShownMoves
  <2>7. CASE /\ dropped' = IF viewer[c].at = "out" THEN dropped ELSE dropped \cup {c}
             /\ UNCHANGED sentTo
    <3>1. ShownType'  BY <2>2, <2>7 DEF ShownInv, ShownType
    <3>2. \A d \in Viewers : viewer[d].at = "ready" /\ d \notin dropped' => d # c  BY <2>7
    <3> HIDE DEF r
    <3> QED  BY <1>2, <2>1, <2>2, <2>4, <2>5, <2>7, <3>1, <3>2, ShownMoves
  <2> QED  BY <1>9, <2>6, <2>7 DEF Broadcast
<1> QED  BY <1>4, <1>5, <1>6, <1>7, <1>8, <1>9

\* The steps of a state socket's handler (websocket in websocket.go).
LEMMA ShownViewer ==
    ASSUME ClientsInv, ShownInv, NEW c \in Viewers,
           \/ OpenSocket(c) \/ ReadInitialState(c) \/ WriteInitialState(c)
           \/ LoseConnection(c) \/ LeaveHub(c)
    PROVE  ShownInv'
<1>1. /\ viewer \in [Viewers -> ViewerSteps] /\ sentTo \in [Viewers -> Revisions]
      /\ 0 \in Revisions /\ viewer[c].read \in Revisions
  BY ClientsFacts, RevisionsAreNumbers DEF ShownInv, ShownType, ViewerSteps
<1>2. UNCHANGED <<revision, applying, synced, crossed, late>>
  BY DEF OpenSocket, ReadInitialState, WriteInitialState, LoseConnection, LeaveHub, tellVars
<1>3. /\ ReadsNewest' /\ HomeKitShown'
      /\ \A a \in Appliers, d \in Viewers : TellsClient(a, d)' <=> TellsClient(a, d)
  BY <1>2 DEF ShownInv, ReadsNewest, HomeKitShown, TellsHomeKit, TellsClient
<1>4. sentTo' \in [Viewers -> Revisions]
  BY <1>1 DEF OpenSocket, ReadInitialState, WriteInitialState, LoseConnection, LeaveHub,
              tellVars, Wrote
<1>5. \A d \in Viewers \ {c} : /\ viewer'[d] = viewer[d] /\ sentTo'[d] = sentTo[d]
                               /\ d \in dropped' <=> d \in dropped
  BY <1>1 DEF OpenSocket, ReadInitialState, WriteInitialState, LoseConnection, LeaveHub,
              tellVars, Wrote
<1>6. \A d \in Viewers \ {c} : ClientShown(d)'
  BY <1>2, <1>3, <1>5 DEF ShownInv, ClientShown
<1>7. ClientShown(c)
  BY DEF ShownInv
<1>8. ClientShown(c)'
  <2>1. CASE OpenSocket(c)
    <3>1. viewer'[c].at = "open"  BY <1>1, <2>1 DEF OpenSocket, ViewerSteps
    <3> QED  BY <3>1 DEF ClientShown
  <2>2. CASE ReadInitialState(c)
    <3>1. viewer'[c].at = "read" /\ viewer'[c].read = revision
      BY <1>1, <2>2 DEF ReadInitialState
    <3> QED  BY <1>2, <3>1 DEF ClientShown
  <2>3. CASE WriteInitialState(c)
    <3>1. /\ viewer[c].at = "read" /\ viewer'[c].at = "ready" /\ dropped' = dropped
          /\ sentTo'[c] = viewer[c].read
      BY <1>1, <2>3 DEF WriteInitialState, Wrote, ViewerSteps
    <3> QED  BY <1>2, <1>7, <3>1 DEF ClientShown
  <2>4. CASE LoseConnection(c)  BY <2>4 DEF LoseConnection, ClientShown
  <2>5. CASE LeaveHub(c)
    <3>1. viewer'[c].at = "out"  BY <1>1, <2>5 DEF LeaveHub, NoViewer
    <3> QED  BY <3>1 DEF ClientShown
  <2> QED  BY <2>1, <2>2, <2>3, <2>4, <2>5
<1>9. ShownType'  BY <1>2, <1>4 DEF ShownInv, ShownType
<1> QED  BY <1>3, <1>6, <1>8, <1>9 DEF ShownInv

\* The signalling sockets leave the state channel alone.
LEMMA ShownRest ==
    ASSUME ShownInv, UNCHANGED hubVars
    PROVE  ShownInv'
BY DEF ShownInv, ShownType, ReadsNewest, HomeKitShown, ClientShown, TellsHomeKit,
       TellsClient, hubVars, tellVars

\* Every interleaving of appliers and sockets has given HomeKit and every client of
\* the hub the newest state once the appliers are done, and it is the one they show
\* when nothing crossed it (newEventApplier in run.go, websocket in websocket.go);
\* and every open WebRTC session has a socket whose handler closes it
\* (webrtcWebsocket): for any number of goroutines, sockets, sessions and events.
THEOREM ClientsServed ==
    ClientsSpec => [](ClientsType /\ NewestStateReached /\ SessionHasSocket)
<1> DEFINE Inv == ClientsInv /\ ShownInv
<1>1. ClientsInv /\ [HubNext \/ SignalNext]_clientVars => ClientsInv'
  <2> SUFFICES ASSUME ClientsInv, [HubNext \/ SignalNext]_clientVars PROVE ClientsInv'
    OBVIOUS
  <2>1. ASSUME NEW id \in CardIds, CardFails(id) PROVE ClientsInv'
    <3>1. UNCHANGED <<signaller, hubVars>> /\ cards' \subseteq cards  BY <2>1 DEF CardFails
    <3>2. ToldType' /\ CardsHeld'
      BY <3>1 DEF ClientsInv, ToldType, CardsHeld, hubVars, tellVars
    <3> QED
      BY <3>1, <3>2 DEF ClientsInv, ReadsPast, HomeKitTold, ClientTold, TellsHomeKit,
                        TellsClient, hubVars, tellVars
  <2>2. CASE UNCHANGED clientVars
    BY <2>2 DEF ClientsInv, ToldType, ReadsPast, HomeKitTold, ClientTold, TellsHomeKit,
                TellsClient, CardsHeld, clientVars, hubVars, tellVars, signalVars
  <2> QED
    BY <2>1, <2>2, ApplyStep, ApplierReads, BroadcastStep, ViewerStep, SignalStep
       DEF HubNext, SignalNext
<1>2. ClientsInv /\ ShownInv /\ [HubNext \/ SignalNext]_clientVars => ShownInv'
  <2> SUFFICES ASSUME ClientsInv, ShownInv, [HubNext \/ SignalNext]_clientVars PROVE ShownInv'
    OBVIOUS
  <2>1. CASE SignalNext
    <3>1. UNCHANGED hubVars
      BY <2>1 DEF SignalNext, OpenSignalling, OfferRegisters, OfferAnswered, OfferRefused,
                  CloseMessage, Reply, SignallingEnds, OfferMessage, CardFails
    <3> QED  BY <3>1, ShownRest
  <2>2. CASE UNCHANGED clientVars  BY <2>2, ShownRest DEF clientVars
  <2>3. CASE HubNext  BY <2>3, ShownApply, ShownApplier, ShownViewer DEF HubNext
  <2> QED  BY <2>1, <2>2, <2>3
<1>3. ClientsInit => ShownInv
  BY RevisionsAreNumbers
     DEF ClientsInit, ShownInv, ShownType, ReadsNewest, HomeKitShown, ClientShown, NoApply, NoViewer
<1>4. Inv => NewestStateReached
  BY DEF ClientsInv, HomeKitTold, ClientTold, ShownInv, HomeKitShown, ClientShown,
         TellsHomeKit, TellsClient, NewestStateReached
<1>5. Inv => ClientsType /\ SessionHasSocket
  BY DEF ClientsInv, ToldType, ShownInv, ShownType, ClientsType, ApplySteps, ViewerSteps,
         SignalSteps, CardsHeld, SessionHasSocket
<1> QED  BY <1>1, <1>2, <1>3, <1>4, <1>5, ClientsInitInv, PTL DEF ClientsSpec
-----------------------------------------------------------------------------
(* Proofs for the accounts. *)

RequestSteps == [at : AccountStages, bootstrap : BOOLEAN, secret : 0 .. MaxOwners]
SetUp(c) == c.pairing # "setup_required"
OwnedSetUp(c) == c.owner # 0 => SetUp(c)

\* The bounds are numbers and there is a first token.
LEMMA AccountBounds ==
    /\ MaxOwners \in Nat /\ MaxTokens \in Nat /\ MaxTokens > 0 /\ 0 \in 0 .. MaxOwners
<1>1. /\ MaxOwners \in Nat /\ MaxTokens \in Nat /\ MaxTokens > 0
  BY ConfigAssumption
<1> QED  BY <1>1

\* The types and the parts of the invariant, one by one.
LEMMA AccountFacts ==
    ASSUME AccountInv
    PROVE  /\ cfg \in Configs /\ disk \in Configs /\ acked \in Configs
           /\ unsynced \subseteq Configs /\ inDoubt \subseteq Configs
           /\ handling \in [AccountRequests -> RequestSteps]
           /\ webSessions \subseteq [bootstrap : BOOLEAN, secret : 0 .. MaxOwners]
           /\ repair \in BOOLEAN /\ owners \in 0 .. MaxOwners /\ tokens \in 1 .. MaxTokens
           /\ OwnedSetUp(cfg) /\ OwnedSetUp(disk) /\ \A c \in unsynced : OwnedSetUp(c)
BY DEF AccountInv, AccountType, ConfigType, RequestSteps, OwnedIsSetUp, OwnedSetUp, SetUp

\* What an older release's file or a fresh one loads.
LEMMA AccountInitInv == AccountInit => AccountInv
<1> SUFFICES ASSUME AccountInit PROVE AccountInv
  OBVIOUS
<1>1. DefaultConfig \in Configs
  BY AccountBounds DEF DefaultConfig, Configs, PairingStates
<1>2. LegacyConfig \in Configs /\ LegacyConfig.owner = 0
  <2>1. 1 \in 0 .. MaxTokens /\ "claimed" \in PairingStates /\ DefaultConfig.owner = 0
    BY AccountBounds DEF PairingStates, DefaultConfig
  <2> QED  BY <1>1, <2>1 DEF LegacyConfig, Configs
<1>3. cfg \in Configs /\ cfg.owner = 0 /\ disk = cfg /\ acked = cfg
      /\ unsynced = {} /\ inDoubt = {}
  BY <1>1, <1>2 DEF AccountInit, ConfigInit, DefaultConfig
<1>4. NoRequest \in RequestSteps
  BY AccountBounds DEF NoRequest, RequestSteps, AccountStages
<1>5. handling \in [AccountRequests -> RequestSteps] /\ \A q \in AccountRequests :
          handling[q] = NoRequest
  BY <1>4 DEF AccountInit
<1>6. AccountType
  <2>1. owners \in 0 .. MaxOwners /\ tokens \in 1 .. MaxTokens /\ webSessions = {}
    BY AccountBounds DEF AccountInit
  <2>2. repair \in BOOLEAN  BY DEF AccountInit
  <2>3. ConfigType  BY <1>3 DEF ConfigType
  <2> QED  BY <1>5, <2>1, <2>2, <2>3 DEF AccountType, RequestSteps
<1>7. AckedSurvives /\ OwnedIsSetUp  BY <1>3 DEF AckedSurvives, OwnedIsSetUp
<1>8. SavesAfterSetup  BY <1>5 DEF SavesAfterSetup, NoRequest
<1> QED  BY <1>6, <1>7, <1>8 DEF AccountInv

\* What Update saves differs from what its caller asked for in the entrypoints
\* only (assignDefaultDoorbell in config.go).
LEMMA NormalisedFits ==
    ASSUME NEW c \in Configs
    PROVE  /\ Normalised(c) \in Configs
           /\ Normalised(c).owner = c.owner /\ Normalised(c).pairing = c.pairing
<1>1. DefaultDoorbell(c) \in Configs /\ DefaultDoorbell(c).owner = c.owner
      /\ DefaultDoorbell(c).pairing = c.pairing
  BY DEF DefaultDoorbell, Configs
<1> QED  BY <1>1 DEF Normalised

\* Saved, refused, failed before or after its rename: Update leaves the last
\* acknowledged configuration, or one attempted since, wherever the next process
\* could look (Store.Update in config.go, WritePrivateFile in file.go).
LEMMA UpdateKeeps ==
    ASSUME AccountInv, NEW c \in Configs, NEW ok \in BOOLEAN, Update(c, ok),
           OwnedSetUp(c), SetUp(cfg) => SetUp(c)
    PROVE  /\ ConfigType' /\ AckedSurvives' /\ OwnedIsSetUp'
           /\ SetUp(cfg) => SetUp(cfg')
<1> DEFINE d == Normalised(c)
<1>1. d \in Configs /\ OwnedSetUp(d) /\ (SetUp(c) => SetUp(d))
  BY NormalisedFits DEF OwnedSetUp, SetUp
<1>2. /\ ConfigType /\ AckedSurvives /\ OwnedIsSetUp  BY DEF AccountInv, AccountType
<1> HIDE DEF d
<1>3. CASE Saves(d)
  <2>1. disk' = d /\ cfg' = d /\ unsynced' = {} /\ acked' = d /\ inDoubt' = {}
    BY <1>3 DEF Saves, Synced
  <2> QED
    BY <1>1, <2>1 DEF ConfigType, AckedSurvives, OwnedIsSetUp, OwnedSetUp, SetUp
<1>4. CASE SyncFails(d)
  <2>1. /\ disk' = d /\ unsynced' = unsynced \cup {disk} /\ inDoubt' = inDoubt \cup {d}
        /\ cfg' = cfg /\ acked' = acked
    BY <1>4 DEF SyncFails, Doubts
  <2> QED
    BY <1>1, <1>2, <2>1 DEF ConfigType, AckedSurvives, OwnedIsSetUp, OwnedSetUp, SetUp
<1>5. CASE UNCHANGED configVars
  BY <1>2, <1>5 DEF configVars, ConfigType, AckedSurvives, OwnedIsSetUp, SetUp
<1> QED  BY <1>3, <1>4, <1>5 DEF Update, SaveFails, d

\* A crash between two system calls of WritePrivateFile, or outside of it: the
\* file that is loaded is one that could come back.
LEMMA ReloadKeeps ==
    ASSUME AccountInv, NEW files, NEW older, NEW doubts, Reload(files, older, doubts),
           doubts \subseteq Configs, \A c \in doubts : OwnedSetUp(c),
           files \cup older \subseteq {disk} \cup unsynced \cup doubts
    PROVE  ConfigType' /\ AckedSurvives' /\ OwnedIsSetUp'
<1>1. /\ ConfigType /\ AckedSurvives /\ OwnedIsSetUp  BY DEF AccountInv, AccountType
<1>2. PICK c \in files : disk' = c /\ cfg' = c  BY DEF Reload
<1>3. /\ unsynced' = older /\ inDoubt' = inDoubt \cup doubts /\ acked' = acked
  BY DEF Reload, Doubts
<1>4. {c} \cup older \subseteq {disk} \cup unsynced \cup doubts  OBVIOUS
<1>5. \A d \in {c} \cup older : d \in Configs /\ OwnedSetUp(d)
  BY <1>1, <1>4 DEF ConfigType, OwnedIsSetUp, OwnedSetUp, SetUp
<1>6. ConfigType'  BY <1>1, <1>2, <1>3, <1>5 DEF ConfigType
<1>7. AckedSurvives'  BY <1>1, <1>2, <1>3, <1>4 DEF AckedSurvives
<1>8. OwnedIsSetUp'  BY <1>2, <1>3, <1>5 DEF OwnedIsSetUp, OwnedSetUp, SetUp
<1> QED  BY <1>6, <1>7, <1>8
\* What the update function of a request asks for: within the bounds it draws
\* from, never an owner before the setup is over, and never back before it; only
\* a setup or a save changes the owner, a setup only of a device that waits for
\* one, a save of a bootstrap session only of a device that has none.
LEMMA WantedFits ==
    ASSUME AccountInv, NEW q \in AccountRequests, NEW c \in Wanted(handling[q]), Draws(c)
    PROVE  /\ c \in Configs /\ OwnedSetUp(c) /\ (SetUp(cfg) => SetUp(c))
           /\ owners' \in 0 .. MaxOwners /\ tokens' \in 1 .. MaxTokens
           /\ c.owner # cfg.owner /\ cfg.owner # 0 =>
                 handling[q].at = "save" /\ ~handling[q].bootstrap
<1> DEFINE r == handling[q]
<1>1. /\ cfg \in Configs /\ r \in RequestSteps /\ OwnedSetUp(cfg)
      /\ owners \in 0 .. MaxOwners /\ tokens \in 1 .. MaxTokens
      /\ MaxOwners \in Nat /\ MaxTokens \in Nat
  BY AccountFacts, AccountBounds
<1>2. /\ c.owner <= MaxOwners /\ c.token <= MaxTokens
      /\ owners' = IF c.owner > owners THEN c.owner ELSE owners
      /\ tokens' = IF c.token > tokens THEN c.token ELSE tokens
  BY DEF Draws
<1>3. ASSUME c \in Configs
      PROVE  owners' \in 0 .. MaxOwners /\ tokens' \in 1 .. MaxTokens
  <2>1. c.owner \in 0 .. MaxOwners /\ c.token \in 0 .. MaxTokens  BY <1>3 DEF Configs
  <2> QED  BY <1>1, <1>2, <2>1
<1>4. /\ cfg.pairing \in PairingStates /\ cfg.token \in 0 .. MaxTokens
      /\ cfg.owner \in 0 .. MaxOwners /\ cfg.stream \in SUBSET ConfigEntrypoints
      /\ cfg.ring \in SUBSET ConfigEntrypoints
  BY <1>1 DEF Configs
<1>5. CASE r.at \in {"setup", "local"}
  <2>1. c = [NewOwner(cfg) EXCEPT !.pairing = "claimable"] /\ cfg.pairing = "setup_required"
    BY <1>5 DEF Wanted
  <2>2. /\ c.owner = owners + 1 /\ c.pairing = "claimable"
        /\ (owners + 1 \in 0 .. MaxOwners => c \in Configs)
    BY <1>1, <2>1 DEF NewOwner, Configs, PairingStates
  <2>3. owners + 1 \in 0 .. MaxOwners  BY <1>1, <1>2, <2>2
  <2>4. cfg.owner = 0  BY <1>1, <2>1 DEF OwnedSetUp, SetUp
  <2> QED  BY <1>3, <2>2, <2>3, <2>4 DEF OwnedSetUp, SetUp
<1>6. CASE r.at = "save"
  <2>1. c = NewOwner(cfg) /\ MayReplace(r.bootstrap)  BY <1>6 DEF Wanted
  <2>2. /\ c.owner = owners + 1 /\ c.pairing = cfg.pairing
        /\ (owners + 1 \in 0 .. MaxOwners => c \in Configs)
    BY <1>1, <2>1 DEF NewOwner, Configs
  <2>3. owners + 1 \in 0 .. MaxOwners  BY <1>1, <1>2, <2>2
  <2>4. SetUp(cfg)  BY <1>6 DEF AccountInv, SavesAfterSetup, SetUp
  <2>5. cfg.owner # 0 => ~r.bootstrap  BY <1>1, <2>1 DEF MayReplace, RequestSteps
  <2> QED  BY <1>3, <1>6, <2>2, <2>3, <2>4, <2>5 DEF OwnedSetUp, SetUp
<1>7. CASE r.at = "edit"
  <2>0. c \in Edits  BY <1>7 DEF Wanted
  <2>1. PICK s \in SUBSET ConfigEntrypoints, t \in SUBSET ConfigEntrypoints :
            c = Edited(s, t)
    BY <2>0 DEF Edits
  <2>2. c \in Configs /\ c.owner = cfg.owner /\ c.pairing = cfg.pairing
    BY <1>1, <2>1 DEF Configs, Edited
  <2> QED  BY <1>1, <1>3, <2>2 DEF OwnedSetUp, SetUp
<1>8. CASE r.at \in {"claim", "rotate", "recover"}
  <2>1. c = NewToken(cfg)  BY <1>8 DEF Wanted
  <2>2. /\ c.owner = cfg.owner /\ c.pairing = "claimed" /\ c.token = tokens + 1
        /\ (tokens + 1 \in 0 .. MaxTokens => c \in Configs)
    BY <1>1, <2>1 DEF NewToken, Configs, PairingStates
  <2>3. tokens + 1 \in 0 .. MaxTokens  BY <1>1, <1>2, <2>2
  <2> QED  BY <1>3, <2>2, <2>3 DEF OwnedSetUp, SetUp
<1>9. CASE r.at = "revoke"
  <2>1. c = [cfg EXCEPT !.token = 0, !.pairing = "claimable"]  BY <1>9 DEF Wanted
  <2>2. 0 \in 0 .. MaxTokens  BY <1>1
  <2>3. c \in Configs /\ c.owner = cfg.owner /\ c.pairing = "claimable"
    BY <1>1, <2>1, <2>2 DEF Configs, PairingStates
  <2> QED  BY <1>3, <2>3 DEF OwnedSetUp, SetUp
<1>10. r.at \in {"setup", "local", "save", "edit", "claim", "rotate", "recover", "revoke"}
  BY DEF Wanted
<1> QED  BY <1>5, <1>6, <1>7, <1>8, <1>9, <1>10

\* config.Store.Update in the hands of a request.
LEMMA CommitKeeps ==
    ASSUME AccountInv, NEW q \in AccountRequests, NEW ok \in BOOLEAN, CommitConfig(q, ok)
    PROVE  /\ ConfigType' /\ AckedSurvives' /\ OwnedIsSetUp'
           /\ SetUp(cfg) => SetUp(cfg')
           /\ owners' \in 0 .. MaxOwners /\ tokens' \in 1 .. MaxTokens
<1>1. CASE UNCHANGED <<configVars, owners, tokens>>
  BY <1>1, AccountFacts
     DEF AccountInv, AccountType, ConfigType, AckedSurvives, OwnedIsSetUp, SetUp, configVars
<1>2. ASSUME NEW c \in Wanted(handling[q]), Update(c, ok), Draws(c)
      PROVE  /\ ConfigType' /\ AckedSurvives' /\ OwnedIsSetUp'
             /\ SetUp(cfg) => SetUp(cfg')
             /\ owners' \in 0 .. MaxOwners /\ tokens' \in 1 .. MaxTokens
  BY <1>2, WantedFits, UpdateKeeps
<1> QED  BY <1>1, <1>2 DEF CommitConfig

\* A request moves on and the configuration with it or not: the invariant stays
\* when a request that is going to save stands after the setup.
LEMMA AccountMoves ==
    ASSUME AccountInv, NEW q \in AccountRequests, NEW r \in RequestSteps, To(q, r),
           ConfigType', AckedSurvives', OwnedIsSetUp', SetUp(cfg) => SetUp(cfg'),
           owners' \in 0 .. MaxOwners, tokens' \in 1 .. MaxTokens, repair' \in BOOLEAN,
           webSessions' \subseteq [bootstrap : BOOLEAN, secret : 0 .. MaxOwners],
           r.at = "save" \/ (r.at = "checked" /\ ~r.bootstrap) => SetUp(cfg)
    PROVE  AccountInv'
<1>1. handling \in [AccountRequests -> RequestSteps]  BY AccountFacts
<1>2. /\ handling' \in [AccountRequests -> RequestSteps] /\ handling'[q] = r
      /\ \A p \in AccountRequests \ {q} : handling'[p] = handling[p]
  BY <1>1 DEF To
<1>3. AccountType'  BY <1>2 DEF AccountType, RequestSteps
<1>4. SavesAfterSetup'
  BY <1>2 DEF AccountInv, SavesAfterSetup, SetUp
<1> QED  BY <1>3, <1>4 DEF AccountInv
\* The records a handler moves to.
LEMMA StagesFit ==
    /\ NoRequest \in RequestSteps /\ NoRequest.at = "idle"
    /\ \A stage \in AccountStages : At(stage) \in RequestSteps /\ At(stage).at = stage
<1>1. 0 \in 0 .. MaxOwners  BY AccountBounds
<1>2. NoRequest \in RequestSteps /\ NoRequest.at = "idle"
  BY <1>1 DEF NoRequest, RequestSteps, AccountStages
<1>3. \A stage \in AccountStages : At(stage) \in RequestSteps /\ At(stage).at = stage
  BY <1>2 DEF At, RequestSteps
<1> QED  BY <1>2, <1>3

\* The steps of a request that only read the configuration (handleLogin,
\* requireReady, handlePassword, pair/local, IssueRepairCode and the checks that
\* Claim, RotateBearer, RevokeBearer and RecoverBearer begin with).
LEMMA ReadingStep ==
    ASSUME AccountInv, NEW q \in AccountRequests,
           \/ LoginReads(q) \/ LoginStores(q) \/ PasswordReads(q) \/ PasswordRoutes(q)
           \/ ClearSessions(q) \/ RequireReady(q, "edit") \/ RequireReady(q, "issue")
           \/ PairLocal(q) \/ IssueRepairCode(q) \/ StoreRepairCode(q)
           \/ PairingReads(q) \/ PairingRefused(q)
    PROVE  AccountInv'
<1> DEFINE s == handling[q]
<1>1. /\ cfg \in Configs /\ s \in RequestSteps /\ OwnedSetUp(cfg)
      /\ webSessions \subseteq [bootstrap : BOOLEAN, secret : 0 .. MaxOwners]
      /\ repair \in BOOLEAN /\ owners \in 0 .. MaxOwners /\ tokens \in 1 .. MaxTokens
  BY AccountFacts
<1>2. UNCHANGED <<configVars, owners, tokens>>
  BY DEF LoginReads, LoginStores, PasswordReads, PasswordRoutes, ClearSessions, RequireReady,
         PairLocal, IssueRepairCode, StoreRepairCode, PairingReads, PairingRefused
<1>3. ConfigType' /\ AckedSurvives' /\ OwnedIsSetUp' /\ cfg' = cfg
  BY <1>2 DEF AccountInv, AccountType, ConfigType, AckedSurvives, OwnedIsSetUp, configVars
<1>4. ASSUME NEW r \in RequestSteps, To(q, r), repair' \in BOOLEAN,
             webSessions' \subseteq [bootstrap : BOOLEAN, secret : 0 .. MaxOwners],
             r.at = "save" \/ (r.at = "checked" /\ ~r.bootstrap) => SetUp(cfg)
      PROVE  AccountInv'
  BY <1>1, <1>2, <1>3, <1>4, AccountMoves
<1>5. CASE LoginReads(q)
  <2> DEFINE r == [at |-> "login", bootstrap |-> cfg.owner = 0, secret |-> cfg.owner]
  <2>1. r \in RequestSteps /\ r.at = "login"
    BY <1>1 DEF RequestSteps, AccountStages, Configs
  <2>2. To(q, r) /\ UNCHANGED <<webSessions, repair>>  BY <1>5 DEF LoginReads
  <2> HIDE DEF r
  <2> QED  BY <1>1, <1>4, <2>1, <2>2
<1>6. CASE LoginStores(q)
  <2>1. [bootstrap |-> s.bootstrap, secret |-> s.secret]
          \in [bootstrap : BOOLEAN, secret : 0 .. MaxOwners]
    BY <1>1 DEF RequestSteps
  <2>2. /\ webSessions' = webSessions \cup {[bootstrap |-> s.bootstrap, secret |-> s.secret]}
        /\ To(q, NoRequest) /\ UNCHANGED repair
    BY <1>6 DEF LoginStores
  <2> QED  BY <1>1, <1>4, <2>1, <2>2, StagesFit
<1>7. CASE PasswordReads(q)
  <2>1. PICK w \in webSessions :
            SessionValid(w) /\ To(q, [At("checked") EXCEPT !.bootstrap = w.bootstrap])
    BY <1>7 DEF PasswordReads
  <2> DEFINE r == [At("checked") EXCEPT !.bootstrap = w.bootstrap]
  <2>2. w.bootstrap \in BOOLEAN  BY <1>1
  <2>3. At("checked") \in RequestSteps /\ At("checked").at = "checked"
    BY StagesFit DEF AccountStages
  <2>4. r \in RequestSteps /\ r.at = "checked" /\ r.bootstrap = w.bootstrap
    BY <2>2, <2>3 DEF RequestSteps
  <2>5. ~w.bootstrap => SetUp(cfg)  BY <1>1, <2>1 DEF SessionValid, OwnedSetUp
  <2>6. UNCHANGED <<webSessions, repair>>  BY <1>7 DEF PasswordReads
  <2> HIDE DEF r
  <2> QED  BY <1>1, <1>4, <2>1, <2>4, <2>5, <2>6 DEF r
<1>8. CASE PasswordRoutes(q)
  <2> DEFINE stage == IF s.bootstrap /\ cfg.pairing = "setup_required" THEN "setup" ELSE "save"
             r == [s EXCEPT !.at = stage]
  <2>1. stage \in AccountStages  BY DEF AccountStages
  <2>2. r \in RequestSteps /\ r.at = stage  BY <1>1, <2>1 DEF RequestSteps
  <2>3. stage = "save" => SetUp(cfg)
    BY <1>8 DEF PasswordRoutes, AccountInv, SavesAfterSetup, SetUp
  <2>4. stage # "checked"  OBVIOUS
  <2>5. To(q, r) /\ UNCHANGED <<webSessions, repair>>  BY <1>8 DEF PasswordRoutes
  <2> HIDE DEF r, stage
  <2> QED  BY <1>1, <1>4, <2>2, <2>3, <2>4, <2>5
<1>9. CASE ClearSessions(q)
  BY <1>1, <1>4, <1>9, StagesFit DEF ClearSessions
<1>10. ASSUME NEW stage \in {"edit", "issue", "local", "store", "rotate", "revoke", "recover"},
              To(q, At(stage)), UNCHANGED <<webSessions, repair>>
       PROVE  AccountInv'
  <2>1. stage \in AccountStages /\ stage \notin {"save", "checked"}  BY <1>10 DEF AccountStages
  <2>2. At(stage) \in RequestSteps /\ At(stage).at = stage  BY <2>1, StagesFit
  <2> QED  BY <1>1, <1>4, <1>10, <2>1, <2>2
<1>11. ASSUME To(q, NoRequest), UNCHANGED <<webSessions, repair>> PROVE AccountInv'
  BY <1>1, <1>4, <1>11, StagesFit
<1>12. CASE RequireReady(q, "edit")
  <2>1. To(q, At("edit")) /\ UNCHANGED <<webSessions, repair>>  BY <1>12 DEF RequireReady
  <2> QED  BY <1>10, <2>1
<1>13. CASE RequireReady(q, "issue")
  <2>1. To(q, At("issue")) /\ UNCHANGED <<webSessions, repair>>  BY <1>13 DEF RequireReady
  <2> QED  BY <1>10, <2>1
<1>14. CASE PairLocal(q)
  <2>1. (To(q, At("local")) \/ To(q, At("issue"))) /\ UNCHANGED <<webSessions, repair>>
    BY <1>14 DEF PairLocal
  <2> QED  BY <1>10, <2>1
<1>15. CASE IssueRepairCode(q)
  <2>1. (To(q, At("store")) \/ To(q, NoRequest)) /\ UNCHANGED <<webSessions, repair>>
    BY <1>15 DEF IssueRepairCode
  <2> QED  BY <1>10, <1>11, <2>1
<1>16. CASE StoreRepairCode(q)
  <2>1. repair' \in BOOLEAN  BY <1>16 DEF StoreRepairCode
  <2>2. To(q, NoRequest) /\ UNCHANGED webSessions  BY <1>16 DEF StoreRepairCode
  <2> QED  BY <1>1, <1>4, <2>1, <2>2, StagesFit
<1>17. CASE PairingReads(q)
  <2>0. UNCHANGED <<webSessions, repair>>  BY <1>17 DEF PairingReads
  <2>1. ASSUME NEW code \in 0 .. owners, To(q, [At("claim") EXCEPT !.secret = code])
        PROVE  AccountInv'
    <3> DEFINE r == [At("claim") EXCEPT !.secret = code]
    <3>1. code \in 0 .. MaxOwners  BY <1>1, AccountBounds
    <3>2. At("claim") \in RequestSteps /\ At("claim").at = "claim"
      BY StagesFit DEF AccountStages
    <3>3. r \in RequestSteps /\ r.at = "claim"  BY <3>1, <3>2 DEF RequestSteps
    <3> HIDE DEF r
    <3> QED  BY <1>1, <1>4, <2>0, <2>1, <3>3 DEF r
  <2>2. ASSUME NEW stage \in {"rotate", "revoke", "recover"}, To(q, At(stage))
        PROVE  AccountInv'
    BY <1>10, <2>0, <2>2
  <2> QED  BY <1>17, <2>1, <2>2 DEF PairingReads
<1>18. CASE PairingRefused(q)
  <2>1. To(q, NoRequest) /\ UNCHANGED <<webSessions, repair>>  BY <1>18 DEF PairingRefused
  <2> QED  BY <1>11, <2>1
<1> QED  BY <1>5, <1>6, <1>7, <1>8, <1>9, <1>12, <1>13, <1>14, <1>15, <1>16, <1>17, <1>18

\* The steps of a request that update the configuration (SetupOwner, savePassword,
\* the editors, and the four that take or revoke a token).
LEMMA UpdatingStep ==
    ASSUME AccountInv, NEW q \in AccountRequests, NEW ok \in BOOLEAN,
           \/ SetupOwner(q, ok) \/ SavePassword(q, ok) \/ SaveEdit(q, ok)
           \/ TakeToken(q, ok) \/ RevokeBearer(q, ok)
    PROVE  AccountInv'
<1>1. CommitConfig(q, ok) /\ UNCHANGED webSessions
  BY DEF SetupOwner, SavePassword, SaveEdit, TakeToken, RevokeBearer
<1>2. /\ ConfigType' /\ AckedSurvives' /\ OwnedIsSetUp' /\ (SetUp(cfg) => SetUp(cfg'))
      /\ owners' \in 0 .. MaxOwners /\ tokens' \in 1 .. MaxTokens
  BY <1>1, CommitKeeps
<1>3. To(q, At("clear")) \/ To(q, NoRequest)
  BY DEF SetupOwner, SavePassword, SaveEdit, TakeToken, RevokeBearer
<1>4. repair' \in BOOLEAN
  <2>1. CASE UNCHANGED repair  BY <2>1, AccountFacts
  <2>2. CASE repair' = (repair /\ ~(ok /\ handling[q].at = "recover"))  BY <2>2
  <2> QED  BY <2>1, <2>2 DEF SetupOwner, SavePassword, SaveEdit, TakeToken, RevokeBearer
<1>5. webSessions' \subseteq [bootstrap : BOOLEAN, secret : 0 .. MaxOwners]
  BY <1>1, AccountFacts
<1>6. At("clear") \in RequestSteps /\ At("clear").at = "clear"
  BY StagesFit DEF AccountStages
<1> QED  BY <1>2, <1>3, <1>4, <1>5, <1>6, StagesFit, AccountMoves

\* A restart, with a crash inside an update or between two.
LEMMA AccountRestarts ==
    ASSUME AccountInv, Restart
    PROVE  AccountInv'
<1>1. /\ \A q \in AccountRequests : handling'[q] = NoRequest
      /\ handling' \in [AccountRequests -> RequestSteps]
      /\ webSessions' = {} /\ repair' \in BOOLEAN
  <2>1. repair' \in BOOLEAN  BY DEF Restart
  <2>2. handling' = [q \in AccountRequests |-> NoRequest] /\ webSessions' = {}
    BY DEF Restart
  <2> QED  BY <2>1, <2>2, StagesFit
<1>2. /\ ConfigType' /\ AckedSurvives' /\ OwnedIsSetUp'
      /\ owners' \in 0 .. MaxOwners /\ tokens' \in 1 .. MaxTokens
  <2>1. CASE Crash /\ UNCHANGED <<owners, tokens>>
    BY <2>1, ReloadKeeps, AccountFacts DEF Crash, PowerLoss
  <2>2. ASSUME NEW q \in AccountRequests, NEW c \in Wanted(handling[q]),
               CrashInUpdate(c), Draws(c)
        PROVE  /\ ConfigType' /\ AckedSurvives' /\ OwnedIsSetUp'
               /\ owners' \in 0 .. MaxOwners /\ tokens' \in 1 .. MaxTokens
    <3> DEFINE d == Normalised(c)
    <3>1. /\ c \in Configs /\ OwnedSetUp(c)
          /\ owners' \in 0 .. MaxOwners /\ tokens' \in 1 .. MaxTokens
      BY <2>2, WantedFits
    <3>2. \/ Reload({d}, unsynced \cup {disk}, {d})
          \/ Reload({disk, d} \cup unsynced, {}, {d})
      BY <2>2 DEF CrashInUpdate, PowerLoss
    <3>3. d \in Configs /\ OwnedSetUp(d)  BY <3>1, NormalisedFits DEF OwnedSetUp, SetUp
    <3> HIDE DEF d
    <3>4. ConfigType' /\ AckedSurvives' /\ OwnedIsSetUp'  BY <3>2, <3>3, ReloadKeeps
    <3> QED  BY <3>1, <3>4
  <2> QED  BY <2>1, <2>2 DEF Restart
<1>3. AccountType'  BY <1>1, <1>2 DEF AccountType, RequestSteps
<1>4. SavesAfterSetup'  BY <1>1 DEF SavesAfterSetup, NoRequest
<1> QED  BY <1>2, <1>3, <1>4 DEF AccountInv

\* Every step of the accounts keeps their invariant.
LEMMA AccountStep == AccountInv /\ [AccountNext]_accountVars => AccountInv'
<1> SUFFICES ASSUME AccountInv, [AccountNext]_accountVars PROVE AccountInv'
  OBVIOUS
<1>1. ASSUME UNCHANGED <<configVars, handling, owners, tokens>>, repair' \in BOOLEAN,
             webSessions' \subseteq webSessions
      PROVE  AccountInv'
  BY <1>1 DEF AccountInv, AccountType, ConfigType, AckedSurvives, OwnedIsSetUp, SavesAfterSetup,
              configVars
<1>2. CASE SessionLapses
  BY <1>1, <1>2, AccountFacts DEF SessionLapses
<1>3. CASE RepairLapses
  <2>1. repair' \in BOOLEAN  BY <1>3 DEF RepairLapses
  <2> QED  BY <1>1, <1>3, <2>1 DEF RepairLapses
<1>4. CASE UNCHANGED accountVars
  BY <1>1, <1>4, AccountFacts DEF accountVars
<1> QED
  BY <1>2, <1>3, <1>4, AccountRestarts, ReadingStep, UpdatingStep DEF AccountNext

\* An update that was reported saved survives every crash and power loss, and
\* every later failed update, up to the next one (Store.Update in config.go,
\* WritePrivateFile in file.go): for any number of requests, owners, tokens,
\* entrypoints and failed updates.
THEOREM SavedUpdateSurvives == AccountSpec => [](AccountType /\ AckedSurvives)
<1>1. AccountInv => AccountType /\ AckedSurvives  BY DEF AccountInv
<1> QED  BY <1>1, AccountInitInv, AccountStep, PTL DEF AccountSpec

\* An owner that is set is only replaced by a save of a request that was let
\* through as the owner's: never by a bootstrap session that outlived the setup,
\* by pair/local or by taking a token (savePassword in server.go, SetupOwner in
\* owner.go): for any number of concurrent requests.
THEOREM OwnerIsKept == AccountSpec => OwnerKept
<1> DEFINE Keeps ==
      cfg.owner # 0 /\ cfg'.owner # cfg.owner /\ acked' # acked =>
          \E q \in AccountRequests :
              /\ handling[q].at = "save" /\ ~handling[q].bootstrap
              /\ handling'[q].at = "clear"
<1>1. AccountInv /\ [AccountNext]_accountVars => [Keeps]_accountVars
  <2> SUFFICES ASSUME AccountInv, AccountNext, cfg.owner # 0, cfg'.owner # cfg.owner,
                      acked' # acked
               PROVE  \E q \in AccountRequests :
                          /\ handling[q].at = "save" /\ ~handling[q].bootstrap
                          /\ handling'[q].at = "clear"
    OBVIOUS
  <2>1. ASSUME Restart PROVE FALSE
    BY <2>1 DEF Restart, Crash, CrashInUpdate, PowerLoss, Reload
  <2>2. PICK q \in AccountRequests, ok \in BOOLEAN :
            \/ SetupOwner(q, ok) \/ SavePassword(q, ok) \/ SaveEdit(q, ok)
            \/ TakeToken(q, ok) \/ RevokeBearer(q, ok)
    <3>1. ~ UNCHANGED configVars  BY DEF configVars
    <3> QED
      BY <2>1, <3>1
         DEF AccountNext, SessionLapses, RepairLapses, LoginReads, LoginStores, PasswordReads,
             PasswordRoutes, ClearSessions, RequireReady, PairLocal, IssueRepairCode,
             StoreRepairCode, PairingReads, PairingRefused
  <2>3. CommitConfig(q, ok)
    BY <2>2 DEF SetupOwner, SavePassword, SaveEdit, TakeToken, RevokeBearer
  <2>4. PICK c \in Wanted(handling[q]) : Update(c, ok) /\ Draws(c)
    BY <2>3 DEF CommitConfig, configVars
  <2>5. ok /\ cfg' = Normalised(c)
    BY <2>4 DEF Update, Saves, SaveFails, SyncFails, configVars
  <2>6. c \in Configs /\ (c.owner # cfg.owner => handling[q].at = "save" /\ ~handling[q].bootstrap)
    BY <2>4, WantedFits
  <2>7. handling[q].at = "save" /\ ~handling[q].bootstrap
    BY <2>5, <2>6, NormalisedFits
  <2>8. To(q, At("clear"))
    BY <2>2, <2>5, <2>7 DEF SetupOwner, SavePassword, SaveEdit, TakeToken, RevokeBearer
  <2>9. handling'[q].at = "clear"
    <3>1. handling'[q] = At("clear")  BY <2>8, AccountFacts DEF To
    <3>2. At("clear").at = "clear"  BY StagesFit DEF AccountStages
    <3> QED  BY <3>1, <3>2
  <2> QED  BY <2>7, <2>9
<1> QED  BY <1>1, AccountInitInv, AccountStep, PTL DEF AccountSpec, OwnerKept

-----------------------------------------------------------------------------
(* The projected state. *)

\* The strengthening NoPhantomRing needs: a ring at the entrypoint of the
\* answered call can only have started after the answer.
RingAtCallIsNew ==
    (state.activeCall # NoCall /\ state.physicalRing = state.activeCall.entrypoint)
        => state.activeCall.entrypoint \in ringSinceAnswer

ProjectorInv == TypeOK /\ OneCall /\ EndShownOnlyAfterTheCall /\ RingAtCallIsNew

\* deriveCallState reads only the four fields it is computed from.
LEMMA DerivedAfterApply ==
    ASSUME NEW s \in States, NEW e, Accepts(s, e), Effect(s, e) \in States
    PROVE  Apply(s, e).callState = DeriveCallState(Apply(s, e))
BY ApplyAccepted DEF DeriveCallState

\* The initial state satisfies the inductive invariant.
LEMMA ProjectorStarts == Init => ProjectorInv
<1> SUFFICES ASSUME Init PROVE ProjectorInv  OBVIOUS
<1> USE NoneAssumption, RevisionAssumption DEF Init, InitialState
<1>1. state \in States
  BY DEF States, CallStates
<1>2. TypeOK
  BY <1>1 DEF TypeOK, DeriveCallState
<1> QED
  BY <1>2 DEF ProjectorInv, OneCall, EndShownOnlyAfterTheCall, RingAtCallIsNew

\* Applying any event keeps the inductive invariant.
LEMMA ProjectorStep == ProjectorInv /\ [Next]_vars => ProjectorInv'
<1> SUFFICES ASSUME ProjectorInv, [Next]_vars PROVE ProjectorInv'  OBVIOUS
<1>1. CASE UNCHANGED vars
  BY <1>1 DEF ProjectorInv, TypeOK, OneCall, EndShownOnlyAfterTheCall, RingAtCallIsNew, vars
<1>2. ASSUME NEW e \in Events, ApplyEvent(e), ~Accepts(state, e) PROVE ProjectorInv'
  <2>1. UNCHANGED vars
    BY <1>2, ApplyRefused DEF ApplyEvent, vars
  <2> QED
    BY <2>1 DEF ProjectorInv, TypeOK, OneCall, EndShownOnlyAfterTheCall, RingAtCallIsNew, vars
<1>3. ASSUME NEW e \in Events, ApplyEvent(e), Accepts(state, e) PROVE ProjectorInv'
  <2>1. state \in States /\ ringSinceAnswer \subseteq Entrypoints
    BY DEF ProjectorInv, TypeOK
  <2>2. Effect(state, e) \in States
    BY <1>3, <2>1, EffectType
  <2>3. /\ state' \in States
        /\ state'.callState = DeriveCallState(state')
        /\ state'.physicalRing = Effect(state, e).physicalRing
        /\ state'.incomingCall = Effect(state, e).incomingCall
        /\ state'.lastIncomingCallEnd = Effect(state, e).lastIncomingCallEnd
        /\ state'.activeCall = Effect(state, e).activeCall
    BY <1>3, <2>1, <2>2, ApplyAccepted, DerivedAfterApply DEF ApplyEvent
  <2>4. ringSinceAnswer' =
           CASE e.type = "ring.started" -> ringSinceAnswer \cup {e.entrypoint}
             [] e.type = "call.answered" -> {}
             [] OTHER -> ringSinceAnswer
    BY <1>3 DEF ApplyEvent
  <2>5. e.type = "ring.started" => e.entrypoint \in Entrypoints
    BY <1>3 DEF Accepts, Events, CallEvents, SettingEvents, RingStarted,
       RingCleared, IncomingCallStarted, IncomingCallEnded, CallAnswered,
       CallDeclined, CallHungUp, PreviewStarted, PreviewStopped
  <2>6. TypeOK'
    BY <2>1, <2>3, <2>4, <2>5 DEF TypeOK
  <2>7. OneCall'
    BY <1>3, <2>1, <2>3, EffectFields
       DEF ProjectorInv, OneCall, Accepts, CallSlotFree, MatchingIncoming
  <2>8. EndShownOnlyAfterTheCall'
    <3> SUFFICES ASSUME state'.lastIncomingCallEnd # NoEnd
                 PROVE  state'.incomingCall = NoCall /\ state'.activeCall = NoCall
      BY DEF EndShownOnlyAfterTheCall
    <3>1. e.type \notin {"call.incoming", "call.answered"}
      BY <2>1, <2>3, EffectFields
    <3>2. CASE e.type = "call.incoming_ended"
      BY <1>3, <2>1, <2>3, <3>2, EffectFields
         DEF ProjectorInv, OneCall, EndShownOnlyAfterTheCall
    <3>3. CASE e.type # "call.incoming_ended"
      <4>1. /\ state'.lastIncomingCallEnd = state.lastIncomingCallEnd
            /\ state'.incomingCall \in {state.incomingCall, NoCall}
            /\ state'.activeCall \in {state.activeCall, NoCall}
        BY <2>1, <2>3, <3>1, <3>3, EffectFields
      <4> QED  BY <4>1 DEF ProjectorInv, EndShownOnlyAfterTheCall
    <3> QED  BY <3>2, <3>3
  <2>9. RingAtCallIsNew'
    <3>1. \A c \in Calls \cup {NoCall} : c # NoCall => c.entrypoint # None
      BY NoneAssumption DEF Calls
    <3>2. state.activeCall \in Calls \cup {NoCall} /\ state.incomingCall \in Calls \cup {NoCall}
      BY <2>1 DEF States
    <3>3. CASE e.type = "call.answered"
      <4>1. /\ state'.activeCall = state.incomingCall
            /\ state'.physicalRing = RingWithout(state, state.incomingCall.entrypoint)
        BY <2>1, <2>3, <3>3, EffectFields
      <4>2. state.incomingCall.entrypoint # None
        BY <1>3, <3>1, <3>2, <3>3 DEF Accepts, MatchingIncoming
      <4>3. state'.physicalRing # state'.activeCall.entrypoint
        BY <4>1, <4>2 DEF RingWithout
      <4> QED  BY <4>3 DEF RingAtCallIsNew
    <3>4. CASE e.type \in {"call.incoming", "call.incoming_ended",
                           "call.declined", "call.hung_up"}
      <4>1. ringSinceAnswer' = ringSinceAnswer
        BY <2>4, <3>4
      <4>2. \/ state'.activeCall = NoCall
            \/ /\ state'.activeCall = state.activeCall
               /\ state'.physicalRing = state.physicalRing
        BY <1>3, <2>1, <2>3, <3>4, EffectFields DEF Accepts, CallSlotFree
      <4> QED  BY <4>1, <4>2 DEF ProjectorInv, RingAtCallIsNew
    <3>5. CASE e.type \notin {"call.incoming", "call.incoming_ended",
                              "call.answered", "call.declined", "call.hung_up"}
      <4>1. /\ state'.activeCall = state.activeCall
            /\ state'.physicalRing = CASE e.type = "ring.started" -> e.entrypoint
                                       [] e.type = "ring.cleared" -> None
                                       [] OTHER -> state.physicalRing
        BY <2>1, <2>3, <3>5, EffectFields
      <4> QED  BY <2>4, <3>1, <3>2, <3>5, <4>1 DEF ProjectorInv, RingAtCallIsNew
    <3> QED  BY <3>3, <3>4, <3>5
  <2> QED  BY <2>6, <2>7, <2>8, <2>9 DEF ProjectorInv
<1> QED
  BY <1>1, <1>2, <1>3 DEF Next

\* Every reachable projected state is well typed, shows at most one call, and
\* shows the end of a call only when there is no call.
THEOREM ProjectorInvariant ==
    Spec => [](TypeOK /\ OneCall /\ EndShownOnlyAfterTheCall)
<1>1. ProjectorInv => TypeOK /\ OneCall /\ EndShownOnlyAfterTheCall
  BY DEF ProjectorInv
<1> QED
  BY <1>1, ProjectorStarts, ProjectorStep, PTL DEF Spec

\* Hanging up an answered call never brings back a ring from before the answer.
THEOREM ProjectorNoPhantomRing == Spec => NoPhantomRing
<1> DEFINE Hangs == /\ state.activeCall # NoCall
                    /\ state'.activeCall = NoCall
                    /\ state'.physicalRing = state.activeCall.entrypoint
           Old == state.activeCall.entrypoint \in ringSinceAnswer
<1>1. ProjectorInv /\ [Next]_vars => [Hangs => Old]_vars
  <2> SUFFICES ASSUME ProjectorInv, [Next]_vars, Hangs, ~UNCHANGED vars PROVE Old
    OBVIOUS
  <2>1. PICK e \in Events : ApplyEvent(e)
    BY DEF Next
  <2>2. state \in States
    BY DEF ProjectorInv, TypeOK
  <2>3. Accepts(state, e)
    BY <2>1, ApplyRefused DEF ApplyEvent
  <2>4. /\ state'.physicalRing = Effect(state, e).physicalRing
        /\ state'.activeCall = Effect(state, e).activeCall
    BY <2>1, <2>2, <2>3, EffectType, ApplyAccepted DEF ApplyEvent
  <2>5. e.type \in {"call.hung_up", "call.answered"}
    BY <2>2, <2>4, EffectFields
  <2>6. e.type # "call.answered"
    BY <2>3, <2>4, <2>2, EffectFields DEF Accepts, MatchingIncoming
  <2>7. state'.physicalRing = state.physicalRing
    BY <2>2, <2>4, <2>5, <2>6, EffectFields
  <2> QED  BY <2>7 DEF ProjectorInv, RingAtCallIsNew
<1> QED
  BY <1>1, ProjectorStarts, ProjectorStep, PTL DEF Spec, NoPhantomRing
=============================================================================
