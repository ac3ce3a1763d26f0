------------------------------- MODULE HomeKit -------------------------------
(***************************************************************************)
(* homekit.cameraSessionManager and the lock of homekit.Manager: a camera  *)
(* session acquires its stream without holding the lock, so it may be      *)
(* replaced, ended by the controller or lost while it starts; and a timer  *)
(* that shows a lock as secured again may fire while another unlock is     *)
(* being shown.  The coordinator is the one of StreamCoordinator: a lease  *)
(* is granted or refused, released, or lost to a BYE or a failure.         *)
(***************************************************************************)
EXTENDS Integers

CONSTANTS
    MaxCameraSessions,  \* bound on the endpoints set up
    MaxUnlocks          \* bound on the unlocks shown

ASSUME HomeKitAssumption == {MaxCameraSessions, MaxUnlocks} \subseteq Nat

VARIABLES
    camActive,      \* m.active, 0 for nil
    cam,            \* session -> its fields and where its start is
    camSessions,    \* sessions set up so far
    camClosing,     \* sessions somebody is about to close
    held,           \* sessions whose lease the coordinator holds
    streaming,      \* the streaming status shown
    lockShown,      \* the lock as shown
    lockTimer,      \* m.unlockTimers of the lock, 0 for none
    armedTimers,    \* timers that run
    firedTimers,    \* timers that fired and wait for the lock
    lockTimers      \* timers made so far

camVars == <<camActive, cam, camSessions, camClosing, held, streaming>>
lockVars == <<lockShown, lockTimer, armedTimers, firedTimers, lockTimers>>
homeKitVars == <<camVars, lockVars>>

Cams == 1 .. MaxCameraSessions
NewCam == [at |-> "none", started |-> FALSE, lease |-> FALSE, closed |-> FALSE]

HomeKitType ==
    /\ camActive \in 0 .. MaxCameraSessions /\ camSessions \in 0 .. MaxCameraSessions
    /\ cam \in [Cams -> [at : {"none", "command", "acquires", "acquired", "shows"},
                         started : BOOLEAN, lease : BOOLEAN, closed : BOOLEAN]]
    /\ camClosing \subseteq Cams /\ held \subseteq Cams
    /\ streaming \in {"available", "in use"}
    /\ lockShown \in {"secured", "unsecured"}
    /\ {lockTimer, lockTimers} \subseteq 0 .. MaxUnlocks
    /\ armedTimers \cup firedTimers \subseteq 1 .. MaxUnlocks

HomeKitInit ==
    /\ camActive = 0 /\ camSessions = 0 /\ cam = [n \in Cams |-> NewCam]
    /\ camClosing = {} /\ held = {} /\ streaming = "available"
    /\ lockShown = "secured" /\ lockTimer = 0 /\ lockTimers = 0
    /\ armedTimers = {} /\ firedTimers = {}

(***************************************************************************)
(* The camera.                                                             *)
(***************************************************************************)

\* setupEndpoints: the new session takes the field, the previous one is closed
\* after the lock is released; when the response cannot be encoded the new one is
\* closed too and stays in the field.
SetupEndpoints ==
    /\ camSessions < MaxCameraSessions
    /\ camSessions' = camSessions + 1 /\ camActive' = camSessions + 1
    /\ \E unsent \in {{}, {camSessions + 1}} :
          camClosing' = camClosing \cup ({camActive} \ {0}) \cup unsent
    /\ UNCHANGED <<cam, held, streaming, lockVars>>

\* A start command for the active session, which its goroutine then looks at
\* again under the lock.
StartCommand(n) ==
    /\ camActive = n /\ cam[n].at = "none"
    /\ cam' = [cam EXCEPT ![n].at = "command"]
    /\ UNCHANGED <<camActive, camSessions, camClosing, held, streaming, lockVars>>

\* MUTANT of StillActive: a session that was closed meanwhile goes on.
StillActive_Always(n) == TRUE
StillActive(n) == camActive = n /\ ~cam[n].closed

StartBegins(n) ==
    /\ cam[n].at = "command"
    /\ cam' = [cam EXCEPT
           ![n].at = IF camActive = n /\ ~cam[n].closed /\ ~cam[n].started
                     THEN "acquires" ELSE "none",
           ![n].started = @ \/ (camActive = n /\ ~cam[n].closed)]
    /\ UNCHANGED <<camActive, camSessions, camClosing, held, streaming, lockVars>>

\* clearSession: the field is cleared under the lock, the session closed after.
Clears(n) ==
    /\ camActive' = IF camActive = n THEN 0 ELSE camActive
    /\ camClosing' = camClosing \cup {n}

\* AcquireWithStartup outside the lock.  A refused or abandoned one clears.
AcquireReturns(n) ==
    /\ cam[n].at = "acquires"
    /\ \/ /\ cam' = [cam EXCEPT ![n].at = "acquired"] /\ held' = held \cup {n}
          /\ UNCHANGED <<camActive, camClosing>>
       \/ /\ cam' = [cam EXCEPT ![n].at = "none"] /\ Clears(n)
          /\ UNCHANGED held
    /\ UNCHANGED <<camSessions, streaming, lockVars>>

StartReturns(n) ==
    /\ cam[n].at = "acquired"
    /\ IF StillActive(n)
       THEN /\ cam' = [cam EXCEPT ![n].at = "shows", ![n].lease = TRUE]
            /\ UNCHANGED held
       ELSE /\ cam' = [cam EXCEPT ![n].at = "none"]
            /\ held' = held \ {n}
    /\ UNCHANGED <<camActive, camSessions, camClosing, streaming, lockVars>>

\* The status is set after the lock was released.
StreamingShown(n) ==
    /\ cam[n].at = "shows"
    /\ cam' = [cam EXCEPT ![n].at = "none"] /\ streaming' = "in use"
    /\ UNCHANGED <<camActive, camSessions, camClosing, held, lockVars>>

\* An end or suspend command.
EndCommand(n) ==
    /\ camActive = n /\ Clears(n)
    /\ UNCHANGED <<cam, camSessions, held, streaming, lockVars>>

\* The coordinator loses the stream and calls RemoteBYE or Failed.
CameraLost(n) ==
    /\ n \in held /\ held' = held \ {n} /\ Clears(n)
    /\ UNCHANGED <<cam, camSessions, streaming, lockVars>>

\* closeSession: the first closer releases the lease the session has.  The mark
\* and the read of the lease are one step: start stores a lease under the lock and
\* only while the session is in the field, which its closers clear first; the one
\* that does not, setupEndpoints, has not answered the controller yet.
CloseCamera(n) ==
    /\ n \in camClosing /\ camClosing' = camClosing \ {n}
    /\ IF cam[n].closed THEN UNCHANGED <<cam, held, streaming>>
       ELSE /\ cam' = [cam EXCEPT ![n].closed = TRUE]
            /\ held' = IF cam[n].lease THEN held \ {n} ELSE held
            /\ streaming' = "available"
    /\ UNCHANGED <<camActive, camSessions, lockVars>>

(***************************************************************************)
(* The lock.                                                               *)
(***************************************************************************)

\* markUnlocking, once the unlock was carried out: the previous timer is
\* stopped, which does nothing to one that has fired.
MarkUnlocking ==
    /\ lockTimers < MaxUnlocks
    /\ lockTimers' = lockTimers + 1 /\ lockTimer' = lockTimers + 1
    /\ armedTimers' = (armedTimers \ {lockTimer}) \cup {lockTimers + 1}
    /\ lockShown' = "unsecured"
    /\ UNCHANGED <<firedTimers, camVars>>

TimerFires(t) ==
    /\ t \in armedTimers
    /\ armedTimers' = armedTimers \ {t} /\ firedTimers' = firedTimers \cup {t}
    /\ UNCHANGED <<lockShown, lockTimer, lockTimers, camVars>>

\* MUTANT of IsCurrentTimer: the callback does not ask which timer it is.
IsCurrentTimer_Any(t) == TRUE
IsCurrentTimer(t) == lockTimer = t

SecuresAgain(t) ==
    /\ t \in firedTimers /\ firedTimers' = firedTimers \ {t}
    /\ IF IsCurrentTimer(t) THEN lockTimer' = 0 /\ lockShown' = "secured"
       ELSE UNCHANGED <<lockTimer, lockShown>>
    /\ UNCHANGED <<armedTimers, lockTimers, camVars>>

HomeKitNext ==
    \/ SetupEndpoints \/ MarkUnlocking
    \/ \E n \in Cams : \/ StartCommand(n) \/ StartBegins(n) \/ AcquireReturns(n)
                       \/ StartReturns(n) \/ StreamingShown(n) \/ EndCommand(n)
                       \/ CameraLost(n) \/ CloseCamera(n)
    \/ \E t \in 1 .. MaxUnlocks : TimerFires(t) \/ SecuresAgain(t)

HomeKitSpec == HomeKitInit /\ [][HomeKitNext]_homeKitVars

(***************************************************************************)
(* A camera session that is closed keeps no stream: once its start has     *)
(* returned, its lease was released, whoever closed it and whenever, so    *)
(* the intercom's one call is not held for nobody (start, closeSession).   *)
(***************************************************************************)
CameraLeaseReleased ==
    \A n \in Cams : cam[n].closed /\ cam[n].at = "none" => n \notin held

(***************************************************************************)
(* The lock is shown open for the whole time of the last unlock: the timer *)
(* of an earlier one that has already fired does not close it early, and   *)
(* when no timer is left it is shown secured (markUnlocking).              *)
(***************************************************************************)
LockFollowsLastUnlock ==
    /\ armedTimers # {} => lockShown = "unsecured"
    /\ armedTimers \cup firedTimers = {} => lockShown = "secured"
=============================================================================
