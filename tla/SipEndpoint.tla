----------------------------- MODULE SipEndpoint -----------------------------
(***************************************************************************)
(* signaling.streamDialer as an endpoint: the loop that keeps it known to  *)
(* Flexisip, the goroutines of its inbound requests, and Close, which ends *)
(* both.  Flexisip keeps its registrations in memory and is restarted by   *)
(* the firmware; the only trace of that is the connection it closes, and   *)
(* any other request to it opens a connection to the same address again.   *)
(***************************************************************************)
EXTENDS Integers

CONSTANTS
    Inbound,        \* inbound requests
    MaxRestarts,    \* bound on the restarts of Flexisip
    MaxFailures     \* bound on the registrations it refuses while it is up

ASSUME EndpointAssumption == {MaxRestarts, MaxFailures} \subseteq Nat

VARIABLES
    loop,       \* where registration.run is
    known,      \* Flexisip has the registration
    up,         \* Flexisip runs
    link,       \* a connection to the registrar's address is open
    registered, \* a REGISTER was answered, so registrarAddr is set
    flexRestarts,   \* restarts so far
    flexFailures,   \* refusals so far
    closeAt,    \* how far Close has come
    handler     \* inbound request -> its goroutine

loopVars == <<loop, known, link, registered, flexFailures>>
flexVars == <<up, flexRestarts>>
closeVars == <<closeAt, handler>>
endpointVars == <<loopVars, flexVars, closeVars>>

CloseStages == {"open", "cancelled", "flagged", "down", "closed"}

EndpointType ==
    /\ loop \in {"register", "sleep", "wait", "stopped"}
    /\ {known, up, link, registered} \subseteq BOOLEAN
    /\ flexRestarts \in 0 .. MaxRestarts /\ flexFailures \in 0 .. MaxFailures
    /\ closeAt \in CloseStages
    /\ handler \in [Inbound -> {"none", "read", "tracked", "over"}]

EndpointInit ==
    /\ loop = "register" /\ up = TRUE
    /\ known = FALSE /\ link = FALSE /\ registered = FALSE
    /\ flexRestarts = 0 /\ flexFailures = 0 /\ closeAt = "open"
    /\ handler = [h \in Inbound |-> "none"]

(***************************************************************************)
(* Registration.                                                           *)
(***************************************************************************)

\* One REGISTER.  A success remembers the address it was answered from; a
\* failure is retried after a delay.
Register ==
    /\ loop = "register" /\ closeAt = "open"
    /\ \/ /\ up /\ known' = TRUE /\ link' = TRUE /\ registered' = TRUE
          /\ loop' = "wait" /\ UNCHANGED flexFailures
       \/ /\ ~up /\ loop' = "sleep"
          /\ UNCHANGED <<known, link, registered, flexFailures>>
       \/ /\ up /\ flexFailures < MaxFailures
          /\ flexFailures' = flexFailures + 1 /\ loop' = "sleep" /\ link' = TRUE
          /\ UNCHANGED <<known, registered>>
    /\ UNCHANGED <<flexVars, closeVars>>

RetryDue ==
    /\ loop = "sleep" /\ closeAt = "open"
    /\ loop' = "register"
    /\ UNCHANGED <<known, link, registered, flexFailures, flexVars, closeVars>>

\* registrarConnected: is there a connection to that address.
RegistrarConnected == ~registered \/ link

CheckDue ==
    /\ loop = "wait" /\ closeAt = "open"
    /\ ~RegistrarConnected /\ loop' = "register"
    /\ UNCHANGED <<known, link, registered, flexFailures, flexVars, closeVars>>

\* MUTANT of RefreshDue: only the connection is watched.
RefreshDue_Never == FALSE /\ UNCHANGED endpointVars
RefreshDue ==
    /\ loop = "wait" /\ closeAt = "open"
    /\ loop' = "register"
    /\ UNCHANGED <<known, link, registered, flexFailures, flexVars, closeVars>>

\* The loop's context was cancelled: its request, delay or wait returns.
LoopStops ==
    /\ loop # "stopped" /\ closeAt # "open"
    /\ loop' = "stopped"
    /\ UNCHANGED <<known, link, registered, flexFailures, flexVars, closeVars>>

\* Flexisip is restarted: its registrations and connections are gone.
FlexisipStops ==
    /\ up /\ flexRestarts < MaxRestarts
    /\ up' = FALSE /\ flexRestarts' = flexRestarts + 1
    /\ known' = FALSE /\ link' = FALSE
    /\ UNCHANGED <<loop, registered, flexFailures, closeVars>>

FlexisipStarts ==
    /\ ~up /\ up' = TRUE
    /\ UNCHANGED <<flexRestarts, loopVars, closeVars>>

\* StartStream sends its INVITE to the same address, over a new connection when
\* there is none.
DialOpensLink ==
    /\ up /\ ~link /\ closeAt = "open"
    /\ link' = TRUE
    /\ UNCHANGED <<loop, known, registered, flexFailures, flexVars, closeVars>>

(***************************************************************************)
(* Inbound requests and Close.                                             *)
(***************************************************************************)

\* The transport hands a request to its handler.
RequestRead(h) ==
    /\ handler[h] = "none" /\ closeAt \in {"open", "cancelled", "flagged"}
    /\ handler' = [handler EXCEPT ![h] = "read"]
    /\ UNCHANGED <<loopVars, flexVars, closeAt>>

\* A request that races the shutdown is refused.
MayTrack == closeAt \in {"open", "cancelled"}

TrackInbound(h) ==
    /\ handler[h] = "read"
    /\ handler' = [handler EXCEPT ![h] = IF MayTrack THEN "tracked" ELSE "over"]
    /\ UNCHANGED <<loopVars, flexVars, closeAt>>

\* The handler is parked on its INVITE transaction until the call is settled or
\* the user agent terminates the transaction.
CallSettled(h) ==
    /\ handler[h] = "tracked"
    /\ handler' = [handler EXCEPT ![h] = "over"]
    /\ UNCHANGED <<loopVars, flexVars, closeAt>>

Terminated(h) == closeAt \in {"down", "closed"} /\ CallSettled(h)

Tracked == {h \in Inbound : handler[h] = "tracked"}

\* Close: both contexts are cancelled, the loop is waited for, newcomers are
\* turned away, the user agent goes down, and the handlers are waited for.
CloseCancels ==
    /\ closeAt = "open" /\ closeAt' = "cancelled"
    /\ UNCHANGED <<loopVars, flexVars, handler>>

CloseFlags ==
    /\ closeAt = "cancelled" /\ loop = "stopped" /\ closeAt' = "flagged"
    /\ UNCHANGED <<loopVars, flexVars, handler>>

\* MUTANT of CloseUserAgent: the handlers are waited for first.
CloseUserAgent_Last ==
    /\ closeAt = "flagged" /\ Tracked = {} /\ closeAt' = "down"
    /\ UNCHANGED <<loopVars, flexVars, handler>>
CloseUserAgent ==
    /\ closeAt = "flagged" /\ closeAt' = "down"
    /\ UNCHANGED <<loopVars, flexVars, handler>>

CloseReturns ==
    /\ closeAt = "down" /\ Tracked = {} /\ closeAt' = "closed"
    /\ UNCHANGED <<loopVars, flexVars, handler>>

EndpointNext ==
    \/ Register \/ RetryDue \/ CheckDue \/ RefreshDue \/ LoopStops
    \/ FlexisipStops \/ FlexisipStarts \/ DialOpensLink
    \/ CloseCancels \/ CloseFlags \/ CloseUserAgent \/ CloseReturns
    \/ \E h \in Inbound : \/ RequestRead(h) \/ TrackInbound(h)
                          \/ CallSettled(h) \/ Terminated(h)

\* The loop, its timers, Close and the end of a transaction run by themselves,
\* and the firmware brings Flexisip back; nobody has to settle a call.
EndpointFairness ==
    /\ WF_endpointVars(Register) /\ WF_endpointVars(RetryDue)
    /\ WF_endpointVars(CheckDue) /\ WF_endpointVars(RefreshDue)
    /\ WF_endpointVars(LoopStops) /\ WF_endpointVars(FlexisipStarts)
    /\ WF_endpointVars(CloseFlags) /\ WF_endpointVars(CloseUserAgent)
    /\ WF_endpointVars(CloseReturns)
    /\ \A h \in Inbound : /\ WF_endpointVars(TrackInbound(h))
                          /\ WF_endpointVars(Terminated(h))

(***************************************************************************)
(* The companion becomes known to Flexisip again after every restart of    *)
(* it, also when a stream dialled meanwhile has reopened the connection    *)
(* whose loss is the sign of the restart (registration.run).               *)
(***************************************************************************)
RegistrationRestored ==
    (~known /\ closeAt = "open") ~> (known \/ closeAt # "open")

(***************************************************************************)
(* Close returns, although a ringing call that nobody settles parks its    *)
(* handler: the order of Close's steps is what wakes it.                   *)
(***************************************************************************)
CloseEnds == (closeAt # "open") ~> (closeAt = "closed")
=============================================================================
