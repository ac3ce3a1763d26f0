---------------------------- MODULE BusObservers ----------------------------
(***************************************************************************)
(* The two observers the listener hands every bus frame to before it is    *)
(* mapped: app.ringVideoWatch, which holds the video request of a ring     *)
(* back until the intercom has started its own stream, and app.busCall,    *)
(* which remembers the call that is open on the bus so that the companion  *)
(* can close it once.  The ring timeline is kept only for the log and is   *)
(* left out, except for the intercom's stream, which the waiters depend    *)
(* on.  A channel is named by its creation number.                         *)
(***************************************************************************)
EXTENDS Integers

CONSTANTS
    Requests,     \* ringing previews that ask for video (StartVideo)
    BusCalls,     \* calls on the bus, by type and called address
    NoBusCall,    \* the empty called address
    Hangups,      \* concurrent callers of endBusCall
    MaxChannels   \* bound on the streamUp channels made

ASSUME ObserverAssumption == MaxChannels \in Nat \ {0} /\ NoBusCall \notin BusCalls

VARIABLES
    ringSeen,        \* ringAt is set
    ringRecent,      \* the ring start is younger than ringStartRepeat
    intercomStream,  \* the intercom's stream was seen in this ring
    streamUp,        \* the channel the next stream closes
    upClosed,        \* the channels closed
    request,         \* request -> "idle", the channel it waits on, or its end
    called, open,    \* busCall
    closing          \* hangup -> the call it took and is closing

watchVars == <<ringSeen, ringRecent, intercomStream, streamUp, upClosed, request>>
busVars == <<called, open, closing>>
observerVars == <<watchVars, busVars>>

Channels == 1 .. MaxChannels
RequestStates ==
    [at : {"idle", "waiting", "released", "cancelled"}, channel : 0 .. MaxChannels]
Idle == [at |-> "idle", channel |-> 0]

ObserverType ==
    /\ ringSeen \in BOOLEAN /\ ringRecent \in BOOLEAN
    /\ intercomStream \in BOOLEAN
    /\ streamUp \in Channels /\ upClosed \subseteq Channels
    /\ request \in [Requests -> RequestStates]
    /\ called \in BusCalls \cup {NoBusCall} /\ open \in BOOLEAN
    /\ closing \in [Hangups -> BusCalls \cup {NoBusCall}]

ObserverInit ==
    /\ ringSeen = FALSE /\ ringRecent = FALSE /\ intercomStream = FALSE
    /\ streamUp = 1 /\ upClosed = {}
    /\ request = [r \in Requests |-> Idle]
    /\ called = NoBusCall /\ open = FALSE
    /\ closing = [h \in Hangups |-> NoBusCall]

\* MUTANT of Renews: every ring makes a new channel.
Renews_Always == TRUE

\* startRing replaces streamUp only once it is closed: a request may already
\* wait on it.
Renews == intercomStream

StartRing ==
    /\ ~Renews \/ streamUp < MaxChannels
    /\ streamUp' = IF Renews THEN streamUp + 1 ELSE streamUp
    /\ ringSeen' = TRUE /\ ringRecent' = TRUE /\ intercomStream' = FALSE
    /\ UNCHANGED <<upClosed, request>>

\* A ring start frame; one that repeats the last is not a new ring.
RingStartFrame ==
    /\ IF ringSeen /\ ringRecent THEN UNCHANGED watchVars ELSE StartRing
    /\ UNCHANGED busVars

RingStartAges ==
    /\ ringRecent /\ ringRecent' = FALSE
    /\ UNCHANGED <<ringSeen, intercomStream, streamUp, upClosed, request, busVars>>

\* The first frame of the intercom's stream in a ring; the flag stands for the
\* time the timeline keeps, which is not zero since the frame follows its ring.
IntercomStreamFrame ==
    /\ IF ringSeen /\ ~intercomStream
         THEN /\ intercomStream' = TRUE
              /\ upClosed' = upClosed \cup {streamUp}
              /\ UNCHANGED <<ringSeen, ringRecent, streamUp, request>>
         ELSE UNCHANGED watchVars
    /\ UNCHANGED busVars

\* waitIntercomStream reads the channel under the lock and blocks on it after.
AskVideo(r) ==
    /\ request[r].at = "idle"
    /\ request' = [request EXCEPT ![r] = [at |-> "waiting", channel |-> streamUp]]
    /\ UNCHANGED <<ringSeen, ringRecent, intercomStream, streamUp, upClosed, busVars>>

\* The stream is up or the fallback elapsed, and StartVideo asks for the video;
\* or its context is cancelled.
Returned(r, at) ==
    /\ request[r].at = "waiting"
    /\ request' = [request EXCEPT ![r].at = at]
    /\ UNCHANGED <<ringSeen, ringRecent, intercomStream, streamUp, upClosed, busVars>>

StreamReleases(r) == request[r].channel \in upClosed /\ Returned(r, "released")
FallbackReleases(r) == Returned(r, "released")
ContextCancels(r) == Returned(r, "cancelled")

AsksAgain(r) ==
    /\ request[r].at \in {"released", "cancelled"}
    /\ request' = [request EXCEPT ![r] = Idle]
    /\ UNCHANGED <<ringSeen, ringRecent, intercomStream, streamUp, upClosed, busVars>>

-----------------------------------------------------------------------------

CallStartFrame(c) ==
    /\ called' = c /\ open' = TRUE
    /\ UNCHANGED <<closing, watchVars>>

\* The intercom sends a call end while a view starts, and another answer.
CallAnswerFrame ==
    /\ open' = (called # NoBusCall)
    /\ UNCHANGED <<called, closing, watchVars>>

CallEndFrame ==
    /\ open' = FALSE
    /\ UNCHANGED <<called, closing, watchVars>>

\* take: the call is marked closed before the frame is sent.
TakeBusCall(h) ==
    /\ closing[h] = NoBusCall /\ open
    /\ open' = FALSE
    /\ closing' = [closing EXCEPT ![h] = called]
    /\ UNCHANGED <<called, watchVars>>

\* endBusCall: EndCall returns, sent or failed, at the latest at its timeout.
BusCallEnded(h) ==
    /\ closing[h] # NoBusCall
    /\ closing' = [closing EXCEPT ![h] = NoBusCall]
    /\ UNCHANGED <<called, open, watchVars>>

ObserverNext ==
    \/ RingStartFrame \/ RingStartAges \/ IntercomStreamFrame
    \/ \E r \in Requests :
           \/ AskVideo(r) \/ StreamReleases(r) \/ FallbackReleases(r)
           \/ ContextCancels(r) \/ AsksAgain(r)
    \/ \E c \in BusCalls : CallStartFrame(c)
    \/ CallAnswerFrame \/ CallEndFrame
    \/ \E h \in Hangups : TakeBusCall(h) \/ BusCallEnded(h)

ObserverSpec == ObserverInit /\ [][ObserverNext]_observerVars

-----------------------------------------------------------------------------

\* A video request that waits is always reached by the next stream of the
\* intercom, whichever ring it belongs to and whenever it asked: its channel is
\* closed, or is the one the next stream closes (ringwatch.go:115).  And that
\* channel is open as long as no stream was seen, so no frame closes one twice,
\* which would panic.
NextStreamReachesWaiters ==
    /\ \A r \in Requests :
           request[r].at = "waiting" =>
               request[r].channel \in upClosed \cup {streamUp}
    /\ streamUp \in upClosed <=> intercomStream
=============================================================================
