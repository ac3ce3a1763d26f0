------------------------------- MODULE WebRTC -------------------------------
(***************************************************************************)
(* media.WebRTCService: peers that watch the stream of an entrypoint.  An  *)
(* offer makes a session, reserves the stream and starts its source, with  *)
(* the offer lock held or, for a trickling client, on a goroutine that     *)
(* outlives the offer; the client, the peer connection and the source may  *)
(* close the session at any moment in between.  A session is numbered by   *)
(* its offer, since a client may use a session id again.  The peer         *)
(* connection and the coordinator's side of the lease are abstract: each   *)
(* call to them succeeds or fails.                                         *)
(***************************************************************************)
EXTENDS Integers

CONSTANTS
    SessionIds,     \* session ids the clients use
    MaxOffers,      \* bound on the offers
    MaxCandidates   \* maxPendingSessionCandidates

ASSUME WebRTCAssumption ==
    MaxOffers \in Nat /\ MaxCandidates \in Nat /\ SessionIds # {}

Offers == 1 .. MaxOffers
Drops == {"release", "leave"}

VARIABLES
    sessions,          \* session id -> the session registered, 0 for none
    pendingCandidates, \* session id -> candidates that came before the offer
    peer,              \* session -> its state
    offer,             \* the offer that holds offerMu: session and step
    inflight,          \* sessions a candidate was looked up for
    made,              \* offers made so far
    service            \* "open", "closing", "down"

webrtcVars == <<sessions, pendingCandidates, peer, offer, inflight, made, service>>

NoOffer == [session |-> 0, at |-> "none"]
NewPeer == [id |-> CHOOSE id \in SessionIds : TRUE, trickle |-> FALSE,
            removed |-> FALSE, closed |-> FALSE, how |-> "release", lease |-> "none",
            dropped |-> "no", remoteSet |-> FALSE, pendingICE |-> 0]
Peers == [id : SessionIds, trickle : BOOLEAN, removed : BOOLEAN, closed : BOOLEAN,
          how : Drops, dropped : Drops \cup {"no"}, remoteSet : BOOLEAN,
          lease : {"none", "starting", "acquired", "held", "dropping", "over"},
          pendingICE : 0 .. MaxCandidates]

WebRTCType ==
    /\ sessions \in [SessionIds -> 0 .. MaxOffers]
    /\ pendingCandidates \in [SessionIds -> 0 .. MaxCandidates]
    /\ peer \in [Offers -> Peers]
    /\ offer \in [session : 0 .. MaxOffers,
                  at : {"none", "new", "registered", "remote", "flushed", "source", "answer"}]
    /\ inflight \subseteq Offers
    /\ made \in 0 .. MaxOffers /\ service \in {"open", "closing", "down"}

WebRTCInit ==
    /\ sessions = [id \in SessionIds |-> 0]
    /\ pendingCandidates = [id \in SessionIds |-> 0]
    /\ peer = [n \in Offers |-> NewPeer]
    /\ offer = NoOffer /\ inflight = {} /\ made = 0 /\ service = "open"

-----------------------------------------------------------------------------
(* Closing a session *)

\* closeSessionWith, first lock: the session leaves the map, once.  A close
\* names an id; how it drops the lease is the caller's choice.
RemoveSession(id, how) ==
    LET n == sessions[id] IN
    /\ sessions' = [sessions EXCEPT ![id] = 0]
    /\ pendingCandidates' = [pendingCandidates EXCEPT ![id] = 0]
    /\ peer' = IF n = 0 THEN peer
               ELSE [peer EXCEPT ![n].removed = TRUE, ![n].how = how]

\* Close and Leave of the client, a failed or closed peer connection, a BYE or
\* a failure of the source; only the client leaves.
CloseSession(id, how) ==
    /\ sessions[id] # 0 \/ pendingCandidates[id] > 0
    /\ RemoveSession(id, how)
    /\ UNCHANGED <<offer, inflight, made, service>>

\* closeSessionWith, second lock: closed, and the lease taken.
MarkClosed(n) ==
    /\ peer[n].removed /\ ~peer[n].closed
    /\ peer' = [peer EXCEPT ![n].closed = TRUE,
                            ![n].lease = IF @ = "held" THEN "dropping" ELSE @]
    /\ UNCHANGED <<sessions, pendingCandidates, offer, inflight, made, service>>

DropLease(n) ==
    /\ peer[n].lease = "dropping"
    /\ peer' = [peer EXCEPT ![n].lease = "over", ![n].dropped = peer[n].how]
    /\ UNCHANGED <<sessions, pendingCandidates, offer, inflight, made, service>>

-----------------------------------------------------------------------------
(* Offer *)

\* prepareOffer and newOfferSession; a session that exists refuses the offer.
BeginOffer(id, trickle) ==
    /\ offer = NoOffer /\ service = "open" /\ made < MaxOffers
    /\ sessions[id] = 0
    /\ made' = made + 1
    /\ offer' = [session |-> made + 1, at |-> "new"]
    /\ peer' = [peer EXCEPT ![made + 1] =
                    [NewPeer EXCEPT !.id = id, !.trickle = trickle]]
    /\ UNCHANGED <<sessions, pendingCandidates, inflight, service>>

\* MUTANT of TakesPending: the early candidates stay where they are.
TakesPending_Not(n) ==
    /\ pendingCandidates' = pendingCandidates
    /\ peer' = peer

TakesPending(n) ==
    /\ peer' = [peer EXCEPT ![n].pendingICE = pendingCandidates[peer[n].id]]
    /\ pendingCandidates' = [pendingCandidates EXCEPT ![peer[n].id] = 0]

\* registerSession
Register(n) ==
    /\ offer = [session |-> n, at |-> "new"]
    /\ TakesPending(n)
    /\ sessions' = [sessions EXCEPT ![peer[n].id] = n]
    /\ offer' = [offer EXCEPT !.at = "registered"]
    /\ UNCHANGED <<inflight, made, service>>

\* A step of the offer fails, and closes the session it finds under its id.
OfferFails(n) ==
    /\ offer.session = n /\ offer.at \in {"registered", "remote", "flushed", "answer"}
    /\ RemoveSession(peer[n].id, "release")
    /\ offer' = NoOffer
    /\ UNCHANGED <<inflight, made, service>>

SetRemoteDescription(n) ==
    /\ offer = [session |-> n, at |-> "registered"]
    /\ offer' = [offer EXCEPT !.at = "remote"]
    /\ UNCHANGED <<sessions, pendingCandidates, peer, inflight, made, service>>

FlushPendingRemoteCandidates(n) ==
    /\ offer = [session |-> n, at |-> "remote"]
    /\ peer' = [peer EXCEPT ![n].remoteSet = TRUE, ![n].pendingICE = 0]
    /\ offer' = [offer EXCEPT !.at = "flushed"]
    /\ UNCHANGED <<sessions, pendingCandidates, inflight, made, service>>

\* reserveRingingPreview succeeded: the source starts, before the answer.
StartSource(n) ==
    /\ offer = [session |-> n, at |-> "flushed"]
    /\ peer' = [peer EXCEPT ![n].lease = "starting"]
    /\ offer' = [offer EXCEPT !.at = IF peer[n].trickle THEN "answer" ELSE "source"]
    /\ UNCHANGED <<sessions, pendingCandidates, inflight, made, service>>

\* createOfferAnswer
Answer(n) ==
    /\ offer = [session |-> n, at |-> "answer"]
    /\ offer' = NoOffer
    /\ UNCHANGED <<sessions, pendingCandidates, peer, inflight, made, service>>

\* The offer of a client that does not trickle goes on when its source is up.
Awaits(n, at) ==
    offer' = IF offer = [session |-> n, at |-> "source"]
               THEN IF at = "none" THEN NoOffer ELSE [offer EXCEPT !.at = at]
               ELSE offer

\* startOfferSource: acquireReserved returns, in time.
SourceStarts(n) ==
    /\ peer[n].lease = "starting"
    /\ peer' = [peer EXCEPT ![n].lease = "acquired"]
    /\ UNCHANGED <<sessions, pendingCandidates, offer, inflight, made, service>>

SourceFails(n) ==
    /\ peer[n].lease = "starting"
    /\ LET id == peer[n].id
           m == sessions[id]
           over == [peer EXCEPT ![n].lease = "over"] IN
       /\ sessions' = [sessions EXCEPT ![id] = 0]
       /\ pendingCandidates' = [pendingCandidates EXCEPT ![id] = 0]
       /\ peer' = IF m = 0 THEN over
                  ELSE [over EXCEPT ![m].removed = TRUE, ![m].how = "release"]
    /\ Awaits(n, "none")
    /\ UNCHANGED <<inflight, made, service>>

\* MUTANT of MustDrop: a session closed during the startup keeps its lease.
MustDrop_Never(n) == FALSE

MustDrop(n) == peer[n].closed

\* setLease, and what startOfferSource does with its verdict.
SetLease(n) ==
    /\ peer[n].lease = "acquired"
    /\ peer' = [peer EXCEPT ![n].lease = IF MustDrop(n) THEN "dropping" ELSE "held"]
    /\ Awaits(n, IF MustDrop(n) THEN "none" ELSE "answer")
    /\ UNCHANGED <<sessions, pendingCandidates, inflight, made, service>>

-----------------------------------------------------------------------------
(* Candidates *)

\* AddICECandidate: without a session the candidate waits for the offer.
AddICECandidate(id) ==
    /\ IF sessions[id] = 0
         THEN /\ pendingCandidates' = [pendingCandidates EXCEPT ![id] =
                                           IF @ < MaxCandidates THEN @ + 1 ELSE @]
              /\ UNCHANGED inflight
         ELSE /\ inflight' = inflight \cup {sessions[id]}
              /\ UNCHANGED pendingCandidates
    /\ UNCHANGED <<sessions, peer, offer, made, service>>

\* addCandidateToSession, on a session that may have moved on since.
AddCandidateToSession(n) ==
    /\ n \in inflight
    /\ inflight' = inflight \ {n}
    /\ peer' = IF peer[n].remoteSet \/ peer[n].pendingICE = MaxCandidates THEN peer
               ELSE [peer EXCEPT ![n].pendingICE = @ + 1]
    /\ UNCHANGED <<sessions, pendingCandidates, offer, made, service>>

\* pendingCandidateTTL elapses.
PrunePendingCandidates(id) ==
    /\ pendingCandidates[id] > 0
    /\ pendingCandidates' = [pendingCandidates EXCEPT ![id] = 0]
    /\ UNCHANGED <<sessions, peer, offer, inflight, made, service>>

-----------------------------------------------------------------------------
(* Shutdown *)

ShutdownBegins ==
    /\ offer = NoOffer /\ service = "open"
    /\ service' = "closing"
    /\ UNCHANGED <<sessions, pendingCandidates, peer, offer, inflight, made>>

Starting(n) == peer[n].trickle /\ peer[n].lease \in {"starting", "acquired"}

\* Every session has been closed, by the shutdown or before it, and starts.Wait
\* has seen the last startup end.
ShutdownEnds ==
    /\ service = "closing"
    /\ \A id \in SessionIds : sessions[id] = 0
    /\ \A n \in Offers : ~Starting(n)
    /\ service' = "down"
    /\ UNCHANGED <<sessions, pendingCandidates, peer, offer, inflight, made>>

WebRTCNext ==
    \/ \E id \in SessionIds :
           \/ \E how \in Drops : CloseSession(id, how)
           \/ \E trickle \in BOOLEAN : BeginOffer(id, trickle)
           \/ AddICECandidate(id) \/ PrunePendingCandidates(id)
    \/ \E n \in Offers :
           \/ MarkClosed(n) \/ DropLease(n) \/ Register(n) \/ OfferFails(n)
           \/ SetRemoteDescription(n) \/ FlushPendingRemoteCandidates(n)
           \/ StartSource(n) \/ Answer(n) \/ SourceStarts(n) \/ SourceFails(n)
           \/ SetLease(n) \/ AddCandidateToSession(n)
    \/ ShutdownBegins \/ ShutdownEnds

WebRTCSpec == WebRTCInit /\ [][WebRTCNext]_webrtcVars

-----------------------------------------------------------------------------

\* The stream a session holds goes when the session goes, at whatever moment of
\* its startup it was closed (webrtc.go:471): a lease held belongs to a session
\* that can still be closed, and a session that the client left never releases
\* the call it left.  Nothing is held once the service is down.
LeaseFollowsItsSession ==
    /\ \A n \in Offers :
           /\ peer[n].lease = "held" => ~peer[n].closed
           /\ peer[n].dropped # "no" => peer[n].dropped = peer[n].how
           /\ peer[n].lease = "held" /\ ~peer[n].removed =>
                  sessions[peer[n].id] = n
    /\ service = "down" =>
           \A n \in Offers : peer[n].lease = "held" => peer[n].removed

\* No candidate waits where nothing will look for it: once a session is
\* registered none waits under its id, and once its remote description is set
\* none waits inside it (webrtc.go:416, 769).
NoCandidateStranded ==
    /\ \A id \in SessionIds : sessions[id] # 0 => pendingCandidates[id] = 0
    /\ \A n \in Offers : peer[n].remoteSet => peer[n].pendingICE = 0
=============================================================================
