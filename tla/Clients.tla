------------------------------ MODULE Clients ------------------------------
(***************************************************************************)
(* The WebSocket hub of the API (internal/api/websocket.go) and the event  *)
(* applier that feeds it and HomeKit (newEventApplier in                   *)
(* internal/app/run.go).                                                   *)
(*                                                                         *)
(* Events are applied by several goroutines at once: the call manager's    *)
(* drain, the bus listener, the stream observer, the HTTP handlers.  Each  *)
(* changes the projector's state and then tells HomeKit and every client   *)
(* of the hub, reading the state again for each.  A client joins the hub   *)
(* and is written the state it starts from.  A state is its revision here. *)
(*                                                                         *)
(* The second half is the WebRTC signalling socket: one handler per        *)
(* socket, which holds at most one session id and closes that session when *)
(* the socket goes.                                                        *)
(***************************************************************************)
EXTENDS Integers

CONSTANTS
    Appliers,      \* goroutines that apply events
    Viewers,       \* sockets of the state channel
    MaxRevisions,  \* bound on the events applied
    Signallers,    \* sockets of the WebRTC channel
    CardIds,       \* the session ids their clients choose
    NoCard         \* the empty session id

ASSUME ClientsAssumption == MaxRevisions \in Nat /\ NoCard \notin CardIds

VARIABLES
    revision,     \* of the projector's state
    applying,     \* applier -> its step, the state it has read, who is left to write
    synced,       \* the state HomeKit was given last
    hub,          \* the clients of the set
    viewer,       \* socket -> its step and the initial state it has read
    dropped,      \* connections that are closed
    sentTo,       \* socket -> the state written to it last
    given,        \* history: the newest state HomeKit was given
    reached,      \* history: socket -> the newest state written to it
    crossed,      \* history: appliers at work when the newest event was applied
    late,         \* history: sockets that held an older first state then
    signaller,    \* socket -> its step and session id, and the id it offers
    cards         \* the sessions the WebRTC service has open

tellVars == <<synced, sentTo, given, reached, crossed, late>>
hubVars == <<revision, applying, hub, viewer, dropped, tellVars>>
signalVars == <<signaller, cards>>
clientVars == <<hubVars, signalVars>>

Revisions == 0..MaxRevisions
NoApply == [at |-> "idle", read |-> 0, left |-> {}]
NoViewer == [at |-> "out", read |-> 0]
NoSignaller == [at |-> "out", holds |-> NoCard, offers |-> NoCard]

ClientsType ==
    /\ revision \in Revisions /\ synced \in Revisions /\ given \in Revisions
    /\ applying \in [Appliers -> [at : {"idle", "applied", "read", "told", "payload", "writes"},
                                  read : Revisions, left : SUBSET Viewers]]
    /\ hub \subseteq Viewers /\ dropped \subseteq Viewers
    /\ viewer \in [Viewers -> [at : {"out", "open", "read", "ready"}, read : Revisions]]
    /\ sentTo \in [Viewers -> Revisions] /\ reached \in [Viewers -> Revisions]
    /\ crossed \subseteq Appliers /\ late \subseteq Viewers
    /\ signaller \in [Signallers -> [at : {"out", "reads", "offering", "registered", "replies"},
                                     holds : CardIds \cup {NoCard}, offers : CardIds \cup {NoCard}]]
    /\ cards \subseteq CardIds

ClientsInit ==
    /\ revision = 0 /\ synced = 0 /\ given = 0
    /\ applying = [a \in Appliers |-> NoApply]
    /\ hub = {} /\ dropped = {}
    /\ viewer = [c \in Viewers |-> NoViewer]
    /\ sentTo = [c \in Viewers |-> 0] /\ reached = [c \in Viewers |-> 0]
    /\ crossed = {} /\ late = {}
    /\ signaller = [k \in Signallers |-> NoSignaller]
    /\ cards = {}

Newest(x, y) == IF x > y THEN x ELSE y

-----------------------------------------------------------------------------
(* newEventApplier: Apply, homeKit.Sync, BroadcastState, BroadcastEvent. *)

\* projector.Apply: the event changes the state.
ApplierApplies(a) ==
    /\ applying[a].at = "idle" /\ revision < MaxRevisions
    /\ revision' = revision + 1
    /\ applying' = [applying EXCEPT ![a].at = "applied"]
    /\ crossed' = {b \in Appliers \ {a} : applying[b].at # "idle"}
    /\ late' = {c \in Viewers : viewer[c].at = "read"}
    /\ UNCHANGED <<hub, viewer, dropped, synced, sentTo, given, reached, signalVars>>

\* projector.Snapshot, the argument of homeKit.Sync.
SnapshotForHomeKit(a) ==
    /\ applying[a].at = "applied"
    /\ applying' = [applying EXCEPT ![a].at = "read", ![a].read = revision]
    /\ UNCHANGED <<revision, hub, viewer, dropped, tellVars, signalVars>>

\* homeKit.Sync, under the manager's lock: it shows the state it is given.
SyncHomeKit(a) ==
    /\ applying[a].at = "read"
    /\ synced' = applying[a].read
    /\ given' = Newest(given, applying[a].read)
    /\ applying' = [applying EXCEPT ![a].at = "told"]
    /\ UNCHANGED <<revision, hub, viewer, dropped, sentTo, reached, crossed, late, signalVars>>

\* BroadcastState: the payload first, then the clients that are to get it.
BroadcastState(a) ==
    /\ applying[a].at = "told"
    /\ applying' = [applying EXCEPT ![a].at = "payload", ![a].read = revision]
    /\ UNCHANGED <<revision, hub, viewer, dropped, tellVars, signalVars>>

ListClients(a) ==
    /\ applying[a].at = "payload"
    /\ applying' = [applying EXCEPT ![a].at = "writes", ![a].left = hub]
    /\ UNCHANGED <<revision, hub, viewer, dropped, tellVars, signalVars>>

\* A state written to a client replaces the one it had.
Wrote(c, r) ==
    /\ sentTo' = [sentTo EXCEPT ![c] = r]
    /\ reached' = [reached EXCEPT ![c] = Newest(@, r)]

\* One write of broadcast.  A write that fails, or runs into its deadline, takes
\* the client off the set and closes its connection.
Broadcast(a, c) ==
    /\ applying[a].at = "writes" /\ c \in applying[a].left
    /\ applying' = [applying EXCEPT ![a].left = @ \ {c}]
    /\ \/ /\ viewer[c].at # "out" /\ c \notin dropped
          /\ Wrote(c, applying[a].read)
          /\ UNCHANGED <<hub, dropped>>
       \/ /\ hub' = hub \ {c}
          /\ dropped' = IF viewer[c].at = "out" THEN dropped ELSE dropped \cup {c}
          /\ UNCHANGED <<sentTo, reached>>
    /\ UNCHANGED <<revision, viewer, synced, given, crossed, late, signalVars>>

\* The state and the event are out.
ApplyReturns(a) ==
    /\ applying[a].at = "writes" /\ applying[a].left = {}
    /\ applying' = [applying EXCEPT ![a] = NoApply]
    /\ UNCHANGED <<revision, hub, viewer, dropped, tellVars, signalVars>>

-----------------------------------------------------------------------------
(* The state channel: one handler per socket. *)

\* When the handler adds its client to the set: as the socket opens.
\* MUTANT of JoinsAt: only after the first state is written.
JoinsAt_Ready == "ready"
JoinsAt == "open"

Join(c, step) == hub' = IF step = JoinsAt THEN hub \cup {c} ELSE hub

\* A socket is new: nobody is still writing to an earlier client of that name.
OpenSocket(c) ==
    /\ viewer[c].at = "out" /\ \A a \in Appliers : c \notin applying[a].left
    /\ viewer' = [viewer EXCEPT ![c].at = "open"]
    /\ Join(c, "open")
    /\ UNCHANGED <<revision, applying, dropped, tellVars, signalVars>>

\* currentPayload for the first message
ReadInitialState(c) ==
    /\ viewer[c].at = "open"
    /\ viewer' = [viewer EXCEPT ![c] = [at |-> "read", read |-> revision]]
    /\ UNCHANGED <<revision, applying, hub, dropped, tellVars, signalVars>>

WriteInitialState(c) ==
    /\ viewer[c].at = "read" /\ c \notin dropped
    /\ viewer' = [viewer EXCEPT ![c].at = "ready"]
    /\ Wrote(c, viewer[c].read)
    /\ Join(c, "ready")
    /\ UNCHANGED <<revision, applying, dropped, synced, given, crossed, late, signalVars>>

\* The peer closes, the heartbeat runs out, or CloseWebSockets closes it.
LoseConnection(c) ==
    /\ viewer[c].at # "out" /\ c \notin dropped
    /\ dropped' = dropped \cup {c}
    /\ UNCHANGED <<revision, applying, hub, viewer, tellVars, signalVars>>

\* The handler's write or read fails and it returns.
LeaveHub(c) ==
    /\ viewer[c].at \in {"read", "ready"} /\ c \in dropped
    /\ hub' = hub \ {c} /\ dropped' = dropped \ {c}
    /\ viewer' = [viewer EXCEPT ![c] = NoViewer]
    /\ sentTo' = [sentTo EXCEPT ![c] = 0] /\ reached' = [reached EXCEPT ![c] = 0]
    /\ UNCHANGED <<revision, applying, synced, given, crossed, late, signalVars>>

HubNext ==
    \/ \E a \in Appliers : \/ ApplierApplies(a) \/ SnapshotForHomeKit(a) \/ SyncHomeKit(a)
                           \/ BroadcastState(a) \/ ListClients(a) \/ ApplyReturns(a)
                           \/ \E c \in Viewers : Broadcast(a, c)
    \/ \E c \in Viewers : \/ OpenSocket(c) \/ ReadInitialState(c) \/ WriteInitialState(c)
                          \/ LoseConnection(c) \/ LeaveHub(c)

-----------------------------------------------------------------------------
(* The WebRTC channel. *)

Signals(k, s) == signaller' = [signaller EXCEPT ![k] = s]

OpenSignalling(k) ==
    /\ signaller[k].at = "out"
    /\ Signals(k, [NoSignaller EXCEPT !.at = "reads"])
    /\ UNCHANGED <<cards, hubVars>>

\* An offer is taken only on a socket that holds no session.
\* MUTANT of MayOffer: a second offer replaces the id the socket holds.
MayOffer_Always(k) == TRUE
MayOffer(k) == signaller[k].holds = NoCard

OfferMessage(k, id) ==
    /\ signaller[k].at = "reads" /\ MayOffer(k)
    /\ Signals(k, [signaller[k] EXCEPT !.at = "offering", !.offers = id])
    /\ UNCHANGED <<cards, hubVars>>

\* Inside the service's Offer, one at a time, the session is registered unless its
\* id is taken.
OfferRegisters(k) ==
    /\ signaller[k].at = "offering" /\ signaller[k].offers \notin cards
    /\ \A j \in Signallers : signaller[j].at # "registered"
    /\ Signals(k, [signaller[k] EXCEPT !.at = "registered"])
    /\ cards' = cards \cup {signaller[k].offers}
    /\ UNCHANGED hubVars

\* Offer returns: with an answer, or refused; closeSession goes by the id.
OfferAnswered(k) ==
    /\ signaller[k].at = "registered"
    /\ Signals(k, [at |-> "replies", holds |-> signaller[k].offers, offers |-> NoCard])
    /\ UNCHANGED <<cards, hubVars>>

OfferRefused(k) ==
    /\ signaller[k].at \in {"offering", "registered"}
    /\ cards' = IF signaller[k].at = "registered" THEN cards \ {signaller[k].offers} ELSE cards
    /\ Signals(k, [signaller[k] EXCEPT !.at = "replies", !.offers = NoCard])
    /\ UNCHANGED hubVars

\* A close message, with leave or without.
CloseMessage(k) ==
    /\ signaller[k].at = "reads" /\ signaller[k].holds # NoCard
    /\ cards' = cards \ {signaller[k].holds}
    /\ Signals(k, [signaller[k] EXCEPT !.at = "replies", !.holds = NoCard])
    /\ UNCHANGED hubVars

Reply(k) ==
    /\ signaller[k].at = "replies"
    /\ Signals(k, [signaller[k] EXCEPT !.at = "reads"])
    /\ UNCHANGED <<cards, hubVars>>

\* The read, the heartbeat or the reply fails: the deferred function runs.
SignallingEnds(k) ==
    /\ signaller[k].at \in {"reads", "replies"}
    /\ cards' = cards \ {signaller[k].holds}
    /\ Signals(k, NoSignaller)
    /\ UNCHANGED hubVars

\* The service closes a session on its own: the peer connection failed.
CardFails(id) ==
    /\ id \in cards
    /\ cards' = cards \ {id}
    /\ UNCHANGED <<signaller, hubVars>>

SignalNext ==
    \/ \E k \in Signallers : \/ OpenSignalling(k) \/ OfferRegisters(k) \/ OfferAnswered(k)
                             \/ OfferRefused(k) \/ CloseMessage(k) \/ Reply(k)
                             \/ SignallingEnds(k) \/ \E id \in CardIds : OfferMessage(k, id)
    \/ \E id \in CardIds : CardFails(id)

ClientsSpec == ClientsInit /\ [][HubNext \/ SignalNext]_clientVars

-----------------------------------------------------------------------------
(* Properties. *)

\* When nobody is applying an event, HomeKit and every client whose first state
\* was written have been given the newest state, however the appliers and the
\* opening of sockets interleaved: the hub keeps no queue for a client, and one
\* that joined after the list was taken must have read the state after it changed.
\* It is also the state they were given last, unless the newest event was applied
\* while another applier was at work or the socket's first state was on its way:
\* nothing orders those writes (websocket in websocket.go, newEventApplier).
NewestStateReached ==
    (\A a \in Appliers : applying[a].at = "idle") =>
        /\ given = revision
        /\ crossed = {} => synced = revision
        /\ \A c \in Viewers : viewer[c].at = "ready" /\ c \notin dropped =>
              /\ reached[c] = revision
              /\ crossed = {} /\ c \notin late => sentTo[c] = revision

\* A session that is open in the WebRTC service has a socket whose handler will
\* close it: one that holds its id, or one whose offer of it is not over.  No
\* order of offers, closes and lost sockets leaves a stream running for nobody
\* (webrtcWebsocket and webrtcResponse in websocket.go).
SessionHasSocket ==
    \A id \in cards : \E k \in Signallers : id \in {signaller[k].holds, signaller[k].offers}

=============================================================================
