------------------------- MODULE StreamCoordinator -------------------------
(***************************************************************************)
(* media.StreamCoordinator and its fanout: who holds the intercom's single *)
(* media source.  Consumers (cards, the ring holder, RTSP and HomeKit      *)
(* readers) acquire it, share it and let go of it, while call events, the  *)
(* API's hangup, bus frames and the source itself stop it.                 *)
(*                                                                         *)
(* Every critical section of StreamCoordinator.mu is one action, and what  *)
(* a goroutine does between two of them is an action of its own.           *)
(*                                                                         *)
(* A consumer is one acquire call and the hold it returns.  nextID and     *)
(* nextConsumer never repeat a number, so a lease is named after the       *)
(* consumer that reserved it, and so are its fanout and its source.        *)
(***************************************************************************)
EXTENDS CallLine

CONSTANTS
    Consumers,   \* acquire calls
    Plain,       \* the ones that neither share nor preview: RTSP, HomeKit
    EntryOf,     \* the entrypoint each consumer asks for
    Door,        \* the entrypoint that rings
    Happens      \* what the environment does: a subset of Happenings

ASSUME ConsumersAssumption == Consumers = Streams /\ Plain \subseteq Consumers
ASSUME EntryAssumption == EntryOf \in [Consumers -> Entrypoints] /\ Door \in Entrypoints

\* Far end BYE, bridge failure, silent tracks, bus frames, the API's hangup,
\* startup budgets that run out, uplink packets.
Happenings ==
    {"bye", "failure", "stall", "frames", "hangup", "timeout", "talk"}

ASSUME HappensAssumption == Happens \subseteq Happenings

VARIABLES
    co,        \* StreamCoordinator's fields
    fan,       \* per lease: fanout.consumers and fanout.closed
    startup,   \* per lease: streamStart
    src,       \* per lease: its managed source
    shut,      \* sources whose pipelines are closed (streamPipelines.closed)
    callback,  \* the source made last, whose callback the dialer holds
    dialled,   \* the source whose outbound dialog the manager holds
    owns,      \* sources with SourceSession.ownsDialog
    gone,      \* sources with SourceSession.remoteEnded
    td,        \* per lease: where its teardown is (stop, finishStop)
    con,       \* per consumer: where its acquire, or its leave, is
    drain,     \* the call event drain, which runs StopRinging
    hanger,    \* an API request in Manager.Hangup, which runs EndCall
    told,      \* consumers told that their stream is over
    state,     \* core.Projector.state, of which this module moves the preview
    rung,      \* history: calls that have rung
    ended,     \* history: leases held when their answered call was hung up
    robbed     \* history: sources whose dialled dialog somebody else dropped

coordVars == <<co, fan, startup>>
sessionVars == <<owns, gone>>
sourceVars == <<src, shut, callback, dialled, sessionVars>>
historyVars == <<rung, ended, robbed>>
agentVars == <<drain, hanger>>
vars == <<callVars, coordVars, sourceVars, td, con, agentVars, told, state, historyVars>>

Leases == Consumers
Causes == {"released", "left", "remoteBye", "controlStop", "tracksStalled",
           "sourceFailure", "startupFailed", "startupTimedOut", "ringingEnded",
           "callEnded"}
ASSUME CausesAssumption == None \notin Causes   \* None: no teardown yet

Tracks == {"video", "audio"}

\* No lease: what finishStop leaves, apart from the source field.
IdleFields ==
    [lease |-> None, owner |-> "idle", requested |-> {}, control |-> FALSE,
     starting |-> FALSE, stopping |-> FALSE, preview |-> FALSE,
     promotePending |-> FALSE, promoting |-> FALSE, shared |-> FALSE,
     talker |-> None, source |-> None]

\* The snapshot an observer is handed.
Snapshot(fields) == [owner |-> fields.owner, lease |-> fields.lease]

Snapshots == [owner : {"idle", "companion", "external"}, lease : Leases \cup {None}]

NoTeardown == [pc |-> "none", cause |-> None, source |-> None, tells |-> FALSE,
               snap |-> Snapshot(IdleFields)]
NoAgent == [pc |-> "idle", lease |-> None, cause |-> None]
NewConsumer == [pc |-> "idle", lease |-> None, ring |-> None, answered |-> FALSE,
                by |-> None, snap |-> Snapshot(IdleFields)]

ConsumerPCs ==
    {"idle", "ringProbed", "probed", "reserved", "joining", "added", "made",
     "attached", "starting", "failed", "timedOut", "started", "finishing",
     "announcing", "observing", "aborting", "abortObserving", "holding",
     "leaving", "untalking", "untalkingLast", "lastOut", "done"}

CoordinatorType ==
    co \in [lease : Leases \cup {None}, owner : {"idle", "companion", "external"},
            requested : SUBSET Tracks, control : BOOLEAN, starting : BOOLEAN,
            stopping : BOOLEAN, preview : BOOLEAN, promotePending : BOOLEAN,
            promoting : BOOLEAN, shared : BOOLEAN,
            talker : Consumers \cup {None}, source : Leases \cup {None}]

StreamType ==
    /\ fan \in [Leases -> [members : SUBSET Consumers, closed : BOOLEAN]]
    /\ startup \in [Leases -> {"pending", "up", "stopped"}]
    /\ src \in [Leases -> {"none", "made", "launched", "starting", "inCall",
                           "asking", "up", "failed", "closed"}]
    /\ shut \subseteq Leases
    /\ callback \in Leases \cup {None}
    /\ dialled \in Leases \cup {None}
    /\ owns \subseteq Leases /\ gone \subseteq Leases
    /\ td \in [Leases -> [pc : {"none", "close", "await", "reset", "observe",
                                "tell", "done"},
                          cause : Causes \cup {None}, source : Leases \cup {None},
                          tells : BOOLEAN, snap : Snapshots]]

AgentType ==
    /\ con \in [Consumers ->
                  [pc : ConsumerPCs, lease : Leases \cup {None},
                   ring : Dialogs \cup {None}, answered : BOOLEAN,
                   by : {"released", "left", None}, snap : Snapshots]]
    /\ drain \in [pc : {"idle", "stop", "wait"}, lease : Leases \cup {None},
                  cause : Causes \cup {None}]
    /\ hanger \in [pc : {"idle", "bye", "stop", "wait"}, lease : Leases \cup {None},
                   cause : Causes \cup {None}]
    /\ told \subseteq Consumers
    /\ state \in States
    /\ rung \subseteq Dialogs
    /\ ended \subseteq Leases /\ robbed \subseteq Leases

\* Every variable holds a value of its type.
TypeOK == CallType /\ CoordinatorType /\ StreamType /\ AgentType

Init ==
    /\ CallInit
    /\ co = IdleFields
    /\ fan = [l \in Leases |-> [members |-> {}, closed |-> FALSE]]
    /\ startup = [l \in Leases |-> "pending"]
    /\ src = [l \in Leases |-> "none"]
    /\ shut = {}
    /\ callback = None
    /\ dialled = None
    /\ owns = {} /\ gone = {}
    /\ td = [l \in Leases |-> NoTeardown]
    /\ con = [c \in Consumers |-> NewConsumer]
    /\ drain = NoAgent
    /\ hanger = NoAgent
    /\ told = {}
    /\ state = InitialState
    /\ rung = {}
    /\ ended = {} /\ robbed = {}

At(c, pc) == con[c].pc = pc
Goes(c, pc) == con' = [con EXCEPT ![c].pc = pc]

-----------------------------------------------------------------------------
(* fanout *)

\* fanout.add, once its closed check passed
Adds(l, c) == fan' = [fan EXCEPT ![l].members = @ \cup {c}]

\* MUTANT of Removes: the last one out leaves the door open.
Removes_LeavesOpen(l, c) == fan' = [fan EXCEPT ![l].members = @ \ {c}]

\* fanout.remove: the last one out closes the fan-out in the same step.
Removes(l, c) ==
    LET rest == fan[l].members \ {c}
    IN fan' = [fan EXCEPT ![l] = [members |-> rest, closed |-> @.closed \/ rest = {}]]

\* MUTANT of Closes: a stopping stream can still be joined.
Closes_StaysOpen(l) == UNCHANGED fan

\* fanout.close
Closes(l) == fan' = [fan EXCEPT ![l].closed = TRUE]

\* fanout.failed and fanout.remoteBYE
Tells(l) == told' = told \cup fan[l].members

-----------------------------------------------------------------------------
(* newStreamStateObserver; the idle observer stops whatever preview it finds *)

Observe(snap) ==
    state' = CASE snap.owner = "companion" ->
                    Apply(state, PreviewStarted(snap.lease, EntryOf[snap.lease]))
               [] snap.owner = "idle" /\ state.previewStream # NoPreview ->
                    Apply(state, PreviewStopped(state.previewStream.stream))
               [] OTHER -> state

-----------------------------------------------------------------------------
(* stop and finishStop *)

CanStop(l) == co.lease = l /\ ~co.stopping

\* Whether the consumers hear of the end: from the wrapped source events, from
\* StopRinging and EndCall, and of a preview lost to the media layer.
TellsConsumers(cause) ==
    \/ cause \in {"remoteBye", "sourceFailure", "ringingEnded", "callEnded"}
    \/ cause \in {"controlStop", "tracksStalled"} /\ co.preview

\* stop up to its unlock, for the caller that wins
BeginStop(l, cause) ==
    /\ co' = [co EXCEPT !.stopping = TRUE, !.source = None, !.promoting = FALSE]
    /\ Closes(l)
    /\ td' = [td EXCEPT ![l].pc = IF co.source = None THEN "reset" ELSE "close",
                        ![l].cause = cause, ![l].source = co.source,
                        ![l].tells = TellsConsumers(cause)]

\* stop: ignored unless the lease is current and not stopping yet
Stop(l, cause) ==
    IF CanStop(l) THEN BeginStop(l, cause) ELSE UNCHANGED <<co, fan, td>>

\* bridgeSource.Close: no later pipeline start, and a startup in progress is
\* cancelled and waited for.
CloseSource(l) ==
    /\ td[l].pc = "close"
    /\ shut' = shut \cup {td[l].source}
    /\ td' = [td EXCEPT ![l].pc = "await"]
    /\ UNCHANGED <<callVars, coordVars, src, callback, dialled, sessionVars, con, agentVars, told, state, historyVars>>

\* MUTANT of HangupCall: the end of a dialled preview is published as a call's.
HangupCall_PublishesPreview ==
    IF dialled # None
    THEN dialled' = None /\ Commit(CallHungUp(None)) /\ UNCHANGED <<ringing, answered>>
    ELSE UNCHANGED <<callVars, dialled>>

\* Manager.HangupCall, and RemoteDialogEnded, which drops the dialog likewise: a
\* dialled preview has no dialog ID and publishes nothing.
HangupCall ==
    IF dialled # None THEN dialled' = None /\ UNCHANGED callVars
    ELSE /\ \/ HungUp
            \/ answered = None /\ UNCHANGED callVars
         /\ UNCHANGED dialled

\* History: a dialog dropped by anybody but the source that dialled it.
Robs(by) ==
    robbed' = robbed \cup (IF dialled' = None THEN {dialled} \ {by, None} ELSE {})

\* MUTANT of SourceClosed: every teardown hangs the call up.
SourceClosed_AlwaysHangsUp(l) ==
    /\ td[l].pc = "await"
    /\ LET s == td[l].source
       IN /\ src[s] \notin {"starting", "inCall", "asking"}
          /\ src' = [src EXCEPT ![s] = IF @ = "up" THEN "closed" ELSE @]
          /\ IF src[s] = "up" THEN HangupCall ELSE UNCHANGED <<callVars, dialled>>
          /\ Robs(s)
    /\ td' = [td EXCEPT ![l].pc = "reset"]
    /\ UNCHANGED <<coordVars, shut, callback, sessionVars, con, agentVars, told, state, rung, ended>>

\* SourceSession.Close, here or in the cleanup that follows it, ends a source
\* that is up, and its call if the session owns it or a consumer released it.  A
\* source whose Start has not begun yet is left as it is.
SourceClosed(l) ==
    /\ td[l].pc = "await"
    /\ LET s == td[l].source
       IN /\ src[s] \notin {"starting", "inCall", "asking"}
          /\ src' = [src EXCEPT ![s] = IF @ = "up" THEN "closed" ELSE @]
          /\ IF src[s] = "up" /\ s \notin gone /\ (s \in owns \/ td[l].cause = "released")
             THEN HangupCall
             ELSE UNCHANGED <<callVars, dialled>>
          /\ Robs(s)
    /\ td' = [td EXCEPT ![l].pc = "reset"]
    /\ UNCHANGED <<coordVars, shut, callback, sessionVars, con, agentVars, told, state, rung, ended>>

\* MUTANT of ResetFields: consumers waiting to join are not woken.
ResetFields_NoWake(l) ==
    IF co.lease = l
    THEN co' = [IdleFields EXCEPT !.source = co.source] /\ Closes(l) /\ UNCHANGED startup
    ELSE UNCHANGED <<co, fan, startup>>

\* The critical section of finishStop, and streamStart.finish after it.  The
\* source field is the one it does not reset.
ResetFields(l) ==
    IF co.lease = l
    THEN /\ co' = [IdleFields EXCEPT !.source = co.source]
         /\ Closes(l)
         /\ startup' = [startup EXCEPT ![l] = IF @ = "pending" THEN "stopped" ELSE @]
    ELSE UNCHANGED <<co, fan, startup>>

SnapshotAfterReset(l) ==
    IF co.lease = l THEN Snapshot(IdleFields) ELSE Snapshot(co)

TeardownResets(l) ==
    /\ td[l].pc = "reset"
    /\ ResetFields(l)
    /\ td' = [td EXCEPT ![l].pc = "observe", ![l].snap = SnapshotAfterReset(l)]
    /\ UNCHANGED <<callVars, sourceVars, con, agentVars, told, state, historyVars>>

TeardownObserved(l) ==
    /\ td[l].pc = "observe"
    /\ Observe(td[l].snap)
    /\ td' = [td EXCEPT ![l].pc = "tell", ![l].snap = Snapshot(IdleFields)]
    /\ UNCHANGED <<callVars, coordVars, sourceVars, con, agentVars, told, historyVars>>

TeardownTells(l) ==
    /\ td[l].pc = "tell"
    /\ IF td[l].tells THEN Tells(l) ELSE UNCHANGED told
    /\ td' = [td EXCEPT ![l].pc = "done"]
    /\ UNCHANGED <<callVars, coordVars, sourceVars, con, agentVars, state, historyVars>>

TeardownStep(l) ==
    \/ CloseSource(l) \/ SourceClosed(l) \/ TeardownResets(l)
    \/ TeardownObserved(l) \/ TeardownTells(l)

-----------------------------------------------------------------------------
(* acquire: reserve *)

\* ringingCall, answeredCall: sampled with StreamCoordinator.mu released
ProbesRinging(c) ==
    /\ At(c, "idle")
    /\ con' = [con EXCEPT ![c].pc = "ringProbed", ![c].ring = ringing]
    /\ UNCHANGED <<callVars, coordVars, sourceVars, td, agentVars, told, state, historyVars>>

ProbesAnswered(c) ==
    /\ At(c, "ringProbed")
    /\ con' = [con EXCEPT ![c].pc = "probed", ![c].answered = answered # None]
    /\ UNCHANGED <<callVars, coordVars, sourceVars, td, agentVars, told, state, historyVars>>

Shareable(c) == c \notin Plain

\* ErrRingingCall, ErrExternalStream
Forbidden(c) ==
    \/ con[c].ring # None /\ ~Shareable(c)
    \/ co.owner = "external" /\ ~con[c].answered /\ con[c].ring = None

Joins(c) ==
    /\ co.lease # None /\ Shareable(c) /\ co.shared /\ ~co.stopping
    /\ EntryOf[co.lease] = EntryOf[c]

\* A new lease: every field of the coordinator but the source is set afresh.
NewLease(c) ==
    [IdleFields EXCEPT !.lease = c, !.owner = "companion", !.starting = TRUE,
                       !.preview = con[c].ring # None, !.shared = Shareable(c),
                       !.source = co.source, !.promoting = co.promoting]

Reserve(c) ==
    /\ At(c, "probed")
    /\ \/ /\ Forbidden(c) \/ (~Joins(c) /\ co.lease # None)
          /\ Goes(c, "done")
          /\ UNCHANGED co
       \/ /\ ~Forbidden(c) /\ Joins(c)
          /\ con' = [con EXCEPT ![c].pc = "joining", ![c].lease = co.lease,
                                ![c].ring = None, ![c].answered = FALSE]
          /\ UNCHANGED co
       \/ /\ ~Forbidden(c) /\ co.lease = None
          /\ con' = [con EXCEPT ![c].pc = "reserved", ![c].lease = c,
                                ![c].answered = FALSE]
          /\ co' = NewLease(c)
    /\ UNCHANGED <<callVars, fan, startup, sourceVars, td, agentVars, told, state, historyVars>>

-----------------------------------------------------------------------------
(* join *)

\* The startup is over and went well: the consumer is added, unless the stream
\* was closed meanwhile.
JoinAdds(c) ==
    /\ At(c, "joining")
    /\ startup[con[c].lease] = "up"
    /\ IF fan[con[c].lease].closed
       THEN Goes(c, "done") /\ UNCHANGED fan
       ELSE Goes(c, "holding") /\ Adds(con[c].lease, c)
    /\ UNCHANGED <<callVars, co, startup, sourceVars, td, agentVars, told, state, historyVars>>

JoinFails(c) ==
    /\ At(c, "joining")
    /\ startup[con[c].lease] = "stopped"
    /\ Goes(c, "done")
    /\ UNCHANGED <<callVars, coordVars, sourceVars, td, agentVars, told, state, historyVars>>

\* The joiner's own startup budget runs out.
JoinTimesOut(c) ==
    /\ At(c, "joining")
    /\ Goes(c, "done")
    /\ UNCHANGED <<callVars, coordVars, sourceVars, td, agentVars, told, state, historyVars>>

-----------------------------------------------------------------------------
(* acquireReserved, for a new lease *)

AddsItself(c) ==
    /\ At(c, "reserved")
    /\ IF fan[c].closed THEN Goes(c, "done") /\ UNCHANGED fan
                        ELSE Goes(c, "added") /\ Adds(c, c)
    /\ UNCHANGED <<callVars, co, startup, sourceVars, td, agentVars, told, state, historyVars>>

\* The factory, and PrepareRingingPreview
MakesSource(c) ==
    /\ At(c, "added")
    /\ \/ /\ src' = [src EXCEPT ![c] = "made"]
          /\ callback' = c
          /\ Goes(c, "made")
       \/ Goes(c, "aborting") /\ UNCHANGED <<src, callback>>
    /\ UNCHANGED <<callVars, coordVars, shut, dialled, sessionVars, td, agentVars, told, state, historyVars>>

\* finishStop(source creation failed), without stop
AbortResets(c) ==
    /\ At(c, "aborting")
    /\ ResetFields(c)
    /\ con' = [con EXCEPT ![c].pc = "abortObserving", ![c].snap = SnapshotAfterReset(c)]
    /\ UNCHANGED <<callVars, sourceVars, td, agentVars, told, state, historyVars>>

AbortObserved(c) ==
    /\ At(c, "abortObserving")
    /\ Observe(con[c].snap)
    /\ con' = [con EXCEPT ![c].pc = "done", ![c].snap = Snapshot(IdleFields)]
    /\ UNCHANGED <<callVars, coordVars, sourceVars, td, agentVars, told, historyVars>>

\* attachSource: only the lease is checked, not whether it is stopping.
AttachSource(c) ==
    /\ At(c, "made")
    /\ IF co.lease = c
       THEN co' = [co EXCEPT !.source = c] /\ Goes(c, "attached") /\ UNCHANGED src
       ELSE src' = [src EXCEPT ![c] = "closed"] /\ Goes(c, "done") /\ UNCHANGED co
    /\ UNCHANGED <<callVars, fan, startup, shut, callback, dialled, sessionVars, td, agentVars, told, state,
                   historyVars>>

\* startSource spawns source.Start and waits for it.
LaunchSource(c) ==
    /\ At(c, "attached")
    /\ Goes(c, "starting")
    /\ src' = [src EXCEPT ![c] = "launched"]
    /\ UNCHANGED <<callVars, coordVars, shut, callback, dialled, sessionVars, td, agentVars, told, state,
                   historyVars>>

StartReturns(c) ==
    /\ At(c, "starting")
    /\ \/ src[c] \in {"up", "closed"} /\ Goes(c, "started")
       \/ src[c] = "failed" /\ Goes(c, "failed")
    /\ UNCHANGED <<callVars, coordVars, sourceVars, td, agentVars, told, state, historyVars>>

\* The startup budget runs out: acquire returns, a goroutine will stop the lease.
StartTimesOut(c) ==
    /\ At(c, "starting")
    /\ Goes(c, "timedOut")
    /\ UNCHANGED <<callVars, coordVars, sourceVars, td, agentVars, told, state, historyVars>>

StartStopped(c) ==
    /\ con[c].pc \in {"failed", "timedOut"}
    /\ Stop(c, IF At(c, "failed") THEN "startupFailed" ELSE "startupTimedOut")
    /\ Goes(c, "done")
    /\ UNCHANGED <<callVars, startup, sourceVars, agentVars, told, state, historyVars>>

-----------------------------------------------------------------------------
(* finishStart and promotion *)

\* takePromotionLocked
TakePromotion ==
    [co EXCEPT !.preview = FALSE, !.promotePending = FALSE, !.promoting = TRUE,
               !.requested = @ \cup {"audio"}]

ProbesAnsweredAgain(c) ==
    /\ At(c, "started")
    /\ con' = [con EXCEPT ![c].pc = "finishing", ![c].answered = answered # None]
    /\ UNCHANGED <<callVars, coordVars, sourceVars, td, agentVars, told, state, historyVars>>

\* MUTANT of MustPromote: finishStart trusts the event alone.
MustPromote_EventOnly(c) == co.preview /\ co.promotePending /\ ~co.stopping

\* The call was answered while this preview was starting, or before its lease.
MustPromote(c) ==
    co.preview /\ (co.promotePending \/ con[c].answered) /\ ~co.stopping

FinishStart(c) ==
    /\ At(c, "finishing")
    /\ IF co.lease = c
       THEN /\ co' = [(IF MustPromote(c) THEN TakePromotion ELSE co) EXCEPT !.starting = FALSE]
            /\ con' = [con EXCEPT ![c].pc = "announcing", ![c].answered = FALSE,
                                  ![c].snap = Snapshot(co)]
       ELSE Goes(c, "holding") /\ UNCHANGED co
    /\ UNCHANGED <<callVars, fan, startup, sourceVars, td, agentVars, told, state, historyVars>>

\* streamStart.finish(nil) ...
AnnounceStart(c) ==
    /\ At(c, "announcing")
    /\ startup' = [startup EXCEPT ![c] = IF @ = "pending" THEN "up" ELSE @]
    /\ Goes(c, "observing")
    /\ UNCHANGED <<callVars, co, fan, sourceVars, td, agentVars, told, state, historyVars>>

\* ... and then the observer; acquire returns the lease.
StartObserved(c) ==
    /\ At(c, "observing")
    /\ Observe(con[c].snap)
    /\ con' = [con EXCEPT ![c].pc = "holding", ![c].snap = Snapshot(IdleFields)]
    /\ UNCHANGED <<callVars, coordVars, sourceVars, td, agentVars, told, historyVars>>

\* promote: the audio request succeeds, or fails as a source failure.
PromotionEnds ==
    /\ co.promoting
    /\ \/ co' = [co EXCEPT !.promoting = FALSE] /\ UNCHANGED <<fan, td>>
       \/ Stop(co.lease, "sourceFailure")
    /\ UNCHANGED <<callVars, startup, sourceVars, con, agentVars, told, state, historyVars>>

-----------------------------------------------------------------------------
(* Release, Leave and the backchannel *)

\* leave: the lease must be current.
Leave(c, by) ==
    /\ At(c, "holding")
    /\ by = "left" => Shareable(c)
    /\ IF co.lease = con[c].lease
       THEN con' = [con EXCEPT ![c].pc = "leaving", ![c].by = by]
       ELSE Goes(c, "done")
    /\ UNCHANGED <<callVars, coordVars, sourceVars, td, agentVars, told, state, historyVars>>

\* MUTANT of LeaveRemoves: the count is taken before the removal.
LeaveRemoves_CountsItself(c) ==
    /\ At(c, "leaving")
    /\ Removes(con[c].lease, c)
    /\ Goes(c, IF fan[con[c].lease].members = {} THEN "untalkingLast" ELSE "untalking")
    /\ UNCHANGED <<callVars, co, startup, sourceVars, td, agentVars, told, state, historyVars>>

LeaveRemoves(c) ==
    /\ At(c, "leaving")
    /\ Removes(con[c].lease, c)
    /\ Goes(c, IF fan[con[c].lease].members = {c} THEN "untalkingLast" ELSE "untalking")
    /\ UNCHANGED <<callVars, co, startup, sourceVars, td, agentVars, told, state, historyVars>>

\* The uplink frees up; only what remove counted decides whether the stream ends.
LeaveUntalks(c) ==
    /\ con[c].pc \in {"untalking", "untalkingLast"}
    /\ co' = IF co.lease = con[c].lease /\ co.talker = c
             THEN [co EXCEPT !.talker = None] ELSE co
    /\ Goes(c, IF At(c, "untalkingLast") THEN "lastOut" ELSE "done")
    /\ UNCHANGED <<callVars, fan, startup, sourceVars, td, agentVars, told, state, historyVars>>

LastOutStops(c) ==
    /\ At(c, "lastOut")
    /\ Stop(con[c].lease, con[c].by)
    /\ Goes(c, "done")
    /\ UNCHANGED <<callVars, startup, sourceVars, agentVars, told, state, historyVars>>

\* MUTANT of MayTalk: a packet in flight claims the uplink.
MayTalk_EvenGone(c) == TRUE

MayTalk(c) == c \in fan[co.lease].members

\* WriteBackchannelRTP; packets may be in flight from a consumer that has left.
Talk(c) ==
    /\ con[c].pc \in {"holding", "leaving", "untalking", "untalkingLast",
                     "lastOut", "done"}
    /\ co.lease # None /\ co.lease = con[c].lease
    /\ ~co.starting /\ ~co.stopping /\ ~co.preview /\ co.source # None
    /\ co.talker = None /\ MayTalk(c)
    /\ co' = [co EXCEPT !.talker = c]
    /\ UNCHANGED <<callVars, fan, startup, sourceVars, td, con, agentVars, told,
                   state, historyVars>>

-----------------------------------------------------------------------------
(* The source: bridgeSource.Start and SourceSession.Start *)

SourceStarts(l) ==
    /\ src[l] = "launched"
    /\ src' = [src EXCEPT ![l] = "starting"]
    /\ gone' = gone \ {l}
    /\ UNCHANGED <<callVars, coordVars, shut, callback, dialled, owns, td, con, agentVars, told,
                   state, historyVars>>

\* AdoptRingingCall for a preview; StartStream, which borrows the answered call
\* or dials, for any other lease.
SourceJoinsCall(l) ==
    /\ src[l] = "starting"
    /\ \/ /\ con[l].ring # None
          /\ EntryOf[l] = Door /\ (ringing # None \/ answered # None)
          /\ UNCHANGED <<dialled, owns>>
       \/ /\ con[l].ring = None
          /\ ringing = None /\ answered # None
          /\ UNCHANGED <<dialled, owns>>
       \/ /\ con[l].ring = None
          /\ ringing = None /\ answered = None /\ dialled = None
          /\ dialled' = l
          /\ owns' = owns \cup {l}
    /\ src' = [src EXCEPT ![l] = "inCall"]
    /\ UNCHANGED <<callVars, coordVars, shut, callback, gone, td, con, agentVars, told, state,
                   historyVars>>

\* MUTANT of SourceAsks: the pipelines do not remember that they were closed.
SourceAsks_Forgets(l) ==
    /\ src[l] = "inCall"
    /\ src' = [src EXCEPT ![l] = "asking"]
    /\ UNCHANGED <<callVars, coordVars, shut, callback, dialled, sessionVars, td, con, agentVars,
                   told, state, historyVars>>

\* pipelineAV.Start: the media is asked for unless the pipelines were closed.
SourceAsks(l) ==
    /\ src[l] = "inCall"
    /\ l \notin shut
    /\ src' = [src EXCEPT ![l] = "asking"]
    /\ UNCHANGED <<callVars, coordVars, shut, callback, dialled, sessionVars, td, con, agentVars,
                   told, state, historyVars>>

\* A Close, or a BYE, may come after the last check of the startup's context.
SourceUp(l) ==
    /\ src[l] = "asking"
    /\ src' = [src EXCEPT ![l] = "up"]
    /\ UNCHANGED <<callVars, coordVars, shut, callback, dialled, sessionVars, td, con, agentVars,
                   told, state, historyVars>>

\* A step of the startup fails or is cancelled.  Once it has joined the call, the
\* manager drops its dialog: a dialog of the session's own, or one that the far
\* end has ended meanwhile.
SourceFails(l) ==
    /\ src[l] \in {"starting", "inCall", "asking"}
    /\ src' = [src EXCEPT ![l] = "failed"]
    /\ IF src[l] # "starting" /\ l \in owns \cup gone THEN HangupCall
       ELSE UNCHANGED <<callVars, dialled>>
    /\ Robs(l)
    /\ UNCHANGED <<coordVars, shut, callback, sessionVars, td, con, agentVars, told, state, rung, ended>>

SourceStep(l) ==
    SourceStarts(l) \/ SourceJoinsCall(l) \/ SourceAsks(l) \/ SourceUp(l) \/ SourceFails(l)

\* The event of a source, wrapped by sourceEvents: the stream stops and every
\* consumer is told, by the teardown or, if another one is under way, at once.
SourceEvent(l, cause) ==
    IF CanStop(l) THEN BeginStop(l, cause) /\ UNCHANGED told
    ELSE Tells(l) /\ UNCHANGED <<co, fan, td>>

\* The far end's BYE, maybe long after the manager dropped its dialog:
\* SourceSession.RemoteDialogEnded, which tells the manager if the session was up,
\* then the wrapped event.  The two calls of the callback are one step: a teardown
\* that begins between them does what one that began just before them does.
RemoteBYE(l) ==
    /\ callback = l
    /\ src' = [src EXCEPT ![l] = IF @ = "up" THEN "closed" ELSE @]
    /\ IF src[l] = "up" THEN HangupCall ELSE UNCHANGED <<callVars, dialled>>
    /\ Robs(l)
    /\ gone' = gone \cup {l}
    /\ SourceEvent(l, "remoteBye")
    /\ UNCHANGED <<startup, shut, callback, owns, con, agentVars, state, rung, ended>>

\* The audio bridge gives up; the 180 of a dial may have started it early.
SourceFailure(l) ==
    /\ \/ src[l] \in {"asking", "up"}
       \/ src[l] \in {"starting", "inCall"} /\ con[l].ring = None
    /\ SourceEvent(l, "sourceFailure")
    /\ UNCHANGED <<callVars, startup, sourceVars, con, agentVars, state, historyVars>>

-----------------------------------------------------------------------------
(* Reconcile and the OpenWebNet frames *)

\* watch runs from the end of the acquire.  Both tracks asked for and silent.
Reconcile(l) ==
    /\ con[l].lease = l
    /\ con[l].pc \in {"holding", "leaving", "untalking", "untalkingLast", "lastOut", "done"}
    /\ co.lease = l /\ co.requested = Tracks
    /\ Stop(l, "tracksStalled")
    /\ UNCHANGED <<callVars, startup, sourceVars, con, agentVars, told, state, historyVars>>

ObserveControlTrack(track) ==
    /\ co.lease # None => co.starting
    /\ co' = [co EXCEPT !.requested = @ \cup {track},
                        !.control = co.lease # None,
                        !.owner = IF co.lease = None THEN "external" ELSE @]
    /\ UNCHANGED <<callVars, fan, startup, sourceVars, td, con, agentVars, told,
                   state, historyVars>>

\* A stop frame must follow a start frame of this source, and its startup.
HonoursStop == co.control /\ ~co.starting

ObserveControlStop ==
    /\ IF co.lease = None
       THEN /\ co' = IF co.owner = "external"
                     THEN [IdleFields EXCEPT !.source = co.source] ELSE co
            /\ UNCHANGED <<fan, td>>
       ELSE HonoursStop /\ Stop(co.lease, "controlStop")
    /\ UNCHANGED <<callVars, startup, sourceVars, con, agentVars, told, state, historyVars>>

-----------------------------------------------------------------------------
(* routeRingingPreview, on the drain of the call events *)

EndEvents == {"call.incoming_ended", "call.declined", "call.hung_up"}

\* PromoteRinging
PromoteRinging ==
    IF co.lease = None \/ ~co.preview \/ co.stopping THEN UNCHANGED co
    ELSE co' = IF co.starting THEN [co EXCEPT !.promotePending = TRUE] ELSE TakePromotion

\* The first critical section of StopRinging
RingingLease == IF co.preview THEN co.lease ELSE None

Deliver ==
    /\ drain.pc = "idle"
    /\ Delivered
    /\ IF Head(queue).type = "call.answered" THEN PromoteRinging ELSE UNCHANGED co
    /\ drain' = IF Head(queue).type \in EndEvents /\ RingingLease # None
                THEN [pc |-> "stop", lease |-> RingingLease, cause |-> "ringingEnded"]
                ELSE NoAgent
    /\ UNCHANGED <<fan, startup, sourceVars, td, con, hanger, told, state, historyVars>>

\* stop: the drain runs the teardown itself, and waits for it.
DrainStops ==
    /\ drain.pc = "stop"
    /\ Stop(drain.lease, drain.cause)
    /\ drain' = IF CanStop(drain.lease) THEN [drain EXCEPT !.pc = "wait"] ELSE NoAgent
    /\ UNCHANGED <<callVars, startup, sourceVars, con, hanger, told, state, historyVars>>

DrainWaits ==
    /\ drain.pc = "wait"
    /\ td[drain.lease].pc = "done"
    /\ drain' = NoAgent
    /\ UNCHANGED <<callVars, coordVars, sourceVars, td, con, hanger, told, state, historyVars>>

-----------------------------------------------------------------------------
(* Manager.Hangup and its observer, EndCall *)

\* The hangup of a call, a ring or a dialled preview commits first; its BYE or
\* 603 takes a while.
Hangup ==
    /\ hanger.pc = "idle"
    /\ \/ RingHungUp /\ UNCHANGED dialled
       \/ (answered # None \/ dialled # None) /\ HangupCall
    /\ hanger' = [NoAgent EXCEPT !.pc = "bye"]
    /\ Robs(None)
    /\ ended' = ended \cup {l \in Leases : co.lease = l /\ src[l] = "up" /\ answered # None}
    /\ UNCHANGED <<coordVars, src, shut, callback, sessionVars, td, con, drain, told, state, rung>>

\* The first critical section of EndCall
EndCall ==
    /\ hanger.pc = "bye"
    /\ hanger' = IF co.lease = None THEN NoAgent
                 ELSE [pc |-> "stop", lease |-> co.lease,
                       cause |-> IF co.preview THEN "ringingEnded" ELSE "callEnded"]
    /\ UNCHANGED <<callVars, coordVars, sourceVars, td, con, drain, told, state, historyVars>>

EndCallStops ==
    /\ hanger.pc = "stop"
    /\ Stop(hanger.lease, hanger.cause)
    /\ hanger' = IF CanStop(hanger.lease) THEN [hanger EXCEPT !.pc = "wait"] ELSE NoAgent
    /\ UNCHANGED <<callVars, startup, sourceVars, con, drain, told, state, historyVars>>

EndCallWaits ==
    /\ hanger.pc = "wait"
    /\ td[hanger.lease].pc = "done"
    /\ hanger' = NoAgent
    /\ UNCHANGED <<callVars, coordVars, sourceVars, td, con, drain, told, state, historyVars>>

-----------------------------------------------------------------------------
(* The call line *)

\* The far end and the user; the line is busy while a dialled preview is up.
LineMoves ==
    /\ \/ \E d \in Dialogs \ rung :
             /\ dialled = None
             /\ Rings(d, Door)
             /\ rung' = rung \cup {d}
       \/ RingEnded("cancelled") /\ UNCHANGED rung
       \/ Declined /\ UNCHANGED rung
       \/ Answered /\ UNCHANGED rung
       \/ HungUp /\ UNCHANGED rung
    /\ UNCHANGED <<coordVars, sourceVars, td, con, agentVars, told, state, ended, robbed>>

-----------------------------------------------------------------------------

ConsumerStep(c) ==
    \/ ProbesAnswered(c) \/ Reserve(c) \/ JoinAdds(c) \/ JoinFails(c)
    \/ AddsItself(c) \/ MakesSource(c) \/ AbortResets(c) \/ AbortObserved(c)
    \/ AttachSource(c) \/ LaunchSource(c) \/ StartReturns(c) \/ StartStopped(c)
    \/ ProbesAnsweredAgain(c) \/ FinishStart(c) \/ AnnounceStart(c)
    \/ StartObserved(c) \/ LeaveRemoves(c) \/ LeaveUntalks(c) \/ LastOutStops(c)

DrainStep == Deliver \/ DrainStops \/ DrainWaits

HangupStep == EndCall \/ EndCallStops \/ EndCallWaits

\* What consumers, the far end, the bus and the clocks do, as they please
Environment ==
    \/ \E c \in Consumers :
          \/ ProbesRinging(c)
          \/ "timeout" \in Happens /\ (JoinTimesOut(c) \/ StartTimesOut(c))
          \/ "talk" \in Happens /\ Talk(c)
          \/ \E by \in {"released", "left"} : Leave(c, by)
    \/ \E l \in Leases :
          \/ "bye" \in Happens /\ RemoteBYE(l)
          \/ "failure" \in Happens /\ SourceFailure(l)
          \/ "stall" \in Happens /\ Reconcile(l)
    \/ /\ "frames" \in Happens
       /\ ObserveControlStop \/ \E track \in Tracks : ObserveControlTrack(track)
    \/ "hangup" \in Happens /\ Hangup
    \/ LineMoves

\* Nothing is under way.
Quiet ==
    /\ queue = <<>> /\ drain.pc = "idle" /\ hanger.pc = "idle" /\ ~co.promoting
    /\ \A c \in Consumers : con[c].pc \in {"idle", "holding", "done"}
    /\ \A l \in Leases :
          /\ td[l].pc \in {"none", "done"}
          /\ src[l] \notin {"launched", "starting", "inCall", "asking"}

Rest == Quiet /\ UNCHANGED vars

Next ==
    \/ Environment
    \/ \E c \in Consumers : ConsumerStep(c)
    \/ \E l \in Leases : TeardownStep(l) \/ SourceStep(l)
    \/ PromotionEnds \/ DrainStep \/ HangupStep
    \/ Rest

Spec == Init /\ [][Next]_vars

\* Goroutines run; a source startup, a Close and a promotion have deadlines.
\* Nothing is assumed of the environment, the timeouts included.
Fairness ==
    /\ \A c \in Consumers : WF_vars(ConsumerStep(c))
    /\ \A l \in Leases : WF_vars(TeardownStep(l)) /\ WF_vars(SourceStep(l))
    /\ WF_vars(PromotionEnds) /\ WF_vars(DrainStep) /\ WF_vars(HangupStep)

FairSpec == Spec /\ Fairness

-----------------------------------------------------------------------------
(* The stream as its consumers see it *)

\* A fan-out that is closed takes nobody in, whatever the coordinator's fields say.
Life(l) ==
    IF con[l].lease # l THEN "none"
    ELSE IF co.lease # l THEN "over"
    ELSE IF fan[l].closed THEN "ending"
    ELSE IF co.starting THEN "starting" ELSE "live"

Share == INSTANCE SharedStream
            WITH life <- [l \in Leases |-> Life(l)],
                 members <- [l \in Leases |-> fan[l].members]

-----------------------------------------------------------------------------
(* Properties *)

\* The coordinator keeps what SharedStream promises a consumer: nobody reserves
\* while another stream holds the source, joins before it is up or after it began
\* to end, hears of an end that is none, or leaves an empty stream open (reserve,
\* join, leave, stop, finishStop).
ImplementsShare == Share!ShareSpec

\* "every interleaving ends with no stale talker": whoever owns the uplink is on
\* the stream, or is leaving and about to free it (WriteBackchannelRTP, leave).
NoStaleTalker ==
    co.talker # None =>
        \/ co.lease # None /\ co.talker \in fan[co.lease].members
        \/ con[co.talker].pc \in {"untalking", "untalkingLast"}

\* When the last consumer out ends the stream, nobody has slipped in who would
\* hold a dying stream "and never be told" (fanout.remove, stop).
NobodyLeftBehind ==
    \A l \in Leases : td[l].cause \in {"released", "left"} => fan[l].members = {}

\* After a teardown that tells, every consumer still on the stream has been told,
\* those included that were joining while it stopped (stop, fanout.add).
EveryoneTold ==
    \A l \in Leases :
        (td[l].pc = "done" /\ td[l].tells) => fan[l].members \subseteq told

\* A source that a teardown has closed is never up once the lease is free, not
\* even when its Start began after its Close (bridgeSource.Close, cleanup,
\* streamPipelines.close).
ClosedForGood ==
    \A l \in Leases :
        (td[l].pc \in {"reset", "observe", "tell", "done"} /\ td[l].source # None)
            => src[td[l].source] # "up"

\* A preview does not stay one for the whole call: with nothing under way and the
\* call answered, the stream is promoted or gone, whenever the answer came
\* relative to the probes, the startup and the event (PromoteRinging, finishStart).
AnsweredIsPromoted == Quiet /\ co.lease # None /\ co.preview => answered = None

\* A consumer that waits to join always learns how the startup went, even if its
\* own budget never ran out: a consumer acquires once, so the waiting is over for
\* all of them some time (join, streamStart).
JoinersWake == (\E c \in Consumers : At(c, "joining")) ~> (\A c \in Consumers : ~At(c, "joining"))

\* "The last one out ends the stream": one that everybody has left does not stay
\* up, and the lease becomes free (Release, Leave, stop).
LastOutEnds ==
    (co.lease # None /\ ~co.starting /\ fan[co.lease].members = {}) ~> (co.lease = None)

\* "The sole owner of the intercom's single media source": "a Companion lease is
\* retained until its source has completed local cleanup", so a source that is up
\* is the current lease's.
SoleOwner == \A l \in Leases : src[l] = "up" => co.lease = l

\* preview.started and preview.stopped tell clients "when a companion lease starts
\* or ends": with nothing under way the projected state shows a preview exactly
\* when a stream is held.
PreviewShown == Quiet => ((state.previewStream # NoPreview) <=> (co.lease # None))

\* EndCall: "every consumer is told, as for a remote BYE".  Once a hangup through
\* the API is over, whoever still holds the stream of the call has been told.
EndCallReachesAll ==
    \A l \in ended :
        (hanger.pc = "idle" /\ td[l].pc \in {"none", "done"})
            => {c \in fan[l].members : At(c, "holding")} \subseteq told

\* StopRinging "ends a ringing preview because the ring is over": once the drain has
\* won the stop of a preview, the call that preview was taken for rings no more.
StopsRingThatIsOver ==
    drain.pc = "wait" => ringing = None \/ ringing # con[drain.lease].ring

\* "Only a consumer letting go of the lease ends the call ... Every other cause is a
\* media-layer misfortune ... so the call must survive it", and EndCall "stops
\* without a BYE of its own" (stopCause, SourceSession.Close).
OnlyReleaseEndsTheCall ==
    [][\A l \in Leases :
          (td[l].pc = "await" /\ td'[l].pc = "reset" /\ td[l].cause # "released")
              => answered' = answered]_vars

\* A teardown that no release asked for leaves the answered call alone unless the
\* dialog its own source had dialled was dropped behind its back, by an API hangup
\* or by another source: what it hangs up is its own preview, with shared streams,
\* hangups, BYEs and failed startups (SourceSession.Close, Manager.HangupCall).
EndsOnlyItsOwnDialog ==
    [][\A l \in Leases :
          (/\ td[l].pc = "await" /\ td'[l].pc = "reset" /\ td[l].cause # "released"
           /\ td[l].source \notin robbed)
              => answered' = answered]_vars
=============================================================================
