----------------------------- MODULE SipManager -----------------------------
(***************************************************************************)
(* The call half of the companion: signaling.Manager, which owns the one   *)
(* inbound and the one outbound SIP dialog, the incomingDialog adapter and *)
(* the dialer's CANCEL and BYE handlers that drive it, and the event queue *)
(* through which every committed transition reaches the projector.         *)
(*                                                                         *)
(* Every critical section of Manager.mu is one action; what a goroutine    *)
(* does between two critical sections (a SIP response, the bus decline,    *)
(* the wait for a CANCEL) is an action of its own, so that the other       *)
(* goroutines run in between.  The lock itself is a variable only because  *)
(* StartStream keeps it across the whole dial.                             *)
(***************************************************************************)
EXTENDS CoreState, Sequences, FiniteSets

CONSTANTS
    Outbound,    \* outbound (preview) dialogs, each dialled at most once
    Callers,     \* goroutines calling into the manager: API requests, media
    Doorbell,    \* the configured doorbell entrypoint, None if there is none
    BusRings,    \* entrypoints whose ring frames the bus sends
    HangsUp,     \* dialogs whose far end may send a BYE
    CancelReasons, \* reasons a CANCEL or BYE of a pending call may carry
    MaxPanics    \* bound on the sink panics explored

ASSUME OutboundAssumption == Outbound \cap (Dialogs \cup {None}) = {}
ASSUME DoorbellAssumption == Doorbell \in Entrypoints \cup {None}
ASSUME EnvironmentAssumption ==
    /\ BusRings \subseteq Entrypoints
    /\ HangsUp \subseteq Dialogs \cup Outbound
    /\ CancelReasons \subseteq {"cancelled", "elsewhere"}
ASSUME MaxPanicsAssumption == MaxPanics \in Nat

VARIABLES
    mu,          \* Manager.mu: "free", or "dialing" while StartStream dials
    incoming,    \* Manager.incoming
    active,      \* Manager.active; activeIncoming and activeID follow from it
    expiry,      \* per inbound dialog: its expiry timer and callback
    pending,     \* Manager.pending
    draining,    \* Manager.draining
    delivering,  \* the event the drain has taken and not yet handed over
    panics,      \* sink panics so far
    projector,   \* core.Projector.state
    invite,      \* per inbound dialog: where its onInvite handler is
    adapter,     \* per inbound dialog: incomingDialog.ringing and concluded
    session,     \* per inbound dialog: sipgo's session state; "unsent" is a dialog
                 \* marked Established whose 200 OK could not be written
    finals,      \* per inbound dialog: final responses put on the wire
    cancel,      \* per inbound dialog: where its CANCEL goroutine is
    bye,         \* per dialog: where the far end's BYE is
    out,         \* per outbound dialog: not dialled, up, or over
    caller,      \* per caller: its program counter and the dialog it holds
    misdirected  \* history: operations that hit another dialog than theirs

managerVars == <<mu, incoming, active, expiry>>
queueVars == <<pending, draining>>
drainVars == <<delivering, panics, projector>>
dialogVars == <<adapter, session, finals>>
threadVars == <<invite, cancel, bye, caller>>
lineVars == <<out, misdirected>>
vars == <<managerVars, queueVars, drainVars, dialogVars, threadVars, lineVars>>

NoEvent == [type |-> "none"]
Idle == [pc |-> "idle", dialog |-> None]

CallerStates ==
    {Idle}
      \cup [pc : {"claim200", "write200", "promote", "busDecline", "awaitCancel",
                 "decline"},
            dialog : Dialogs]
      \cup [pc : {"bye"}, dialog : Dialogs \cup Outbound]

ManagerType ==
    /\ mu \in {"free", "dialing"}
    /\ incoming \in Dialogs \cup {None}
    /\ active \in Dialogs \cup Outbound \cup {None}
    /\ expiry \in [Dialogs -> {"off", "armed", "fired", "respond"}]

QueueType ==
    /\ pending \in Seq(CallEvents)
    /\ draining \in BOOLEAN

DrainType ==
    /\ delivering \in CallEvents \cup {NoEvent}
    /\ panics \in 0 .. MaxPanics
    /\ projector \in States

DialogType ==
    /\ adapter \in [Dialogs -> {"new", "ringing", "withdrawn", "concluded"}]
    /\ session \in [Dialogs -> {"none", "early", "established", "unsent", "ended"}]
    /\ finals \in [Dialogs -> Nat]

ThreadType ==
    /\ invite \in [Dialogs -> {"none", "arrived", "hooked", "reserved", "busy",
                               "rollback", "reject", "done"}]
    /\ cancel \in [Dialogs -> {"none", "arrived", "claimed", "done"}]
    /\ bye \in [Dialogs \cup Outbound ->
                   {"none", "readEarly", "readAnswered", "early", "answered",
                    "claimed", "manager", "media", "done"}]
    /\ caller \in [Callers -> CallerStates]

LineType ==
    /\ out \in [Outbound -> {"none", "up", "ended"}]
    /\ misdirected \subseteq {"pending", "bye", "media"}

\* Every variable holds a value of its type.
TypeOK ==
    /\ ManagerType /\ QueueType /\ DrainType
    /\ DialogType /\ ThreadType /\ LineType

Init ==
    /\ mu = "free"
    /\ incoming = None
    /\ active = None
    /\ expiry = [d \in Dialogs |-> "off"]
    /\ pending = <<>>
    /\ draining = FALSE
    /\ delivering = NoEvent
    /\ panics = 0
    /\ projector = InitialState
    /\ invite = [d \in Dialogs |-> "none"]
    /\ adapter = [d \in Dialogs |-> "new"]
    /\ session = [d \in Dialogs |-> "none"]
    /\ finals = [d \in Dialogs |-> 0]
    /\ cancel = [d \in Dialogs |-> "none"]
    /\ bye = [d \in Dialogs \cup Outbound |-> "none"]
    /\ out = [o \in Outbound |-> "none"]
    /\ caller = [c \in Callers |-> Idle]
    /\ misdirected = {}

-----------------------------------------------------------------------------
(* Helpers of the manager, all under Manager.mu *)

\* MUTANT of Publish: an event overtakes the ones committed before it.
Publish_Overtakes(e) ==
    /\ pending' = <<e>> \o pending
    /\ draining' = TRUE

\* publishLocked: the event joins the queue at its commit point, and a drain is
\* running from here on, the one already there or a new one.
Publish(e) ==
    /\ pending' = Append(pending, e)
    /\ draining' = TRUE

\* MUTANT of ArmExpiry: the reservation has no expiry.
ArmExpiry_Forgotten(d) == UNCHANGED expiry

\* startIncomingExpiryLocked
ArmExpiry(d) == expiry' = [expiry EXCEPT ![d] = "armed"]

\* stopIncomingExpiryLocked: a callback already running is not stopped.
StopExpiry(d) == expiry' = [expiry EXCEPT ![d] = IF @ = "armed" THEN "off" ELSE @]

\* takeIncomingLocked(nil), for a pending call
TakeIncoming ==
    /\ mu = "free"
    /\ incoming # None
    /\ incoming' = None
    /\ StopExpiry(incoming)
    /\ UNCHANGED <<mu, active>>

\* MUTANT of DropActive: the end of an answered call is not published.
DropActive_Silent ==
    /\ mu = "free"
    /\ active # None
    /\ active' = None
    /\ UNCHANGED <<mu, incoming, expiry, queueVars>>

\* The part of byeActiveLocked and RemoteDialogEnded that runs under the lock:
\* an outbound preview has no dialog ID and publishes nothing.
DropActive ==
    /\ mu = "free"
    /\ active # None
    /\ active' = None
    /\ IF active \in Dialogs THEN Publish(CallHungUp(active))
                             ELSE UNCHANGED queueVars
    /\ UNCHANGED <<mu, incoming, expiry>>

\* newInboundEntrypointResolver
Resolve ==
    IF Doorbell # None THEN Doorbell
    ELSE IF projector.physicalRing # None THEN projector.physicalRing
    ELSE IF Cardinality(Entrypoints) = 1 THEN CHOOSE ep \in Entrypoints : TRUE
    ELSE None

-----------------------------------------------------------------------------
(* incomingDialog *)

Concluded(d) == adapter[d] \in {"withdrawn", "concluded"}

\* MUTANT of Reject: a second final response is not refused.
Reject_NotClaimed(d) ==
    /\ adapter' = [adapter EXCEPT ![d] = "concluded"]
    /\ finals' = [finals EXCEPT ![d] = @ + 1]
    /\ session' = [session EXCEPT ![d] = "ended"]

\* Respond with a status above 2xx: refused with ErrDialogConcluded unless it is
\* the first final response; writeRejection closes the session.
Reject(d) ==
    IF Concluded(d) THEN UNCHANGED dialogVars
    ELSE /\ adapter' = [adapter EXCEPT ![d] = "concluded"]
         /\ finals' = IF session[d] = "early" THEN [finals EXCEPT ![d] = @ + 1]
                                              ELSE finals
         /\ session' = [session EXCEPT ![d] = "ended"]

\* endPending: claims the dialog for a CANCEL or BYE while it rings.
EndPending(d) ==
    /\ adapter[d] = "ringing"
    /\ adapter' = [adapter EXCEPT ![d] = "withdrawn"]
    /\ UNCHANGED <<session, finals>>

\* Bye: only an answered dialog gets one, any other is just closed.
ByeInbound(d) ==
    /\ adapter' = [adapter EXCEPT ![d] = "concluded"]
    /\ session' = [session EXCEPT ![d] = "ended"]
    /\ UNCHANGED finals

-----------------------------------------------------------------------------
(* An INVITE: dialer.onInvite and Manager.OnInvite *)

FarEndInvite(d) ==
    /\ invite[d] = "none"
    /\ invite' = [invite EXCEPT ![d] = "arrived"]
    /\ session' = [session EXCEPT ![d] = "early"]
    /\ UNCHANGED <<managerVars, queueVars, drainVars, adapter, finals, cancel,
                   bye, caller, lineVars>>

\* tx.OnCancel: on an INVITE that is already dead the manager hears nothing.
RegisterCancelHook(d) ==
    /\ invite[d] = "arrived"
    /\ invite' = [invite EXCEPT ![d] =
                     IF session[d] = "ended" THEN "done" ELSE "hooked"]
    /\ UNCHANGED <<managerVars, queueVars, drainVars, dialogVars, cancel, bye,
                   caller, lineVars>>

\* MUTANT of LineBusy: only a ringing call makes the line busy.
LineBusy_IgnoresActive == incoming # None

LineBusy == incoming # None \/ active # None

\* MUTANT of Refuses: a call of no known entrypoint is announced.
Refuses_KnowsNoEntrypoint == LineBusy

Refuses == LineBusy \/ Resolve = None

\* Manager.OnInvite up to its unlock: the busy check, the reservation and the
\* start event are one critical section.
OnInvite(d) ==
    /\ invite[d] = "hooked"
    /\ mu = "free"
    /\ IF Refuses
       THEN /\ invite' = [invite EXCEPT ![d] = "busy"]
            /\ UNCHANGED <<managerVars, queueVars>>
       ELSE /\ invite' = [invite EXCEPT ![d] = "reserved"]
            /\ incoming' = d
            /\ ArmExpiry(d)
            /\ Publish(IncomingCallStarted(d, Resolve))
            /\ UNCHANGED <<mu, active>>
    /\ UNCHANGED <<drainVars, dialogVars, cancel, bye, caller, lineVars>>

\* respondBusy
RespondBusy(d) ==
    /\ invite[d] = "busy"
    /\ invite' = [invite EXCEPT ![d] = "done"]
    /\ Reject(d)
    /\ UNCHANGED <<managerVars, queueVars, drainVars, cancel, bye, caller, lineVars>>

\* The 180 Ringing, written with the dialog's lock held.
RingingSent(d) ==
    /\ invite[d] = "reserved"
    /\ ~Concluded(d) /\ session[d] = "early"
    /\ invite' = [invite EXCEPT ![d] = "done"]
    /\ adapter' = [adapter EXCEPT ![d] = "ringing"]
    /\ UNCHANGED <<managerVars, queueVars, drainVars, session, finals, cancel,
                   bye, caller, lineVars>>

\* The 180 is refused because the dialog is concluded, or its write fails.
RingingFails(d) ==
    /\ invite[d] = "reserved"
    /\ invite' = [invite EXCEPT ![d] = "rollback"]
    /\ UNCHANGED <<managerVars, queueVars, drainVars, dialogVars, cancel, bye,
                   caller, lineVars>>

\* clearIncoming(dialog, cancelled): only its own call, and only then a 500.
RollBackInvite(d) ==
    /\ invite[d] = "rollback"
    /\ IF incoming = d
       THEN /\ TakeIncoming
            /\ Publish(IncomingCallEnded(d, "cancelled"))
            /\ invite' = [invite EXCEPT ![d] = "reject"]
       ELSE /\ mu = "free"
            /\ invite' = [invite EXCEPT ![d] = "done"]
            /\ UNCHANGED <<managerVars, queueVars>>
    /\ UNCHANGED <<drainVars, dialogVars, cancel, bye, caller, lineVars>>

RejectInvite(d) ==
    /\ invite[d] = "reject"
    /\ invite' = [invite EXCEPT ![d] = "done"]
    /\ Reject(d)
    /\ UNCHANGED <<managerVars, queueVars, drainVars, cancel, bye, caller, lineVars>>

-----------------------------------------------------------------------------
(* The expiry timer of an unanswered call *)

ExpiryFires(d) ==
    /\ expiry[d] = "armed"
    /\ expiry' = [expiry EXCEPT ![d] = "fired"]
    /\ UNCHANGED <<mu, incoming, active, queueVars, drainVars, dialogVars,
                   threadVars, lineVars>>

\* clearIncoming(dialog, timeout)
ExpiryClears(d) ==
    /\ expiry[d] = "fired"
    /\ mu = "free"
    /\ IF incoming = d
       THEN /\ incoming' = None
            /\ expiry' = [expiry EXCEPT ![d] = "respond"]
            /\ Publish(IncomingCallEnded(d, "timeout"))
       ELSE /\ expiry' = [expiry EXCEPT ![d] = "off"]
            /\ UNCHANGED <<incoming, queueVars>>
    /\ UNCHANGED <<mu, active, drainVars, dialogVars, threadVars, lineVars>>

\* MUTANT of ExpiryResponds: an expired call gets no response.
ExpiryResponds_Silent(d) ==
    /\ expiry[d] = "respond"
    /\ expiry' = [expiry EXCEPT ![d] = "off"]
    /\ UNCHANGED <<mu, incoming, active, queueVars, drainVars, dialogVars,
                   threadVars, lineVars>>

\* 480 Temporarily Unavailable
ExpiryResponds(d) ==
    /\ expiry[d] = "respond"
    /\ expiry' = [expiry EXCEPT ![d] = "off"]
    /\ Reject(d)
    /\ UNCHANGED <<mu, incoming, active, queueVars, drainVars, threadVars, lineVars>>

-----------------------------------------------------------------------------
(* The far end withdraws or ends a call *)

\* A CANCEL of the pending INVITE: the transaction layer answers it and ends the
\* session; the hook, if it is there, starts a goroutine.
FarEndCancel(d) ==
    /\ session[d] \in {"early", "unsent"}
    /\ cancel[d] = "none"
    /\ session' = [session EXCEPT ![d] = "ended"]
    /\ cancel' = [cancel EXCEPT ![d] =
                     IF invite[d] = "arrived" THEN "done" ELSE "arrived"]
    /\ UNCHANGED <<managerVars, queueVars, drainVars, adapter, finals, invite,
                   bye, caller, lineVars>>

\* endPendingIncoming claims the dialog ...
CancelClaims(d) ==
    /\ cancel[d] = "arrived"
    /\ \/ /\ EndPending(d)
          /\ cancel' = [cancel EXCEPT ![d] = "claimed"]
       \/ /\ adapter[d] # "ringing"
          /\ cancel' = [cancel EXCEPT ![d] = "done"]
          /\ UNCHANGED dialogVars
    /\ UNCHANGED <<managerVars, queueVars, drainVars, invite, bye, caller, lineVars>>

\* ... and then calls Manager.EndIncoming, which clears whatever call is pending.
EndIncoming(d) ==
    /\ mu = "free"
    /\ IF incoming = None
       THEN UNCHANGED <<managerVars, queueVars, misdirected>>
       ELSE /\ TakeIncoming
            /\ \E reason \in CancelReasons :
                  Publish(IncomingCallEnded(incoming, reason))
            /\ misdirected' = IF incoming = d THEN misdirected
                              ELSE misdirected \cup {"pending"}

CancelEndsIncoming(d) ==
    /\ cancel[d] = "claimed"
    /\ cancel' = [cancel EXCEPT ![d] = "done"]
    /\ EndIncoming(d)
    /\ UNCHANGED <<drainVars, dialogVars, invite, bye, caller, out>>

\* onInboundBye reads the session's state before ReadBye ends it.  A far end that
\* has seen no response yet has no dialog to send a BYE in.
FarEndBye(d) ==
    /\ d \in HangsUp
    /\ \/ session[d] = "established"
       \/ session[d] = "early" /\ adapter[d] = "ringing"
       \/ session[d] = "unsent" /\ invite[d] = "done"
    /\ bye[d] = "none"
    /\ bye' = [bye EXCEPT ![d] = IF session[d] = "early" THEN "readEarly"
                                                        ELSE "readAnswered"]
    /\ UNCHANGED <<managerVars, queueVars, drainVars, dialogVars, invite, cancel,
                   caller, lineVars>>

ReadBye(d) ==
    /\ bye[d] \in {"readEarly", "readAnswered"}
    /\ bye' = [bye EXCEPT ![d] = IF @ = "readEarly" THEN "early" ELSE "answered"]
    /\ session' = [session EXCEPT ![d] = "ended"]
    /\ UNCHANGED <<managerVars, queueVars, drainVars, adapter, finals, invite,
                   cancel, caller, lineVars>>

ByeClaims(d) ==
    /\ bye[d] \in {"early", "answered"}
    /\ \/ /\ EndPending(d)
          /\ bye' = [bye EXCEPT ![d] = "claimed"]
       \/ /\ adapter[d] # "ringing"
          /\ bye' = [bye EXCEPT ![d] = IF @ = "answered" THEN "manager" ELSE "done"]
          /\ UNCHANGED dialogVars
    /\ UNCHANGED <<managerVars, queueVars, drainVars, invite, cancel, caller, lineVars>>

ByeEndsIncoming(d) ==
    /\ bye[d] = "claimed"
    /\ bye' = [bye EXCEPT ![d] = "done"]
    /\ EndIncoming(d)
    /\ UNCHANGED <<drainVars, dialogVars, invite, cancel, caller, out>>

\* Manager.RemoteDialogEnded, told of the end of dialog d
RemoteDialogEnded(d, by) ==
    /\ mu = "free"
    /\ IF active = None
       THEN UNCHANGED <<managerVars, queueVars, misdirected>>
       ELSE /\ DropActive
            /\ misdirected' = IF active = d THEN misdirected
                              ELSE misdirected \cup {by}

\* The synchronous call of onInboundBye; the media callback follows.
ByeEndsActive(d) ==
    /\ bye[d] = "manager"
    /\ bye' = [bye EXCEPT ![d] = "media"]
    /\ RemoteDialogEnded(d, "bye")
    /\ UNCHANGED <<drainVars, dialogVars, invite, cancel, caller, out>>

\* notifyRemoteDialogEnded: a media source that is up tells the manager again.
MediaHearsBye(d) ==
    /\ bye[d] = "media"
    /\ bye' = [bye EXCEPT ![d] = "done"]
    /\ \/ RemoteDialogEnded(d, "media")
       \/ UNCHANGED <<managerVars, queueVars, misdirected>>
    /\ UNCHANGED <<drainVars, dialogVars, invite, cancel, caller, out>>

\* onBye for an outbound dialog
FarEndOutboundBye(o) ==
    /\ o \in HangsUp
    /\ out[o] = "up"
    /\ bye[o] = "none"
    /\ out' = [out EXCEPT ![o] = "ended"]
    /\ bye' = [bye EXCEPT ![o] = "media"]
    /\ UNCHANGED <<managerVars, queueVars, drainVars, dialogVars, invite, cancel,
                   caller, misdirected>>

-----------------------------------------------------------------------------
(* Manager.Answer *)

Becomes(c, pc, d) == caller' = [caller EXCEPT ![c] = [pc |-> pc, dialog |-> d]]
At(c, pc) == caller[c].pc = pc
Of(c) == caller[c].dialog

Answer(c) ==
    /\ At(c, "idle")
    /\ mu = "free"
    /\ incoming # None
    /\ Becomes(c, "claim200", incoming)
    /\ UNCHANGED <<managerVars, queueVars, drainVars, dialogVars, invite, cancel,
                   bye, lineVars>>

\* Respond(200): claimed under the dialog's lock ...
AnswerClaims(c) ==
    /\ At(c, "claim200")
    /\ IF Concluded(Of(c))
       THEN Becomes(c, "idle", None) /\ UNCHANGED adapter
       ELSE /\ Becomes(c, "write200", Of(c))
            /\ adapter' = [adapter EXCEPT ![Of(c)] = "concluded"]
    /\ UNCHANGED <<managerVars, queueVars, drainVars, session, finals, invite,
                   cancel, bye, lineVars>>

\* ... and written with it released.  The far end is connected from here on.
AnswerWritten(c) ==
    /\ At(c, "write200")
    /\ session[Of(c)] = "early"
    /\ session' = [session EXCEPT ![Of(c)] = "established"]
    /\ finals' = [finals EXCEPT ![Of(c)] = @ + 1]
    /\ Becomes(c, "promote", Of(c))
    /\ UNCHANGED <<managerVars, queueVars, drainVars, adapter, invite, cancel,
                   bye, lineVars>>

\* A failed write: Answer returns the error and leaves the call pending and
\* claimed.  sipgo marks the dialog Established before it responds.
AnswerFails(c) ==
    /\ At(c, "write200")
    /\ session' = [session EXCEPT ![Of(c)] = IF @ = "early" THEN "unsent" ELSE @]
    /\ Becomes(c, "idle", None)
    /\ UNCHANGED <<managerVars, queueVars, drainVars, adapter, finals, invite, cancel,
                   bye, lineVars>>

\* MUTANT of AnswerLost: the loser of the race leaves the answered dialog alone.
AnswerLost_NoBye(c) == Becomes(c, "idle", None)

\* Somebody took the call while the 200 was on the wire: a dialog the manager no
\* longer refers to is BYEd here.
AnswerLost(c) ==
    IF active = Of(c) THEN Becomes(c, "idle", None) ELSE Becomes(c, "bye", Of(c))

AnswerPromotes(c) ==
    /\ At(c, "promote")
    /\ mu = "free"
    /\ IF incoming = Of(c)
       THEN /\ incoming' = None
            /\ StopExpiry(incoming)
            /\ active' = Of(c)
            /\ Publish(CallAnswered(Of(c)))
            /\ Becomes(c, "idle", None)
            /\ UNCHANGED mu
       ELSE /\ AnswerLost(c)
            /\ UNCHANGED <<managerVars, queueVars>>
    /\ UNCHANGED <<drainVars, dialogVars, invite, cancel, bye, lineVars>>

-----------------------------------------------------------------------------
(* Manager.Decline, Hangup and HangupCall *)

Decline(c) ==
    /\ At(c, "idle")
    /\ TakeIncoming
    /\ Publish(CallDeclined(incoming))
    /\ Becomes(c, "decline", incoming)
    /\ UNCHANGED <<drainVars, dialogVars, invite, cancel, bye, lineVars>>

\* Hangup with an active dialog, and HangupCall: byeActiveLocked up to its unlock
HangupActive(c) ==
    /\ At(c, "idle")
    /\ DropActive
    /\ Becomes(c, "bye", active)
    /\ UNCHANGED <<drainVars, dialogVars, invite, cancel, bye, lineVars>>

\* Hangup of a ringing call
HangupRinging(c) ==
    /\ At(c, "idle")
    /\ active = None
    /\ TakeIncoming
    /\ Publish(CallHungUp(incoming))
    /\ Becomes(c, "busDecline", incoming)
    /\ UNCHANGED <<drainVars, dialogVars, invite, cancel, bye, lineVars>>

\* busDecline: the bus took the frame, or it did not (or none is installed).
BusDecline(c) ==
    /\ At(c, "busDecline")
    /\ \E pc \in {"awaitCancel", "decline"} : Becomes(c, pc, Of(c))
    /\ UNCHANGED <<managerVars, queueVars, drainVars, dialogVars, invite, cancel,
                   bye, lineVars>>

\* waitWithdrawn: the intercom's CANCEL ended the call, no 603 is sent ...
HangupWithdrawn(c) ==
    /\ At(c, "awaitCancel")
    /\ adapter[Of(c)] = "withdrawn"
    /\ Becomes(c, "idle", None)
    /\ UNCHANGED <<managerVars, queueVars, drainVars, dialogVars, invite, cancel,
                   bye, lineVars>>

\* ... or the grace runs out.
HangupGraceOver(c) ==
    /\ At(c, "awaitCancel")
    /\ Becomes(c, "decline", Of(c))
    /\ UNCHANGED <<managerVars, queueVars, drainVars, dialogVars, invite, cancel,
                   bye, lineVars>>

\* 603 Decline
DeclineResponds(c) ==
    /\ At(c, "decline")
    /\ Reject(Of(c))
    /\ Becomes(c, "idle", None)
    /\ UNCHANGED <<managerVars, queueVars, drainVars, invite, cancel, bye, lineVars>>

\* The BYE of byeActiveLocked, or of an Answer that lost its call
SendBye(c) ==
    /\ At(c, "bye")
    /\ IF Of(c) \in Dialogs
       THEN ByeInbound(Of(c)) /\ UNCHANGED out
       ELSE out' = [out EXCEPT ![Of(c)] = "ended"] /\ UNCHANGED dialogVars
    /\ Becomes(c, "idle", None)
    /\ UNCHANGED <<managerVars, queueVars, drainVars, invite, cancel, bye,
                   misdirected>>

-----------------------------------------------------------------------------
(* Manager.StartStream: Manager.mu is held until the dial is over *)

StartStream ==
    /\ mu = "free"
    /\ incoming = None /\ active = None
    /\ \E o \in Outbound : out[o] = "none"
    /\ mu' = "dialing"
    /\ UNCHANGED <<incoming, active, expiry, queueVars, drainVars, dialogVars,
                   threadVars, lineVars>>

DialEnds ==
    /\ mu = "dialing"
    /\ mu' = "free"
    /\ \/ UNCHANGED <<active, out>>
       \/ \E o \in Outbound :
             /\ out[o] = "none"
             /\ out' = [out EXCEPT ![o] = "up"]
             /\ active' = o
    /\ UNCHANGED <<incoming, expiry, queueVars, drainVars, dialogVars, threadVars,
                   misdirected>>

-----------------------------------------------------------------------------
(* drainEvents and the sink *)

\* MUTANT of DrainTakes: the drain stops after the event it has taken.
DrainTakes_OneEvent ==
    /\ draining /\ delivering = NoEvent
    /\ mu = "free"
    /\ draining' = FALSE
    /\ IF pending = <<>>
       THEN UNCHANGED <<pending, delivering>>
       ELSE delivering' = Head(pending) /\ pending' = Tail(pending)
    /\ UNCHANGED <<managerVars, panics, projector, dialogVars, threadVars, lineVars>>

\* One turn of the loop under Manager.mu: the drain is handed back under the same
\* lock that finds the queue empty.
DrainTakes ==
    /\ draining /\ delivering = NoEvent
    /\ mu = "free"
    /\ IF pending = <<>>
       THEN draining' = FALSE /\ UNCHANGED <<pending, delivering>>
       ELSE /\ delivering' = Head(pending)
            /\ pending' = Tail(pending)
            /\ UNCHANGED draining
    /\ UNCHANGED <<managerVars, panics, projector, dialogVars, threadVars, lineVars>>

\* The sink: newEventApplier
Deliver ==
    /\ delivering # NoEvent
    /\ projector' = Apply(projector, delivering)
    /\ delivering' = NoEvent
    /\ UNCHANGED <<managerVars, queueVars, panics, dialogVars, threadVars, lineVars>>

\* deliver recovers a panic of the sink; the event may be lost.
DeliverPanics ==
    /\ delivering # NoEvent
    /\ panics < MaxPanics
    /\ panics' = panics + 1
    /\ delivering' = NoEvent
    /\ UNCHANGED <<managerVars, queueVars, projector, dialogVars, threadVars, lineVars>>

\* The OpenWebNet listener applies the bus's ring frames to the same projector.
BusRing ==
    /\ \E ep \in BusRings : \E e \in {RingStarted(ep), RingCleared(ep)} :
          projector' = Apply(projector, e)
    /\ UNCHANGED <<managerVars, queueVars, delivering, panics, dialogVars,
                   threadVars, lineVars>>

-----------------------------------------------------------------------------

InviteStep(d) ==
    \/ RegisterCancelHook(d) \/ OnInvite(d) \/ RespondBusy(d) \/ RingingSent(d)
    \/ RingingFails(d) \/ RollBackInvite(d) \/ RejectInvite(d)

ExpiryStep(d) == ExpiryFires(d) \/ ExpiryClears(d) \/ ExpiryResponds(d)

CancelStep(d) == CancelClaims(d) \/ CancelEndsIncoming(d)

ByeStep(d) ==
    ReadBye(d) \/ ByeClaims(d) \/ ByeEndsIncoming(d) \/ ByeEndsActive(d)

AnswerStep(c) ==
    AnswerClaims(c) \/ AnswerWritten(c) \/ AnswerFails(c) \/ AnswerPromotes(c)

HangupStep(c) ==
    \/ BusDecline(c) \/ HangupWithdrawn(c) \/ HangupGraceOver(c)
    \/ DeclineResponds(c) \/ SendBye(c)

CallerStep(c) == AnswerStep(c) \/ HangupStep(c)

DrainStep == DrainTakes \/ Deliver \/ DeliverPanics

\* What the far end, the bus and the users of the API do, as they please
Environment ==
    \/ \E d \in Dialogs : FarEndInvite(d) \/ FarEndCancel(d) \/ FarEndBye(d)
    \/ \E o \in Outbound : FarEndOutboundBye(o)
    \/ \E c \in Callers :
          Answer(c) \/ Decline(c) \/ HangupActive(c) \/ HangupRinging(c)
    \/ StartStream
    \/ BusRing

\* Nothing is under way: the companion waits for the next request or call.  A
\* state without a step that is not like this one is a deadlock.
Quiet ==
    /\ mu = "free" /\ ~draining /\ incoming = None
    /\ \A d \in Dialogs :
          /\ invite[d] \in {"none", "done"} /\ expiry[d] = "off"
          /\ cancel[d] \in {"none", "done"}
    /\ \A d \in Dialogs \cup Outbound : bye[d] \in {"none", "done"}
    /\ \A c \in Callers : caller[c] = Idle

Rest == Quiet /\ UNCHANGED vars

Next ==
    \/ Environment
    \/ \E d \in Dialogs :
          InviteStep(d) \/ ExpiryStep(d) \/ CancelStep(d) \/ ByeStep(d)
    \/ \E d \in Dialogs \cup Outbound : MediaHearsBye(d)
    \/ \E c \in Callers : CallerStep(c)
    \/ DialEnds
    \/ DrainStep
    \/ Rest

Spec == Init /\ [][Next]_vars

\* Goroutines run, timers fire and a dial or a response ends (each has a
\* deadline); nothing is assumed of the far end, the bus or the API's users.  The
\* steps that wait for Manager.mu are strongly fair: sync.Mutex hands the lock to
\* a waiter that starves, however often StartStream takes it again.
Fairness ==
    /\ \A d \in Dialogs :
          /\ SF_vars(InviteStep(d)) /\ SF_vars(ExpiryStep(d))
          /\ SF_vars(CancelStep(d)) /\ SF_vars(ByeStep(d))
    /\ \A d \in Dialogs \cup Outbound : SF_vars(MediaHearsBye(d))
    /\ \A c \in Callers : SF_vars(CallerStep(c))
    /\ WF_vars(DialEnds)
    /\ SF_vars(DrainStep)

FairSpec == Spec /\ Fairness

-----------------------------------------------------------------------------
(* Properties *)

\* What the projector should show once it has heard everything.
ActiveID == IF active \in Dialogs THEN active ELSE None

\* The events committed and not yet handed to the sink
Undelivered == (IF delivering = NoEvent THEN <<>> ELSE <<delivering>>) \o pending

Line == INSTANCE CallLine WITH ringing <- incoming, answered <- ActiveID,
                               queue <- Undelivered

\* The manager is one line with a queue in commit order, which is all the media
\* layer may rely on: no goroutine, CANCEL, BYE or timer makes a transition that
\* CallLine does not have, or commits one without its event.
ImplementsLine == Line!CallSpec

\* Once every committed event has been delivered, the projected state and the
\* manager agree on which call is ringing and which is answered, whatever the
\* order in which goroutines committed (Manager.publishLocked, drainEvents).
Converged ==
    (panics = 0 /\ pending = <<>> /\ delivering = NoEvent) =>
        /\ projector.incomingCall.dialog = incoming
        /\ projector.activeCall.dialog = ActiveID

\* The projector never refuses an event of the manager as an invalid transition:
\* the commit order the queue keeps is an order the projector understands.
NeverRefused ==
    (panics = 0 /\ delivering # NoEvent) => Accepts(projector, delivering)

\* The caller is told the outcome of a call once: no two final responses on one
\* INVITE, such as "a 500 stamped on top of a 200 OK" (incomingDialog.Respond).
OneFinalResponse == \A d \in Dialogs : finals[d] <= 1

\* A call the far end was told 200 OK is never left with nobody able to end it:
\* it is the active one, or a goroutine holds it that will promote it or send its
\* BYE (Manager.Answer).  An operation that hit another call than its own, which
\* the runs on misdirected show, is the one way out.
NoOrphanedCall ==
    \A d \in Dialogs :
        (session[d] = "established" /\ misdirected = {}) =>
            \/ active = d
            \/ \E c \in Callers : Of(c) = d /\ caller[c].pc \in {"promote", "bye"}

\* The one line is never used twice: a call rings only while no dialog is up and
\* no preview is being dialled (Manager.OnInvite, StartStream).
OneLine == incoming # None => active = None /\ mu = "free"

\* No ring lasts for ever: a call that is pending is answered, ended or expires,
\* even if the CANCEL raced the 180 or an answer failed (startIncomingExpiryLocked).
RingEnds == \A d \in Dialogs : (incoming = d) ~> (incoming # d)

\* Every committed event leaves the queue, even past a sink that panics: no event
\* is stranded behind a drain that is gone (Manager.drainEvents, deliver).
QueueDrains ==
    (pending # <<>> \/ delivering # NoEvent)
        ~> (pending = <<>> /\ delivering = NoEvent)

\* The far end's CANCEL or BYE is there.
Withdrawn(d) == cancel[d] # "none" \/ bye[d] # "none"

\* Every INVITE the manager has announced gets a final response of the companion
\* or is withdrawn by its caller, whoever claims it and whoever comes too late,
\* unless its 200 OK could not be written (InviteAnswered) or an operation hit
\* another call than its own (Manager.OnInvite, incomingDialog.Respond).
InviteConcluded ==
    \A d \in Dialogs :
        (invite[d] = "reserved")
            ~> (finals[d] = 1 \/ Withdrawn(d) \/ session[d] = "unsent" \/ misdirected # {})

-----------------------------------------------------------------------------
(* Properties the code's comments claim and the code does not have *)

\* "claiming is what keeps a CANCEL or a BYE for a rejected, already answered or
\* already terminated INVITE from clearing the call that is genuinely ringing"
\* (dialer.go, endPendingIncoming), and the far end's BYE clears the call it was
\* sent for (onInboundBye).
EndsOnlyItsCall == misdirected \subseteq {"media"}

\* "without it the manager would keep believing a call is up" (manager.go,
\* RemoteDialogEnded): a call whose BYE has been handled is not the active one.
NoDeadCall == \A d \in Dialogs : bye[d] = "done" => active # d

\* "Only the first final response is sent.  A later one is refused" (dialer.go,
\* incomingDialog.Respond), because "without a final response the INVITE has had no
\* answer at all and the far end sits out its whole transaction timeout"
\* (manager.go, OnInvite): with nothing under way every INVITE that was handled has
\* had a final response or was withdrawn.
InviteAnswered ==
    Quiet /\ misdirected = {} =>
        \A d \in Dialogs : invite[d] = "done" => finals[d] = 1 \/ Withdrawn(d)
=============================================================================
