-------------------------- MODULE SipManagerProofs --------------------------
(***************************************************************************)
(* For every set of dialogs, callers and entrypoints: the manager's state  *)
(* is well typed, the line is used once, the projected state follows the   *)
(* manager's through the event queue, no INVITE gets two final responses,  *)
(* and no answered call is left with nobody able to end it.                *)
(*                                                                         *)
(* The last section shows that the manager implements the abstract line:   *)
(* every step of every goroutine is a step of CallLine, or leaves the line *)
(* and its queue alone.  The simulation uses SipInv for the types and for  *)
(* the one use of the line.                                                *)
(***************************************************************************)
EXTENDS SipManager, CoreStateProofs, FiniteSetTheorems, SequenceTheorems

-----------------------------------------------------------------------------
(* Type correctness: first the parts of the state that a step leaves alone *)
(* and the helpers, then one lemma per goroutine                           *)

\* A part of the state that does not change keeps its type.
LEMMA Stable ==
    /\ ManagerType /\ UNCHANGED managerVars => ManagerType'
    /\ QueueType /\ UNCHANGED queueVars => QueueType'
    /\ DrainType /\ UNCHANGED drainVars => DrainType'
    /\ DialogType /\ UNCHANGED dialogVars => DialogType'
    /\ ThreadType /\ UNCHANGED threadVars => ThreadType'
    /\ LineType /\ UNCHANGED lineVars => LineType'
<1>1. ManagerType /\ UNCHANGED managerVars => ManagerType'
  BY DEF ManagerType, managerVars
<1>2. QueueType /\ UNCHANGED queueVars => QueueType'
  BY DEF QueueType, queueVars
<1>3. DrainType /\ UNCHANGED drainVars => DrainType'
  BY DEF DrainType, drainVars
<1>4. DialogType /\ UNCHANGED dialogVars => DialogType'
  BY DEF DialogType, dialogVars
<1>5. ThreadType /\ UNCHANGED threadVars => ThreadType'
  BY DEF ThreadType, threadVars
<1>6. LineType /\ UNCHANGED lineVars => LineType'
  BY DEF LineType, lineVars
<1> QED  BY <1>1, <1>2, <1>3, <1>4, <1>5, <1>6

\* The variables hold values of their types in the initial state.
LEMMA InitType == Init => TypeOK
<1> SUFFICES ASSUME Init PROVE TypeOK  OBVIOUS
<1>1. projector \in States
  BY NoneAssumption, RevisionAssumption DEF Init, InitialState, States, CallStates
<1>2. ManagerType  BY DEF Init, ManagerType
<1>3. QueueType
  <2>1. pending \in Seq(CallEvents)  BY DEF Init
  <2>2. draining \in BOOLEAN  BY DEF Init
  <2> QED  BY <2>1, <2>2 DEF QueueType
<1>4. DrainType  BY <1>1, MaxPanicsAssumption DEF Init, DrainType
<1>5. DialogType  BY DEF Init, DialogType
<1>6. ThreadType  BY DEF Init, ThreadType, Idle, CallerStates
<1>7. LineType  BY DEF Init, LineType
<1> QED  BY <1>2, <1>3, <1>4, <1>5, <1>6, <1>7 DEF TypeOK

\* The entrypoint a call is given to is configured, or there is none.
LEMMA ResolveType == DrainType => Resolve \in Entrypoints \cup {None}
<1> SUFFICES ASSUME DrainType PROVE Resolve \in Entrypoints \cup {None}  OBVIOUS
<1>1. projector.physicalRing \in Entrypoints \cup {None}
  BY DEF DrainType, States
<1>2. Cardinality(Entrypoints) = 1 => \E ep \in Entrypoints : TRUE
  <2> SUFFICES ASSUME Entrypoints = {}, Cardinality(Entrypoints) = 1 PROVE FALSE
    OBVIOUS
  <2> QED  BY FS_EmptySet
<1> QED  BY <1>1, <1>2, DoorbellAssumption DEF Resolve

\* The events of the manager are call events.
LEMMA EventTypes ==
    ASSUME NEW d \in Dialogs
    PROVE  /\ \A ep \in Entrypoints : IncomingCallStarted(d, ep) \in CallEvents
           /\ \A r \in Reasons : IncomingCallEnded(d, r) \in CallEvents
           /\ CallAnswered(d) \in CallEvents
           /\ CallDeclined(d) \in CallEvents
           /\ CallHungUp(d) \in CallEvents
BY DEF CallEvents

\* Publishing a call event keeps the queue a queue of call events.
LEMMA PublishType ==
    ASSUME QueueType, NEW e \in CallEvents, Publish(e)
    PROVE  QueueType'
<1>1. pending' \in Seq(CallEvents)  BY DEF QueueType, Publish
<1>2. draining' \in BOOLEAN  BY DEF Publish
<1> QED  BY <1>1, <1>2 DEF QueueType

\* takeIncomingLocked hands over a dialog and keeps the manager well typed.
LEMMA TakeIncomingType ==
    ASSUME ManagerType, TakeIncoming
    PROVE  ManagerType' /\ incoming \in Dialogs
BY DEF ManagerType, TakeIncoming, StopExpiry

\* The locked part of byeActiveLocked and RemoteDialogEnded.
LEMMA DropActiveType ==
    ASSUME ManagerType, QueueType, DropActive
    PROVE  ManagerType' /\ QueueType' /\ active \in Dialogs \cup Outbound
<1>1. ManagerType' /\ active \in Dialogs \cup Outbound
  BY DEF ManagerType, DropActive
<1>2. CASE active \in Dialogs
  BY <1>1, <1>2, EventTypes, PublishType DEF DropActive
<1>3. CASE active \notin Dialogs
  BY <1>1, <1>3, Stable DEF DropActive
<1> QED  BY <1>2, <1>3

\* incomingDialog.Respond above 2xx, endPending and Bye.
LEMMA AdapterTypes ==
    ASSUME DialogType, NEW d \in Dialogs, Reject(d) \/ EndPending(d) \/ ByeInbound(d)
    PROVE  DialogType'
<1>1. CASE Reject(d)
  <2>1. CASE Concluded(d)  BY <1>1, <2>1, Stable DEF Reject
  <2>2. CASE ~Concluded(d)  BY <1>1, <2>2 DEF Reject, DialogType
  <2> QED  BY <2>1, <2>2
<1>2. CASE EndPending(d)  BY <1>2 DEF EndPending, DialogType
<1>3. CASE ByeInbound(d)  BY <1>3 DEF ByeInbound, DialogType
<1> QED  BY <1>1, <1>2, <1>3

\* The claim of a 200 OK, or the refusal of one.
LEMMA ClaimType ==
    ASSUME DialogType, NEW d \in Dialogs, UNCHANGED <<session, finals>>,
           adapter' = adapter \/ adapter' = [adapter EXCEPT ![d] = "concluded"]
    PROVE  DialogType'
BY DEF DialogType

\* A 200 OK on the wire.
LEMMA WriteType ==
    ASSUME DialogType, NEW d \in Dialogs, UNCHANGED adapter,
           session' = [session EXCEPT ![d] = "established"],
           finals' = [finals EXCEPT ![d] = @ + 1]
    PROVE  DialogType'
BY DEF DialogType

\* Manager.EndIncoming and RemoteDialogEnded.
LEMMA EndTypes ==
    ASSUME ManagerType, QueueType, LineType, UNCHANGED out,
           NEW d, NEW by \in {"bye", "media"},
           EndIncoming(d) \/ RemoteDialogEnded(d, by)
    PROVE  ManagerType' /\ QueueType' /\ LineType'
<1>1. CASE EndIncoming(d)
  <2>1. CASE incoming = None
    <3>1. UNCHANGED <<managerVars, queueVars, lineVars>>
      BY <1>1, <2>1 DEF EndIncoming, lineVars
    <3> QED  BY <3>1, Stable
  <2>2. CASE incoming # None
    <3>1. TakeIncoming
      BY <1>1, <2>2 DEF EndIncoming
    <3>2. PICK r \in CancelReasons : Publish(IncomingCallEnded(incoming, r))
      BY <1>1, <2>2 DEF EndIncoming
    <3>3. IncomingCallEnded(incoming, r) \in CallEvents
      BY <3>1, EnvironmentAssumption, EventTypes, TakeIncomingType DEF Reasons
    <3>4. LineType'
      BY <1>1, <2>2 DEF EndIncoming, LineType
    <3> QED  BY <3>1, <3>2, <3>3, <3>4, TakeIncomingType, PublishType
  <2> QED  BY <2>1, <2>2
<1>2. CASE RemoteDialogEnded(d, by)
  <2>1. CASE active = None
    <3>1. UNCHANGED <<managerVars, queueVars, lineVars>>
      BY <1>2, <2>1 DEF RemoteDialogEnded, lineVars
    <3> QED  BY <3>1, Stable
  <2>2. CASE active # None
    <3>1. DropActive
      BY <1>2, <2>2 DEF RemoteDialogEnded
    <3>2. LineType'
      BY <1>2, <2>2 DEF RemoteDialogEnded, LineType
    <3> QED  BY <3>1, <3>2, DropActiveType
  <2> QED  BY <2>1, <2>2
<1> QED  BY <1>1, <1>2

\* The steps of an INVITE and its handler.
LEMMA InviteType ==
    ASSUME TypeOK, NEW d \in Dialogs, FarEndInvite(d) \/ InviteStep(d)
    PROVE  TypeOK'
<1> USE Stable DEF TypeOK
<1>1. CASE FarEndInvite(d)
  BY <1>1 DEF FarEndInvite, DialogType, ThreadType
<1>2. CASE RegisterCancelHook(d)
  BY <1>2 DEF RegisterCancelHook, ThreadType
<1>3. CASE OnInvite(d)
  <2>1. CASE Refuses
    BY <1>3, <2>1 DEF OnInvite, ThreadType
  <2>2. CASE ~Refuses
    <3>1. Resolve \in Entrypoints
      BY <2>2, ResolveType DEF Refuses
    <3>2. IncomingCallStarted(d, Resolve) \in CallEvents
      BY <3>1, EventTypes
    <3>3. QueueType'
      BY <1>3, <2>2, <3>2, PublishType DEF OnInvite
    <3>4. ManagerType'
      BY <1>3, <2>2 DEF OnInvite, ArmExpiry, ManagerType
    <3> QED  BY <1>3, <2>2, <3>3, <3>4 DEF OnInvite, ThreadType
  <2> QED  BY <2>1, <2>2
<1>4. CASE RespondBusy(d)
  BY <1>4, AdapterTypes DEF RespondBusy, ThreadType
<1>5. CASE RingingSent(d)
  BY <1>5 DEF RingingSent, DialogType, ThreadType
<1>6. CASE RingingFails(d)
  BY <1>6 DEF RingingFails, ThreadType
<1>7. CASE RollBackInvite(d)
  <2>1. CASE incoming = d
    <3>1. IncomingCallEnded(d, "cancelled") \in CallEvents
      BY EventTypes DEF Reasons
    <3>2. ManagerType' /\ QueueType'
      BY <1>7, <2>1, <3>1, PublishType, TakeIncomingType DEF RollBackInvite
    <3> QED  BY <1>7, <2>1, <3>2 DEF RollBackInvite, ThreadType
  <2>2. CASE incoming # d
    BY <1>7, <2>2 DEF RollBackInvite, ThreadType
  <2> QED  BY <2>1, <2>2
<1>8. CASE RejectInvite(d)
  BY <1>8, AdapterTypes DEF RejectInvite, ThreadType
<1> QED
  BY <1>1, <1>2, <1>3, <1>4, <1>5, <1>6, <1>7, <1>8 DEF InviteStep

\* The steps of an expiry timer.
LEMMA ExpiryType ==
    ASSUME TypeOK, NEW d \in Dialogs, ExpiryStep(d)
    PROVE  TypeOK'
<1> USE Stable DEF TypeOK
<1>1. CASE ExpiryFires(d)
  BY <1>1 DEF ExpiryFires, ManagerType
<1>2. CASE ExpiryClears(d)
  <2>1. CASE incoming = d
    <3>1. IncomingCallEnded(d, "timeout") \in CallEvents
      BY EventTypes DEF Reasons
    <3>2. QueueType'
      BY <1>2, <2>1, <3>1, PublishType DEF ExpiryClears
    <3> QED  BY <1>2, <2>1, <3>2 DEF ExpiryClears, ManagerType
  <2>2. CASE incoming # d
    BY <1>2, <2>2 DEF ExpiryClears, ManagerType
  <2> QED  BY <2>1, <2>2
<1>3. CASE ExpiryResponds(d)
  BY <1>3, AdapterTypes DEF ExpiryResponds, ManagerType
<1> QED  BY <1>1, <1>2, <1>3 DEF ExpiryStep

\* The steps of a CANCEL or BYE from the far end.
LEMMA FarEndType ==
    ASSUME TypeOK, NEW d \in Dialogs,
           \/ FarEndCancel(d) \/ CancelStep(d)
           \/ FarEndBye(d) \/ ByeStep(d)
    PROVE  TypeOK'
<1> USE Stable DEF TypeOK
<1>1. CASE FarEndCancel(d)
  BY <1>1 DEF FarEndCancel, DialogType, ThreadType
<1>2. CASE CancelClaims(d)
  BY <1>2, AdapterTypes DEF CancelClaims, ThreadType
<1>3. CASE CancelEndsIncoming(d)
  <2>1. ManagerType' /\ QueueType' /\ LineType'
    BY <1>3, EndTypes DEF CancelEndsIncoming
  <2> QED  BY <1>3, <2>1 DEF CancelEndsIncoming, ThreadType
<1>4. CASE FarEndBye(d)
  BY <1>4 DEF FarEndBye, ThreadType
<1>5. CASE ReadBye(d)
  BY <1>5 DEF ReadBye, DialogType, ThreadType
<1>6. CASE ByeClaims(d)
  BY <1>6, AdapterTypes DEF ByeClaims, ThreadType
<1>7. CASE ByeEndsIncoming(d)
  <2>1. ManagerType' /\ QueueType' /\ LineType'
    BY <1>7, EndTypes DEF ByeEndsIncoming
  <2> QED  BY <1>7, <2>1 DEF ByeEndsIncoming, ThreadType
<1>8. CASE ByeEndsActive(d)
  <2>1. ManagerType' /\ QueueType' /\ LineType'
    BY <1>8, EndTypes DEF ByeEndsActive
  <2> QED  BY <1>8, <2>1 DEF ByeEndsActive, ThreadType
<1> QED
  BY <1>1, <1>2, <1>3, <1>4, <1>5, <1>6, <1>7, <1>8 DEF CancelStep, ByeStep

\* The media callback, the outbound BYE and the dial.
LEMMA MediaType ==
    ASSUME TypeOK,
           \/ \E d \in Dialogs \cup Outbound : MediaHearsBye(d)
           \/ \E o \in Outbound : FarEndOutboundBye(o)
           \/ StartStream
           \/ DialEnds
    PROVE  TypeOK'
<1> USE Stable DEF TypeOK
<1>1. ASSUME NEW d \in Dialogs \cup Outbound, MediaHearsBye(d) PROVE TypeOK'
  <2>1. ManagerType' /\ QueueType' /\ LineType'
    <3>1. CASE RemoteDialogEnded(d, "media")
      BY <1>1, <3>1, EndTypes DEF MediaHearsBye
    <3>2. CASE UNCHANGED <<managerVars, queueVars, misdirected>>
      BY <1>1, <3>2 DEF MediaHearsBye, lineVars
    <3> QED  BY <1>1, <3>1, <3>2 DEF MediaHearsBye
  <2> QED  BY <1>1, <2>1 DEF MediaHearsBye, ThreadType
<1>2. ASSUME NEW o \in Outbound, FarEndOutboundBye(o) PROVE TypeOK'
  BY <1>2 DEF FarEndOutboundBye, ThreadType, LineType
<1>3. CASE StartStream
  BY <1>3 DEF StartStream, ManagerType
<1>4. CASE DialEnds
  BY <1>4 DEF DialEnds, ManagerType, LineType
<1> QED  BY <1>1, <1>2, <1>3, <1>4

\* A caller's program counter and dialog stay well typed.
LEMMA BecomesType ==
    ASSUME ThreadType, NEW c \in Callers, NEW pc, NEW d,
           [pc |-> pc, dialog |-> d] \in CallerStates,
           Becomes(c, pc, d), UNCHANGED <<invite, cancel, bye>>
    PROVE  ThreadType'
BY DEF ThreadType, Becomes

\* Which dialog a caller holds where.
LEMMA CallerHolds ==
    ASSUME ThreadType, NEW c \in Callers
    PROVE  /\ At(c, "bye") => Of(c) \in Dialogs \cup Outbound
           /\ \A pc \in {"claim200", "write200", "promote", "busDecline",
                          "awaitCancel", "decline"} :
                 At(c, pc) => Of(c) \in Dialogs
BY DEF ThreadType, CallerStates, Idle, At, Of

\* The states a caller can move to.
LEMMA CallerMoves ==
    /\ [pc |-> "idle", dialog |-> None] \in CallerStates
    /\ \A d \in Dialogs :
          \A pc \in {"claim200", "write200", "promote", "busDecline", "awaitCancel",
                     "decline", "bye"} :
             [pc |-> pc, dialog |-> d] \in CallerStates
    /\ \A o \in Outbound : [pc |-> "bye", dialog |-> o] \in CallerStates
BY DEF CallerStates, Idle

\* The steps of Answer.
LEMMA AnswerType ==
    ASSUME TypeOK, NEW c \in Callers, Answer(c) \/ AnswerStep(c)
    PROVE  TypeOK'
<1> USE Stable, CallerMoves, CallerHolds DEF TypeOK
<1>1. CASE Answer(c)
  <2>1. incoming \in Dialogs  BY <1>1 DEF Answer, ManagerType
  <2> QED  BY <1>1, <2>1, BecomesType DEF Answer
<1>2. CASE AnswerClaims(c)
  <2>1. Of(c) \in Dialogs  BY <1>2 DEF AnswerClaims
  <2>2. ThreadType'  BY <1>2, <2>1, BecomesType DEF AnswerClaims
  <2>3. DialogType'
    <3>1. \/ adapter' = adapter
          \/ adapter' = [adapter EXCEPT ![Of(c)] = "concluded"]
      BY <1>2 DEF AnswerClaims
    <3>2. UNCHANGED <<session, finals>>
      BY <1>2 DEF AnswerClaims
    <3> QED  BY <2>1, <3>1, <3>2, ClaimType
  <2> QED  BY <1>2, <2>2, <2>3 DEF AnswerClaims
<1>3. CASE AnswerWritten(c)
  <2>1. Of(c) \in Dialogs  BY <1>3 DEF AnswerWritten
  <2>2. ThreadType'  BY <1>3, <2>1, BecomesType DEF AnswerWritten
  <2>3. DialogType'  BY <1>3, <2>1, WriteType DEF AnswerWritten
  <2> QED  BY <1>3, <2>2, <2>3 DEF AnswerWritten
<1>4. CASE AnswerFails(c)
  <2>1. ThreadType'  BY <1>4, BecomesType DEF AnswerFails
  <2>2. DialogType'  BY <1>4 DEF AnswerFails, DialogType
  <2> QED  BY <1>4, <2>1, <2>2 DEF AnswerFails
<1>5. CASE AnswerPromotes(c)
  <2>1. Of(c) \in Dialogs  BY <1>5 DEF AnswerPromotes
  <2>2. CASE incoming = Of(c)
    <3>1. ThreadType'  BY <1>5, <2>2, BecomesType DEF AnswerPromotes
    <3>2. ManagerType'
      BY <1>5, <2>1, <2>2 DEF AnswerPromotes, ManagerType, StopExpiry
    <3>3. QueueType'
      BY <1>5, <2>1, <2>2, EventTypes, PublishType DEF AnswerPromotes
    <3> QED  BY <1>5, <3>1, <3>2, <3>3 DEF AnswerPromotes
  <2>3. CASE incoming # Of(c)
    <3>1. ThreadType'
      BY <1>5, <2>1, <2>3, BecomesType DEF AnswerPromotes, AnswerLost
    <3> QED  BY <1>5, <2>3, <3>1 DEF AnswerPromotes
  <2> QED  BY <2>2, <2>3
<1> QED  BY <1>1, <1>2, <1>3, <1>4, <1>5 DEF AnswerStep

\* The steps of Decline, Hangup and HangupCall.
LEMMA HangupType ==
    ASSUME TypeOK, NEW c \in Callers,
           \/ Decline(c) \/ HangupActive(c) \/ HangupRinging(c) \/ HangupStep(c)
    PROVE  TypeOK'
<1> USE Stable, CallerMoves, CallerHolds DEF TypeOK
<1>1. CASE Decline(c)
  <2>1. ManagerType' /\ incoming \in Dialogs
    BY <1>1, TakeIncomingType DEF Decline
  <2>2. QueueType'  BY <1>1, <2>1, EventTypes, PublishType DEF Decline
  <2>3. ThreadType'  BY <1>1, <2>1, BecomesType DEF Decline
  <2> QED  BY <1>1, <2>1, <2>2, <2>3 DEF Decline
<1>2. CASE HangupActive(c)
  <2>1. ManagerType' /\ QueueType' /\ active \in Dialogs \cup Outbound
    BY <1>2, DropActiveType DEF HangupActive
  <2>2. ThreadType'  BY <1>2, <2>1, BecomesType DEF HangupActive
  <2> QED  BY <1>2, <2>1, <2>2 DEF HangupActive
<1>3. CASE HangupRinging(c)
  <2>1. ManagerType' /\ incoming \in Dialogs
    BY <1>3, TakeIncomingType DEF HangupRinging
  <2>2. QueueType'  BY <1>3, <2>1, EventTypes, PublishType DEF HangupRinging
  <2>3. ThreadType'  BY <1>3, <2>1, BecomesType DEF HangupRinging
  <2> QED  BY <1>3, <2>1, <2>2, <2>3 DEF HangupRinging
<1>4. CASE BusDecline(c)
  BY <1>4, BecomesType DEF BusDecline
<1>5. CASE HangupWithdrawn(c)
  BY <1>5, BecomesType DEF HangupWithdrawn
<1>6. CASE HangupGraceOver(c)
  BY <1>6, BecomesType DEF HangupGraceOver
<1>7. CASE DeclineResponds(c)
  <2>1. DialogType'  BY <1>7, AdapterTypes DEF DeclineResponds
  <2>2. ThreadType'  BY <1>7, BecomesType DEF DeclineResponds
  <2> QED  BY <1>7, <2>1, <2>2 DEF DeclineResponds
<1>8. CASE SendBye(c)
  <2>1. ThreadType'  BY <1>8, BecomesType DEF SendBye
  <2>2. CASE Of(c) \in Dialogs
    <3>1. DialogType'  BY <1>8, <2>2, AdapterTypes DEF SendBye
    <3> QED  BY <1>8, <2>1, <2>2, <3>1 DEF SendBye, lineVars
  <2>3. CASE Of(c) \notin Dialogs
    <3>1. LineType'  BY <1>8, <2>3 DEF SendBye, LineType
    <3> QED  BY <1>8, <2>1, <2>3, <3>1 DEF SendBye
  <2> QED  BY <2>2, <2>3
<1> QED
  BY <1>1, <1>2, <1>3, <1>4, <1>5, <1>6, <1>7, <1>8 DEF HangupStep

\* The drain, its sink and the bus.
LEMMA DrainStepType ==
    ASSUME TypeOK, DrainStep \/ BusRing
    PROVE  TypeOK'
<1> USE Stable DEF TypeOK
<1>0. CallEvents \subseteq Events
  BY DEF Events
<1>1. CASE DrainTakes
  <2>1. CASE pending = <<>>
    <3>1. QueueType'
      <4>1. draining' \in BOOLEAN  BY <1>1, <2>1 DEF DrainTakes
      <4> QED  BY <1>1, <2>1, <4>1 DEF DrainTakes, QueueType
    <3> QED  BY <1>1, <2>1, <3>1 DEF DrainTakes, DrainType
  <2>2. CASE pending # <<>>
    <3>1. Head(pending) \in CallEvents /\ Tail(pending) \in Seq(CallEvents)
      BY <2>2 DEF QueueType
    <3>2. QueueType'
      <4>1. draining' \in BOOLEAN  BY <1>1, <2>2 DEF DrainTakes, QueueType
      <4> QED  BY <1>1, <2>2, <3>1, <4>1 DEF DrainTakes, QueueType
    <3> QED  BY <1>1, <2>2, <3>1, <3>2 DEF DrainTakes, DrainType
  <2> QED  BY <2>1, <2>2
<1>2. CASE Deliver
  <2>1. delivering \in CallEvents /\ projector \in States
    BY <1>2 DEF Deliver, DrainType
  <2>2. projector' \in States
    BY <1>0, <1>2, <2>1, ApplyType DEF Deliver
  <2> QED  BY <1>2, <2>2 DEF Deliver, DrainType
<1>3. CASE DeliverPanics
  BY <1>3, MaxPanicsAssumption DEF DeliverPanics, DrainType
<1>4. CASE BusRing
  <2>1. PICK e \in Events : projector' = Apply(projector, e)
    BY <1>4, EnvironmentAssumption DEF BusRing, Events
  <2>2. projector' \in States
    BY <2>1, ApplyType DEF DrainType
  <2> QED  BY <1>4, <2>2 DEF BusRing, DrainType
<1> QED  BY <1>1, <1>2, <1>3, <1>4 DEF DrainStep

\* Every step keeps the variables in their types.
LEMMA NextType == TypeOK /\ [Next]_vars => TypeOK'
<1> SUFFICES ASSUME TypeOK, [Next]_vars PROVE TypeOK'  OBVIOUS
<1>1. CASE UNCHANGED vars
  BY <1>1, Stable DEF vars, TypeOK
<1>2. CASE Environment
  BY <1>2, InviteType, FarEndType, MediaType, AnswerType, HangupType,
     DrainStepType DEF Environment
<1>3. CASE Next /\ ~Environment
  BY <1>1, <1>3, InviteType, ExpiryType, FarEndType, MediaType, AnswerType,
     HangupType, DrainStepType DEF Next, CallerStep, Rest
<1> QED  BY <1>1, <1>2, <1>3

\* The manager, its dialogs, its callers and its queue are always well typed.
THEOREM SipTypeCorrect == Spec => []TypeOK
BY InitType, NextType, PTL DEF Spec

-----------------------------------------------------------------------------
(* The projected state follows the manager's.                              *)
(*                                                                         *)
(* A view is the pair of the ringing and the answered dialog.  Every call  *)
(* event fits the views it can be committed in and leads to one view, so   *)
(* the queue is a chain of views from the projector's to the manager's:    *)
(* each pending event fits the view the one before it leads to, and the    *)
(* last one leads to the manager's view.                                   *)

ViewOf(s) == <<s.incomingCall.dialog, s.activeCall.dialog>>

ManagerView == <<incoming, ActiveID>>

\* The view a call event leads to.
Post(e) ==
    CASE e.type = "call.incoming" -> <<e.dialog, None>>
      [] e.type = "call.answered" -> <<None, e.dialog>>
      [] OTHER -> <<None, None>>

\* The views a call event can be committed in.
Fits(v, e) ==
    /\ e.type = "call.incoming" => v = <<None, None>>
    /\ e.type \in {"call.incoming_ended", "call.answered", "call.declined"} =>
          v = <<e.dialog, None>>
    /\ e.type = "call.hung_up" => v = <<e.dialog, None>> \/ v = <<None, e.dialog>>

\* The view the projector has once the event being delivered has arrived.
Base == IF delivering = NoEvent THEN ViewOf(projector) ELSE Post(delivering)

\* The view before the i-th pending event.
Before(i) == IF i = 1 THEN Base ELSE Post(pending[i - 1])

Chain ==
    /\ delivering # NoEvent => Fits(ViewOf(projector), delivering)
    /\ \A i \in 1 .. Len(pending) : Fits(Before(i), pending[i])
    /\ ManagerView = Before(Len(pending) + 1)

\* The inductive invariant: types, one use of the line, and the chain as long as
\* no sink panic has lost an event.
SipInv ==
    /\ TypeOK
    /\ OneLine
    /\ mu = "dialing" => active = None
    /\ panics = 0 => Chain

\* A nil pointer and a call are told apart by the dialog field.
LEMMA CallByDialog ==
    ASSUME NEW c \in Calls \cup {NoCall}
    PROVE  (c.dialog = None) <=> (c = NoCall)
BY NoneAssumption DEF Calls, NoCall

\* An event that fits the projector's view is accepted and leads where it says.
LEMMA FitsAccepted ==
    ASSUME NEW s \in States, NEW e \in CallEvents, Fits(ViewOf(s), e)
    PROVE  Accepts(s, e) /\ ViewOf(Apply(s, e)) = Post(e)
<1>1. s.incomingCall \in Calls \cup {NoCall} /\ s.activeCall \in Calls \cup {NoCall}
  BY DEF States
<1>2. /\ (s.incomingCall.dialog = None) <=> (s.incomingCall = NoCall)
      /\ (s.activeCall.dialog = None) <=> (s.activeCall = NoCall)
  BY <1>1, CallByDialog
<1>3. e \in Events
  BY DEF Events
<1>4. NoCall.dialog = None
  BY DEF NoCall
<1>5. ASSUME Accepts(s, e)
      PROVE  /\ Apply(s, e).incomingCall = Effect(s, e).incomingCall
             /\ Apply(s, e).activeCall = Effect(s, e).activeCall
  BY <1>3, <1>5, EffectType, ApplyAccepted
<1>6. CASE \E d \in Dialogs, ep \in Entrypoints : e = IncomingCallStarted(d, ep)
  <2>1. PICK d \in Dialogs, ep \in Entrypoints : e = IncomingCallStarted(d, ep)
    BY <1>6
  <2>2. e.type = "call.incoming" /\ e.dialog = d /\ e.entrypoint = ep
    BY <2>1 DEF IncomingCallStarted
  <2>3. s.incomingCall = NoCall /\ s.activeCall = NoCall
    BY <1>2, <2>2 DEF Fits, ViewOf
  <2>4. Accepts(s, e)
    BY <2>2, <2>3, NoneAssumption DEF Accepts, CallSlotFree
  <2>5. /\ Effect(s, e).incomingCall = [dialog |-> d, entrypoint |-> ep]
        /\ Effect(s, e).activeCall = NoCall
    BY <1>3, <2>2, <2>3, EffectFields
  <2> QED  BY <1>4, <1>5, <2>2, <2>4, <2>5 DEF ViewOf, Post
<1>7. CASE \E d \in Dialogs, r \in Reasons : e = IncomingCallEnded(d, r)
  <2>1. e.type = "call.incoming_ended" /\ e.dialog \in Dialogs
    BY <1>7 DEF IncomingCallEnded
  <2>2. s.incomingCall.dialog = e.dialog /\ s.activeCall = NoCall
    BY <1>2, <2>1 DEF Fits, ViewOf
  <2>3. Accepts(s, e)
    BY <2>1, <2>2 DEF Accepts
  <2>4. Effect(s, e).incomingCall = NoCall /\ Effect(s, e).activeCall = NoCall
    BY <1>3, <2>1, <2>2, EffectFields
  <2> QED  BY <1>4, <1>5, <2>1, <2>3, <2>4 DEF ViewOf, Post
<1>8. CASE \E d \in Dialogs : e = CallAnswered(d)
  <2>1. e.type = "call.answered" /\ e.dialog \in Dialogs
    BY <1>8 DEF CallAnswered
  <2>2. s.incomingCall.dialog = e.dialog /\ s.incomingCall # NoCall
    BY <1>2, <2>1, NoneAssumption DEF Fits, ViewOf
  <2>3. Accepts(s, e)
    BY <2>1, <2>2 DEF Accepts, MatchingIncoming
  <2>4. /\ Effect(s, e).incomingCall = NoCall
        /\ Effect(s, e).activeCall = s.incomingCall
    BY <1>3, <2>1, EffectFields
  <2> QED  BY <1>4, <1>5, <2>1, <2>2, <2>3, <2>4 DEF ViewOf, Post
<1>9. CASE \E d \in Dialogs : e = CallDeclined(d)
  <2>1. e.type = "call.declined" /\ e.dialog \in Dialogs
    BY <1>9 DEF CallDeclined
  <2>2. /\ s.incomingCall.dialog = e.dialog /\ s.incomingCall # NoCall
        /\ s.activeCall = NoCall
    BY <1>2, <2>1, NoneAssumption DEF Fits, ViewOf
  <2>3. Accepts(s, e)
    BY <2>1, <2>2 DEF Accepts, MatchingIncoming
  <2>4. Effect(s, e).incomingCall = NoCall /\ Effect(s, e).activeCall = NoCall
    BY <1>3, <2>1, <2>2, EffectFields
  <2> QED  BY <1>4, <1>5, <2>1, <2>3, <2>4 DEF ViewOf, Post
<1>10. CASE \E d \in Dialogs : e = CallHungUp(d)
  <2>1. e.type = "call.hung_up" /\ e.dialog \in Dialogs
    BY <1>10 DEF CallHungUp
  <2>2. \/ /\ s.incomingCall.dialog = e.dialog /\ s.incomingCall # NoCall
           /\ s.activeCall = NoCall
        \/ /\ s.incomingCall = NoCall
           /\ s.activeCall # NoCall /\ s.activeCall.dialog = e.dialog
    BY <1>2, <2>1, NoneAssumption DEF Fits, ViewOf
  <2>3. Accepts(s, e)
    BY <2>1, <2>2 DEF Accepts, MatchingIncoming
  <2>4. Effect(s, e).incomingCall = NoCall /\ Effect(s, e).activeCall = NoCall
    BY <1>3, <2>1, <2>2, EffectFields
  <2> QED  BY <1>4, <1>5, <2>1, <2>3, <2>4 DEF ViewOf, Post
<1> QED
  BY <1>6, <1>7, <1>8, <1>9, <1>10 DEF CallEvents

-----------------------------------------------------------------------------
(* Steps on the chain *)

\* A step that leaves the two views and the queue alone keeps the chain.
LEMMA ChainStable ==
    ASSUME Chain, ManagerView' = ManagerView,
           UNCHANGED <<pending, delivering>>,
           ViewOf(projector') = ViewOf(projector)
    PROVE  Chain'
<1>1. Base' = Base
  BY DEF Base
<1>2. \A i : Before(i)' = Before(i)
  BY <1>1 DEF Before
<1> QED  BY <1>2 DEF Chain

\* Committing an event that fits the manager's view, and leads to its next view,
\* makes the chain one link longer.
LEMMA ChainGrows ==
    ASSUME QueueType, Chain, NEW e \in CallEvents,
           Publish(e), UNCHANGED drainVars,
           Fits(ManagerView, e), ManagerView' = Post(e)
    PROVE  Chain'
<1>0. PICK n \in Nat : n = Len(pending)
  BY DEF QueueType
<1>1. /\ pending \in Seq(CallEvents)
      /\ pending' = Append(pending, e)
      /\ Len(pending') = n + 1 /\ pending'[n + 1] = e
      /\ \A i \in 1 .. n : pending'[i] = pending[i]
  BY <1>0 DEF QueueType, Publish
<1>2. Base' = Base
  BY DEF Base, drainVars
<1>3. \A i \in 1 .. n + 1 : Before(i)' = Before(i)
  <2> SUFFICES ASSUME NEW i \in 1 .. n + 1 PROVE Before(i)' = Before(i)
    OBVIOUS
  <2>1. CASE i = 1  BY <1>2, <2>1 DEF Before
  <2>2. CASE i # 1
    <3>1. i - 1 \in 1 .. n
      BY <1>1, <2>2
    <3> QED  BY <1>1, <2>2, <3>1 DEF Before
  <2> QED  BY <2>1, <2>2
<1>4. (\A i \in 1 .. Len(pending) : Fits(Before(i), pending[i]))'
  <2> SUFFICES ASSUME NEW i \in 1 .. n + 1
               PROVE  Fits(Before(i)', pending'[i])
    BY <1>1
  <2>1. CASE i \in 1 .. n
    BY <1>0, <1>1, <1>3, <2>1 DEF Chain
  <2>2. CASE i = n + 1
    <3>1. Before(i)' = ManagerView
      BY <1>0, <1>1, <1>3, <2>2 DEF Chain
    <3> QED  BY <1>1, <2>2, <3>1
  <2> QED  BY <1>1, <2>1, <2>2
<1>5. (ManagerView = Before(Len(pending) + 1))'
  <2>1. (Len(pending) + 1)' = n + 2 /\ n + 2 # 1 /\ (n + 2) - 1 = n + 1
    BY <1>1
  <2>2. Before(n + 2)' = Post(pending'[n + 1])
    BY <1>1, <2>1 DEF Before
  <2> QED  BY <1>1, <2>1, <2>2
<1>6. (delivering # NoEvent => Fits(ViewOf(projector), delivering))'
  BY DEF Chain, drainVars
<1> QED  BY <1>4, <1>5, <1>6 DEF Chain

\* Taking the head of the queue keeps the chain: its first link becomes the event
\* being delivered.
LEMMA ChainTaken ==
    ASSUME QueueType, Chain, DrainTakes
    PROVE  Chain'
<1>0. UNCHANGED <<incoming, active, projector>>
  BY DEF DrainTakes, managerVars
<1>1. CASE pending = <<>>
  <2>1. UNCHANGED <<pending, delivering>>
    BY <1>1 DEF DrainTakes
  <2> QED  BY <1>0, <2>1, ChainStable DEF ManagerView, ActiveID, ViewOf
<1>2. CASE pending # <<>>
  <2> DEFINE n == Len(pending)
  <2>1. /\ pending \in Seq(CallEvents) /\ n \in Nat /\ n > 0
        /\ pending' = Tail(pending) /\ Len(pending') = n - 1
        /\ \A i \in 1 .. n - 1 : pending'[i] = pending[i + 1]
        /\ delivering = NoEvent /\ delivering' = pending[1]
        /\ pending[1] \in CallEvents
    BY <1>2 DEF DrainTakes, QueueType
  <2>2. pending[1] # NoEvent
    BY <2>1 DEF CallEvents, NoEvent, IncomingCallStarted, IncomingCallEnded,
                CallAnswered, CallDeclined, CallHungUp
  <2>3. Base' = Post(pending[1])
    BY <2>1, <2>2 DEF Base
  <2>4. \A i \in 1 .. n : Before(i)' = Before(i + 1)
    <3> SUFFICES ASSUME NEW i \in 1 .. n PROVE Before(i)' = Before(i + 1)
      OBVIOUS
    <3>1. CASE i = 1
      <4>1. Before(i + 1) = Post(pending[1])
        BY <2>1, <3>1 DEF Before
      <4> QED  BY <2>3, <3>1, <4>1 DEF Before
    <3>2. CASE i # 1
      <4>1. i - 1 \in 1 .. n - 1 /\ (i - 1) + 1 = i /\ (i + 1) - 1 = i /\ i + 1 # 1
        BY <2>1, <3>2
      <4>2. Before(i)' = Post(pending'[i - 1])
        BY <3>2 DEF Before
      <4>3. Before(i + 1) = Post(pending[i])
        BY <4>1 DEF Before
      <4> QED  BY <2>1, <4>1, <4>2, <4>3
    <3> QED  BY <3>1, <3>2
  <2>5. (\A i \in 1 .. Len(pending) : Fits(Before(i), pending[i]))'
    <3> SUFFICES ASSUME NEW i \in 1 .. n - 1
                 PROVE  Fits(Before(i)', pending'[i])
      BY <2>1
    <3>1. i \in 1 .. n /\ i + 1 \in 1 .. n
      BY <2>1
    <3> QED  BY <2>1, <2>4, <3>1 DEF Chain
  <2>6. (ManagerView = Before(Len(pending) + 1))'
    <3>1. (Len(pending) + 1)' = n
      BY <2>1
    <3>2. n \in 1 .. n
      BY <2>1
    <3> QED  BY <1>0, <2>4, <3>1, <3>2 DEF Chain, ManagerView, ActiveID
  <2>7. Fits(ViewOf(projector'), pending[1])
    <3>1. 1 \in 1 .. n
      BY <2>1
    <3>2. Before(1) = ViewOf(projector)
      BY <2>1 DEF Before, Base
    <3> QED  BY <1>0, <3>1, <3>2 DEF Chain
  <2> QED  BY <2>1, <2>5, <2>6, <2>7 DEF Chain
<1> QED  BY <1>1, <1>2

\* Delivering an event that fits moves the projector along the chain.
LEMMA ChainDelivered ==
    ASSUME DrainType, Chain, Deliver
    PROVE  Chain'
<1>1. /\ delivering \in CallEvents /\ projector \in States
      /\ Fits(ViewOf(projector), delivering)
      /\ UNCHANGED <<incoming, active, pending>>
      /\ delivering' = NoEvent /\ projector' = Apply(projector, delivering)
  BY DEF Deliver, DrainType, Chain, managerVars, queueVars
<1>2. Base' = Base
  BY <1>1, FitsAccepted DEF Base, Deliver
<1>3. \A i : Before(i)' = Before(i)
  BY <1>1, <1>2 DEF Before
<1> QED  BY <1>1, <1>3 DEF Chain, ManagerView, ActiveID

-----------------------------------------------------------------------------
(* The inductive invariant *)

\* A step that leaves the manager's slots, its queue and the projector's calls
\* alone keeps the invariant.
LEMMA QuietStep ==
    ASSUME SipInv, TypeOK', UNCHANGED <<mu, incoming, active>>,
           UNCHANGED <<pending, delivering, panics>>,
           ViewOf(projector') = ViewOf(projector)
    PROVE  SipInv'
<1>1. ManagerView' = ManagerView
  BY DEF ManagerView, ActiveID
<1>2. (panics = 0 => Chain)'
  BY <1>1, ChainStable DEF SipInv
<1> QED  BY <1>2 DEF SipInv, OneLine

\* Committing a transition together with its event keeps the invariant.
LEMMA CommitStep ==
    ASSUME SipInv, TypeOK', NEW e \in CallEvents, Publish(e),
           UNCHANGED <<mu, drainVars>>, mu = "free",
           Fits(ManagerView, e), ManagerView' = Post(e),
           incoming' # None => active' = None
    PROVE  SipInv'
<1>1. (panics = 0 => Chain)'
  BY ChainGrows DEF SipInv, TypeOK, drainVars
<1> QED  BY <1>1 DEF SipInv, OneLine

\* Taking the pending call out of its slot, with the event that says so.
LEMMA TakeStep ==
    ASSUME SipInv, TypeOK', TakeIncoming, NEW e \in CallEvents, Publish(e),
           e.dialog = incoming,
           e.type \in {"call.incoming_ended", "call.declined", "call.hung_up"},
           UNCHANGED drainVars
    PROVE  SipInv'
<1>1. /\ incoming # None /\ incoming' = None
      /\ active = None /\ active' = None /\ mu = "free" /\ mu' = mu
  BY DEF TakeIncoming, SipInv, OneLine
<1>2. ActiveID = None /\ ActiveID' = None
  BY <1>1 DEF ActiveID
<1>3. Fits(ManagerView, e) /\ ManagerView' = Post(e)
  BY <1>1, <1>2 DEF Fits, Post, ManagerView
<1> QED  BY <1>1, <1>3, CommitStep

\* Ending the active dialog, inbound or outbound.
LEMMA DropStep ==
    ASSUME SipInv, TypeOK', DropActive, UNCHANGED drainVars
    PROVE  SipInv'
<1>1. /\ active # None /\ active' = None /\ mu = "free" /\ mu' = mu
      /\ incoming = None /\ incoming' = None /\ ActiveID' = None
  BY DEF DropActive, SipInv, OneLine, ActiveID
<1>2. CASE active \in Dialogs
  <2> DEFINE e == CallHungUp(active)
  <2>1. e \in CallEvents /\ Publish(e) /\ e.type = "call.hung_up" /\ e.dialog = active
    BY <1>2, EventTypes DEF DropActive, CallHungUp
  <2>2. ActiveID = active
    BY <1>2 DEF ActiveID
  <2>3. Fits(ManagerView, e) /\ ManagerView' = Post(e)
    BY <1>1, <2>1, <2>2 DEF Fits, Post, ManagerView
  <2> QED  BY <1>1, <2>1, <2>3, CommitStep
<1>3. CASE active \notin Dialogs
  <2>1. UNCHANGED queueVars
    BY <1>3 DEF DropActive
  <2>2. ManagerView' = ManagerView
    BY <1>1, <1>3 DEF ManagerView, ActiveID
  <2>3. (panics = 0 => Chain)'
    BY <2>1, <2>2, ChainStable DEF SipInv, queueVars, drainVars
  <2> QED  BY <1>1, <2>3 DEF SipInv, OneLine
<1> QED  BY <1>2, <1>3

\* The initial state satisfies the invariant.
LEMMA InitSip == Init => SipInv
<1> SUFFICES ASSUME Init PROVE SipInv  OBVIOUS
<1>1. TypeOK  BY InitType
<1>2. ViewOf(projector) = <<None, None>>
  BY DEF Init, InitialState, ViewOf, NoCall
<1>3. ManagerView = <<None, None>>
  BY DEF Init, ManagerView, ActiveID
<1>4. Before(Len(pending) + 1) = <<None, None>> /\ Len(pending) = 0
  BY <1>2 DEF Init, Before, Base
<1>5. Chain
  BY <1>3, <1>4 DEF Init, Chain
<1> QED  BY <1>1, <1>5 DEF Init, SipInv, OneLine

\* The dialer's and the manager's reaction to an INVITE.
LEMMA InviteSip ==
    ASSUME SipInv, TypeOK', NEW d \in Dialogs, FarEndInvite(d) \/ InviteStep(d)
    PROVE  SipInv'
<1> USE DEF managerVars, queueVars, drainVars
<1>1. CASE \/ FarEndInvite(d) \/ RegisterCancelHook(d) \/ RespondBusy(d)
           \/ RingingSent(d) \/ RingingFails(d) \/ RejectInvite(d)
  BY <1>1, QuietStep DEF FarEndInvite, RegisterCancelHook, RespondBusy,
     RingingSent, RingingFails, RejectInvite
<1>2. CASE OnInvite(d)
  <2>1. CASE Refuses
    BY <1>2, <2>1, QuietStep DEF OnInvite
  <2>2. CASE ~Refuses
    <3> DEFINE e == IncomingCallStarted(d, Resolve)
    <3>1. Resolve \in Entrypoints
      BY <2>2, ResolveType DEF Refuses, SipInv, TypeOK
    <3>2. e \in CallEvents /\ e.type = "call.incoming" /\ e.dialog = d
      BY <3>1, EventTypes DEF IncomingCallStarted
    <3>3. /\ mu = "free" /\ UNCHANGED <<mu, active, drainVars>>
          /\ incoming = None /\ active = None /\ incoming' = d
          /\ Publish(e)
      BY <1>2, <2>2 DEF OnInvite, Refuses, LineBusy
    <3>4. ActiveID = None /\ ActiveID' = None
      BY <3>3 DEF ActiveID
    <3>5. Fits(ManagerView, e) /\ ManagerView' = Post(e)
      BY <3>2, <3>3, <3>4 DEF Fits, Post, ManagerView
    <3> QED  BY <3>2, <3>3, <3>5, CommitStep
  <2> QED  BY <2>1, <2>2
<1>3. CASE RollBackInvite(d)
  <2>1. CASE incoming = d
    <3> DEFINE e == IncomingCallEnded(d, "cancelled")
    <3>1. e \in CallEvents /\ e.type = "call.incoming_ended" /\ e.dialog = incoming
      BY <2>1, EventTypes DEF IncomingCallEnded, Reasons
    <3>2. TakeIncoming /\ Publish(e) /\ UNCHANGED drainVars
      BY <1>3, <2>1 DEF RollBackInvite
    <3> QED  BY <3>1, <3>2, TakeStep
  <2>2. CASE incoming # d
    BY <1>3, <2>2, QuietStep DEF RollBackInvite
  <2> QED  BY <2>1, <2>2
<1> QED  BY <1>1, <1>2, <1>3 DEF InviteStep

\* The expiry of an unanswered call.
LEMMA ExpirySip ==
    ASSUME SipInv, TypeOK', NEW d \in Dialogs, ExpiryStep(d)
    PROVE  SipInv'
<1> USE DEF managerVars, queueVars, drainVars
<1>1. CASE ExpiryFires(d) \/ ExpiryResponds(d)
  BY <1>1, QuietStep DEF ExpiryFires, ExpiryResponds
<1>2. CASE ExpiryClears(d)
  <2>1. CASE incoming = d
    <3> DEFINE e == IncomingCallEnded(d, "timeout")
    <3>1. e \in CallEvents /\ e.type = "call.incoming_ended" /\ e.dialog = d
      BY EventTypes DEF IncomingCallEnded, Reasons
    <3>2. /\ mu = "free" /\ UNCHANGED <<mu, active, drainVars>>
          /\ incoming # None /\ incoming' = None
          /\ Publish(e)
      BY <1>2, <2>1, NoneAssumption DEF ExpiryClears
    <3>3. active = None /\ ActiveID = None /\ ActiveID' = None
      BY <3>2 DEF SipInv, OneLine, ActiveID
    <3>4. Fits(ManagerView, e) /\ ManagerView' = Post(e)
      BY <2>1, <3>1, <3>2, <3>3 DEF Fits, Post, ManagerView
    <3> QED  BY <3>1, <3>2, <3>4, CommitStep
  <2>2. CASE incoming # d
    BY <1>2, <2>2, QuietStep DEF ExpiryClears
  <2> QED  BY <2>1, <2>2
<1> QED  BY <1>1, <1>2 DEF ExpiryStep

\* EndIncoming and RemoteDialogEnded, whichever dialog they were called for.
LEMMA EndSip ==
    ASSUME SipInv, TypeOK', NEW d, NEW by,
           EndIncoming(d) \/ RemoteDialogEnded(d, by), UNCHANGED drainVars
    PROVE  SipInv'
<1>1. CASE EndIncoming(d)
  <2>1. CASE incoming = None
    BY <1>1, <2>1, QuietStep DEF EndIncoming, managerVars, queueVars, drainVars
  <2>2. CASE incoming # None
    <3>1. TakeIncoming /\ incoming \in Dialogs
      BY <1>1, <2>2 DEF EndIncoming, SipInv, TypeOK, ManagerType
    <3>2. PICK r \in CancelReasons : Publish(IncomingCallEnded(incoming, r))
      BY <1>1, <2>2 DEF EndIncoming
    <3> DEFINE e == IncomingCallEnded(incoming, r)
    <3>3. e \in CallEvents /\ e.type = "call.incoming_ended" /\ e.dialog = incoming
      BY <3>1, EnvironmentAssumption, EventTypes DEF IncomingCallEnded, Reasons
    <3> QED  BY <3>1, <3>2, <3>3, TakeStep
  <2> QED  BY <2>1, <2>2
<1>2. CASE RemoteDialogEnded(d, by)
  <2>1. CASE active = None
    BY <1>2, <2>1, QuietStep
       DEF RemoteDialogEnded, managerVars, queueVars, drainVars
  <2>2. CASE active # None
    BY <1>2, <2>2, DropStep DEF RemoteDialogEnded
  <2> QED  BY <2>1, <2>2
<1> QED  BY <1>1, <1>2

\* The far end's CANCEL and BYE.
LEMMA FarEndSip ==
    ASSUME SipInv, TypeOK', NEW d \in Dialogs,
           \/ FarEndCancel(d) \/ CancelStep(d)
           \/ FarEndBye(d) \/ ByeStep(d)
    PROVE  SipInv'
<1>1. CASE \/ FarEndCancel(d) \/ CancelClaims(d) \/ FarEndBye(d)
           \/ ReadBye(d) \/ ByeClaims(d)
  BY <1>1, QuietStep DEF FarEndCancel, CancelClaims, FarEndBye, ReadBye,
     ByeClaims, managerVars, queueVars, drainVars
<1>2. CASE CancelEndsIncoming(d)
  BY <1>2, EndSip DEF CancelEndsIncoming
<1>3. CASE ByeEndsIncoming(d)
  BY <1>3, EndSip DEF ByeEndsIncoming
<1>4. CASE ByeEndsActive(d)
  BY <1>4, EndSip DEF ByeEndsActive
<1> QED  BY <1>1, <1>2, <1>3, <1>4 DEF CancelStep, ByeStep

\* The media callback, the outbound BYE and the dial.
LEMMA MediaSip ==
    ASSUME SipInv, TypeOK',
           \/ \E d \in Dialogs \cup Outbound : MediaHearsBye(d)
           \/ \E o \in Outbound : FarEndOutboundBye(o)
           \/ StartStream
           \/ DialEnds
    PROVE  SipInv'
<1> USE DEF managerVars, queueVars, drainVars
<1>1. ASSUME NEW d \in Dialogs \cup Outbound, MediaHearsBye(d) PROVE SipInv'
  <2>1. CASE RemoteDialogEnded(d, "media")
    BY <1>1, <2>1, EndSip DEF MediaHearsBye
  <2>2. CASE UNCHANGED <<managerVars, queueVars, misdirected>>
    BY <1>1, <2>2, QuietStep DEF MediaHearsBye
  <2> QED  BY <1>1, <2>1, <2>2 DEF MediaHearsBye
<1>2. ASSUME NEW o \in Outbound, FarEndOutboundBye(o) PROVE SipInv'
  BY <1>2, QuietStep DEF FarEndOutboundBye
<1>3. CASE StartStream
  <2>1. /\ incoming = None /\ active = None
        /\ UNCHANGED <<incoming, active, queueVars, drainVars>>
    BY <1>3 DEF StartStream
  <2>2. (panics = 0 => Chain)'
    BY <2>1, ChainStable DEF SipInv, ManagerView, ActiveID
  <2> QED  BY <2>1, <2>2 DEF SipInv, OneLine
<1>4. CASE DialEnds
  <2>1. /\ mu = "dialing" /\ mu' = "free"
        /\ active' = active \/ active' \in Outbound
        /\ UNCHANGED <<incoming, queueVars, drainVars>>
    BY <1>4 DEF DialEnds
  <2>2. incoming = None /\ active = None
    BY <2>1 DEF SipInv, OneLine
  <2>3. ActiveID = None /\ ActiveID' = None
    BY <2>1, <2>2, OutboundAssumption DEF ActiveID
  <2>4. (panics = 0 => Chain)'
    BY <2>1, <2>3, ChainStable DEF SipInv, ManagerView
  <2> QED  BY <2>1, <2>2, <2>4 DEF SipInv, OneLine
<1> QED  BY <1>1, <1>2, <1>3, <1>4

\* The manager's callers.
LEMMA CallerSip ==
    ASSUME SipInv, TypeOK', NEW c \in Callers,
           \/ Answer(c) \/ Decline(c) \/ HangupActive(c) \/ HangupRinging(c)
           \/ CallerStep(c)
    PROVE  SipInv'
<1>1. CASE Answer(c) \/ AnswerClaims(c) \/ AnswerWritten(c) \/ AnswerFails(c)
  BY <1>1, QuietStep DEF Answer, AnswerClaims, AnswerWritten, AnswerFails,
     managerVars, queueVars, drainVars
<1>2. CASE HangupStep(c)
  BY <1>2, QuietStep DEF HangupStep, BusDecline, HangupWithdrawn,
     HangupGraceOver, DeclineResponds, SendBye, managerVars, queueVars, drainVars
<1>3. CASE AnswerPromotes(c)
  <2>1. CASE incoming = Of(c)
    <3> DEFINE d == Of(c)
    <3>1. d \in Dialogs
      BY <1>3, CallerHolds DEF AnswerPromotes, SipInv, TypeOK
    <3>2. CallAnswered(d) \in CallEvents
      BY <3>1, EventTypes
    <3>3. /\ mu = "free" /\ UNCHANGED <<mu, drainVars>>
          /\ incoming = d /\ incoming' = None /\ active' = d
          /\ Publish(CallAnswered(d))
      BY <1>3, <2>1 DEF AnswerPromotes
    <3>4. active = None /\ ActiveID = None /\ ActiveID' = d
      BY <3>1, <3>3, NoneAssumption DEF SipInv, OneLine, ActiveID
    <3>5. Fits(ManagerView, CallAnswered(d)) /\ ManagerView' = Post(CallAnswered(d))
      BY <3>3, <3>4 DEF Fits, Post, ManagerView, CallAnswered
    <3> QED  BY <3>2, <3>3, <3>5, CommitStep
  <2>2. CASE incoming # Of(c)
    BY <1>3, <2>2, QuietStep DEF AnswerPromotes, managerVars, queueVars, drainVars
  <2> QED  BY <2>1, <2>2
<1>4. CASE Decline(c)
  <2>1. TakeIncoming /\ Publish(CallDeclined(incoming)) /\ UNCHANGED drainVars
    BY <1>4 DEF Decline
  <2>2. incoming \in Dialogs
    BY <2>1, TakeIncomingType DEF SipInv, TypeOK
  <2>3. /\ CallDeclined(incoming) \in CallEvents
        /\ CallDeclined(incoming).type = "call.declined"
        /\ CallDeclined(incoming).dialog = incoming
    BY <2>2, EventTypes DEF CallDeclined
  <2> QED  BY <2>1, <2>3, TakeStep
<1>5. CASE HangupActive(c)
  BY <1>5, DropStep DEF HangupActive
<1>6. CASE HangupRinging(c)
  <2>1. TakeIncoming /\ Publish(CallHungUp(incoming)) /\ UNCHANGED drainVars
    BY <1>6 DEF HangupRinging
  <2>2. incoming \in Dialogs
    BY <2>1, TakeIncomingType DEF SipInv, TypeOK
  <2>3. /\ CallHungUp(incoming) \in CallEvents
        /\ CallHungUp(incoming).type = "call.hung_up"
        /\ CallHungUp(incoming).dialog = incoming
    BY <2>2, EventTypes DEF CallHungUp
  <2> QED  BY <2>1, <2>3, TakeStep
<1> QED
  BY <1>1, <1>2, <1>3, <1>4, <1>5, <1>6 DEF CallerStep, AnswerStep

\* The bus's ring frames leave the projected calls alone.
LEMMA BusKeepsView ==
    ASSUME NEW s \in States, NEW e \in Events,
           e.type \in {"ring.started", "ring.cleared"}
    PROVE  ViewOf(Apply(s, e)) = ViewOf(s)
<1>1. CASE Accepts(s, e)
  <2>1. /\ Effect(s, e).incomingCall = s.incomingCall
        /\ Effect(s, e).activeCall = s.activeCall
    BY <1>1, EffectFields
  <2>2. /\ Apply(s, e).incomingCall = Effect(s, e).incomingCall
        /\ Apply(s, e).activeCall = Effect(s, e).activeCall
    BY <1>1, EffectType, ApplyAccepted
  <2> QED  BY <2>1, <2>2 DEF ViewOf
<1>2. CASE ~Accepts(s, e)
  BY <1>2, ApplyRefused
<1> QED  BY <1>1, <1>2

\* The drain, its sink and the bus.
LEMMA DrainSip ==
    ASSUME SipInv, TypeOK', DrainStep \/ BusRing
    PROVE  SipInv'
<1> USE DEF managerVars, queueVars
<1>1. CASE DrainTakes
  <2>1. UNCHANGED <<mu, incoming, active, panics>>
    BY <1>1 DEF DrainTakes
  <2> QED  BY <1>1, <2>1, ChainTaken DEF SipInv, OneLine, TypeOK
<1>2. CASE Deliver
  <2>1. UNCHANGED <<mu, incoming, active, panics>>
    BY <1>2 DEF Deliver
  <2> QED  BY <1>2, <2>1, ChainDelivered DEF SipInv, OneLine, TypeOK
<1>3. CASE DeliverPanics
  <2>1. UNCHANGED <<mu, incoming, active>> /\ panics' # 0
    BY <1>3 DEF DeliverPanics, SipInv, TypeOK, DrainType
  <2> QED  BY <2>1 DEF SipInv, OneLine
<1>4. CASE BusRing
  <2>1. PICK ep \in BusRings :
           \E e \in {RingStarted(ep), RingCleared(ep)} :
              projector' = Apply(projector, e)
    BY <1>4 DEF BusRing
  <2>2. PICK e \in {RingStarted(ep), RingCleared(ep)} :
           projector' = Apply(projector, e)
    BY <2>1
  <2>3. e \in Events /\ e.type \in {"ring.started", "ring.cleared"}
    BY EnvironmentAssumption DEF Events, RingStarted, RingCleared
  <2>4. ViewOf(projector') = ViewOf(projector)
    BY <2>2, <2>3, BusKeepsView DEF SipInv, TypeOK, DrainType
  <2>5. /\ UNCHANGED <<mu, incoming, active>>
        /\ UNCHANGED <<pending, delivering, panics>>
    BY <1>4 DEF BusRing
  <2> QED  BY <2>4, <2>5, QuietStep
<1> QED  BY <1>1, <1>2, <1>3, <1>4 DEF DrainStep

\* Every step keeps the invariant.
LEMMA NextSip == SipInv /\ [Next]_vars => SipInv'
<1> SUFFICES ASSUME SipInv, [Next]_vars PROVE SipInv'  OBVIOUS
<1>0. TypeOK'
  BY NextType DEF SipInv
<1>1. CASE UNCHANGED vars
  BY <1>0, <1>1, QuietStep DEF vars, managerVars, queueVars, drainVars
<1>2. CASE Environment
  BY <1>0, <1>2, InviteSip, FarEndSip, MediaSip, CallerSip, DrainSip
     DEF Environment
<1>3. CASE Next /\ ~Environment
  BY <1>0, <1>1, <1>3, InviteSip, ExpirySip, FarEndSip, MediaSip, CallerSip,
     DrainSip DEF Next, Rest
<1> QED  BY <1>1, <1>2, <1>3

\* The one line is never used twice, for any number of dialogs and callers
\* (Manager.OnInvite, StartStream).
THEOREM SipOneLine == Spec => []OneLine
<1>1. SipInv => OneLine
  BY DEF SipInv
<1> QED  BY <1>1, InitSip, NextSip, PTL DEF Spec

\* Once every committed event is delivered the projected state and the manager
\* agree, for any number of dialogs, callers and pending events
\* (Manager.publishLocked, drainEvents).
THEOREM SipConverged == Spec => []Converged
<1>1. SipInv => Converged
  <2> SUFFICES ASSUME SipInv, panics = 0, pending = <<>>, delivering = NoEvent
               PROVE  /\ projector.incomingCall.dialog = incoming
                      /\ projector.activeCall.dialog = ActiveID
    BY DEF Converged
  <2>1. Before(Len(pending) + 1) = ViewOf(projector)
    BY DEF Before, Base
  <2>2. ManagerView = ViewOf(projector)
    BY <2>1 DEF SipInv, Chain
  <2> QED  BY <2>2 DEF ManagerView, ViewOf
<1> QED  BY <1>1, InitSip, NextSip, PTL DEF Spec

\* The projector refuses no event of the manager (Projector.Apply's
\* ErrInvalidTransition is never logged for a SIP call).
THEOREM SipNeverRefused == Spec => []NeverRefused
<1>1. SipInv => NeverRefused
  <2> SUFFICES ASSUME SipInv, panics = 0, delivering # NoEvent
               PROVE  Accepts(projector, delivering)
    BY DEF NeverRefused
  <2>1. /\ projector \in States /\ delivering \in CallEvents
        /\ Fits(ViewOf(projector), delivering)
    BY DEF SipInv, TypeOK, DrainType, Chain
  <2> QED  BY <2>1, FitsAccepted
<1> QED  BY <1>1, InitSip, NextSip, PTL DEF Spec
-----------------------------------------------------------------------------
(* The answer: who may put a final response on the wire.  The claim of the *)
(* dialog's lock is what makes the one response unique, so the invariant   *)
(* says what the claim excludes while a 200 OK is still to be written.     *)

\* One final response at most, and none before the dialog is claimed.
AnsweredOnce(d) ==
    /\ finals[d] \in {0, 1}
    /\ ~Concluded(d) => finals[d] = 0

\* The caller that is about to write a 200 OK has claimed the dialog, nothing
\* has been written on it, and no other caller is about to.
WriterAlone(c) ==
    At(c, "write200") =>
        /\ adapter[Of(c)] = "concluded" /\ finals[Of(c)] = 0
        /\ \A b \in Callers : At(b, "write200") /\ Of(b) = Of(c) => b = c

AnswerInv ==
    /\ \A d \in Dialogs : AnsweredOnce(d)
    /\ \A c \in Callers : WriterAlone(c)

\* A step of one caller, or of none, after which no new 200 OK is claimed.
NoNewWriter ==
    \/ caller' = caller
    \/ \E c \in Callers : \E pc, d : pc # "write200" /\ Becomes(c, pc, d)

\* Such a step leaves only callers about to write that were so before.
LEMMA WritersBefore ==
    ASSUME TypeOK, NoNewWriter, NEW b \in Callers, At(b, "write200")'
    PROVE  At(b, "write200") /\ Of(b)' = Of(b)
<1>1. CASE caller' = caller
  BY <1>1 DEF At, Of
<1>2. ASSUME NEW c \in Callers, NEW pc, NEW d, pc # "write200", Becomes(c, pc, d)
      PROVE  At(b, "write200") /\ Of(b)' = Of(b)
  <2>1. caller'[c].pc = pc
    BY <1>2 DEF Becomes, TypeOK, ThreadType
  <2>2. b # c
    BY <1>2, <2>1 DEF At
  <2>3. caller'[b] = caller[b]
    BY <1>2, <2>2 DEF Becomes, TypeOK, ThreadType
  <2> QED  BY <2>3 DEF At, Of
<1> QED  BY <1>1, <1>2 DEF NoNewWriter

\* A step that neither claims a dialog nor writes a response.
LEMMA AnswerQuiet ==
    ASSUME TypeOK, AnswerInv, UNCHANGED <<adapter, finals>>, NoNewWriter
    PROVE  AnswerInv'
<1>1. ASSUME NEW d \in Dialogs PROVE AnsweredOnce(d)'
  BY DEF AnswerInv, AnsweredOnce, Concluded
<1>2. ASSUME NEW c \in Callers PROVE WriterAlone(c)'
  <2> SUFFICES ASSUME At(c, "write200")'
               PROVE  /\ adapter'[Of(c)'] = "concluded" /\ finals'[Of(c)'] = 0
                      /\ \A b \in Callers :
                            At(b, "write200")' /\ Of(b)' = Of(c)' => b = c
    BY DEF WriterAlone
  <2>1. At(c, "write200") /\ Of(c)' = Of(c)
    BY WritersBefore
  <2>2. WriterAlone(c)
    BY DEF AnswerInv
  <2>3. ASSUME NEW b \in Callers, At(b, "write200")', Of(b)' = Of(c)' PROVE b = c
    <3>1. At(b, "write200") /\ Of(b)' = Of(b)
      BY <2>3, WritersBefore
    <3> QED  BY <2>1, <2>2, <2>3, <3>1 DEF WriterAlone
  <2> QED  BY <2>1, <2>2, <2>3 DEF WriterAlone
<1> QED  BY <1>1, <1>2 DEF AnswerInv

\* A step that moves the adapter of one dialog: it concludes it, or the dialog
\* was not concluded; the one response it may write is on an unclaimed dialog.
LEMMA AnswerMoves ==
    ASSUME TypeOK, AnswerInv, NoNewWriter, NEW d \in Dialogs, NEW v,
           adapter' = [adapter EXCEPT ![d] = v],
           v = "concluded" \/ ~Concluded(d),
           \/ finals' = finals
           \/ /\ ~Concluded(d) /\ v = "concluded"
              /\ finals' = [finals EXCEPT ![d] = @ + 1]
    PROVE  AnswerInv'
<1>0. /\ adapter \in [Dialogs -> {"new", "ringing", "withdrawn", "concluded"}]
      /\ finals \in [Dialogs -> Nat]
  BY DEF TypeOK, DialogType
<1>1. ASSUME NEW x \in Dialogs PROVE AnsweredOnce(x)'
  <2>1. AnsweredOnce(x)
    BY DEF AnswerInv
  <2>2. CASE x # d
    <3>1. adapter'[x] = adapter[x] /\ finals'[x] = finals[x]
      BY <1>0, <2>2
    <3> QED  BY <2>1, <3>1 DEF AnsweredOnce, Concluded
  <2>3. CASE x = d /\ finals' = finals
    <3>1. adapter'[x] = v
      BY <1>0, <2>3
    <3>2. ~Concluded(x)' => ~Concluded(x)
      BY <2>3, <3>1 DEF Concluded
    <3> QED  BY <2>1, <2>3, <3>2 DEF AnsweredOnce
  <2>4. CASE /\ x = d /\ ~Concluded(d) /\ v = "concluded"
             /\ finals' = [finals EXCEPT ![d] = @ + 1]
    <3>1. finals[d] = 0
      BY <2>1, <2>4 DEF AnsweredOnce
    <3>2. finals'[x] = 1 /\ adapter'[x] = "concluded"
      BY <1>0, <2>4, <3>1
    <3> QED  BY <3>2 DEF AnsweredOnce, Concluded
  <2> QED  BY <2>2, <2>3, <2>4
<1>2. ASSUME NEW c \in Callers PROVE WriterAlone(c)'
  <2> SUFFICES ASSUME At(c, "write200")'
               PROVE  /\ adapter'[Of(c)'] = "concluded" /\ finals'[Of(c)'] = 0
                      /\ \A b \in Callers :
                            At(b, "write200")' /\ Of(b)' = Of(c)' => b = c
    BY DEF WriterAlone
  <2>1. At(c, "write200") /\ Of(c)' = Of(c)
    BY WritersBefore
  <2>2. WriterAlone(c) /\ Of(c) \in Dialogs
    BY <2>1, CallerHolds DEF AnswerInv, TypeOK
  <2>3. adapter[Of(c)] = "concluded" /\ finals[Of(c)] = 0
    BY <2>1, <2>2 DEF WriterAlone
  <2>4. adapter'[Of(c)] = "concluded" /\ finals'[Of(c)] = 0
    <3>1. CASE Of(c) = d
      <4>1. Concluded(d)
        BY <2>3, <3>1 DEF Concluded
      <4> QED  BY <1>0, <2>3, <3>1, <4>1
    <3>2. CASE Of(c) # d
      BY <1>0, <2>2, <2>3, <3>2
    <3> QED  BY <3>1, <3>2
  <2>5. ASSUME NEW b \in Callers, At(b, "write200")', Of(b)' = Of(c)' PROVE b = c
    <3>1. At(b, "write200") /\ Of(b)' = Of(b)
      BY <2>5, WritersBefore
    <3> QED  BY <2>1, <2>2, <2>5, <3>1 DEF WriterAlone
  <2> QED  BY <2>1, <2>4, <2>5
<1> QED  BY <1>1, <1>2 DEF AnswerInv

\* incomingDialog.Respond above 2xx, endPending and Bye.
LEMMA AnswerAdapter ==
    ASSUME TypeOK, AnswerInv, NoNewWriter, NEW d \in Dialogs,
           Reject(d) \/ EndPending(d) \/ ByeInbound(d)
    PROVE  AnswerInv'
<1>1. CASE Reject(d)
  <2>1. CASE Concluded(d)
    BY <1>1, <2>1, AnswerQuiet DEF Reject, dialogVars
  <2>2. CASE ~Concluded(d)
    <3>1. adapter' = [adapter EXCEPT ![d] = "concluded"]
      BY <1>1, <2>2 DEF Reject
    <3>2. finals' = finals \/ finals' = [finals EXCEPT ![d] = @ + 1]
      BY <1>1, <2>2 DEF Reject
    <3> QED  BY <2>2, <3>1, <3>2, AnswerMoves
  <2> QED  BY <2>1, <2>2
<1>2. CASE EndPending(d)
  <2>1. ~Concluded(d)
    BY <1>2 DEF EndPending, Concluded
  <2> QED  BY <1>2, <2>1, AnswerMoves DEF EndPending
<1>3. CASE ByeInbound(d)
  BY <1>3, AnswerMoves DEF ByeInbound
<1> QED  BY <1>1, <1>2, <1>3

\* The claim of a 200 OK: no caller was about to write on an unclaimed dialog.
LEMMA AnswerClaimed ==
    ASSUME TypeOK, AnswerInv, NEW c \in Callers, NEW d \in Dialogs, ~Concluded(d),
           Becomes(c, "write200", d), UNCHANGED finals,
           adapter' = [adapter EXCEPT ![d] = "concluded"]
    PROVE  AnswerInv'
<1>0. /\ adapter \in [Dialogs -> {"new", "ringing", "withdrawn", "concluded"}]
      /\ caller \in [Callers -> CallerStates]
  BY DEF TypeOK, DialogType, ThreadType
<1>1. /\ caller'[c].pc = "write200" /\ caller'[c].dialog = d
      /\ \A b \in Callers \ {c} : caller'[b] = caller[b]
  BY <1>0 DEF Becomes
<1>2. ASSUME NEW b \in Callers, At(b, "write200") PROVE Of(b) \in Dialogs \ {d}
  <2>1. Of(b) \in Dialogs /\ adapter[Of(b)] = "concluded"
    BY <1>2, CallerHolds DEF AnswerInv, WriterAlone, TypeOK
  <2> QED  BY <2>1 DEF Concluded
<1>3. ASSUME NEW x \in Dialogs PROVE AnsweredOnce(x)'
  <2>1. AnsweredOnce(x)
    BY DEF AnswerInv
  <2>2. ~Concluded(x)' => ~Concluded(x)
    BY <1>0 DEF Concluded
  <2> QED  BY <2>1, <2>2 DEF AnsweredOnce
<1>4. ASSUME NEW b \in Callers PROVE WriterAlone(b)'
  <2> SUFFICES ASSUME caller'[b].pc = "write200"
               PROVE  /\ adapter'[caller'[b].dialog] = "concluded"
                      /\ finals'[caller'[b].dialog] = 0
                      /\ \A a \in Callers :
                            /\ caller'[a].pc = "write200"
                            /\ caller'[a].dialog = caller'[b].dialog
                            => a = b
    BY DEF WriterAlone, At, Of
  <2>1. CASE b = c
    <3>1. finals[d] = 0 /\ adapter'[d] = "concluded"
      BY <1>0 DEF AnswerInv, AnsweredOnce
    <3>2. ASSUME NEW a \in Callers, caller'[a].pc = "write200",
                 caller'[a].dialog = d, a # c
          PROVE  FALSE
      <4>1. At(a, "write200") /\ Of(a) = d
        BY <1>1, <3>2 DEF At, Of
      <4> QED  BY <1>2, <4>1
    <3> QED  BY <1>1, <2>1, <3>1, <3>2
  <2>2. CASE b # c
    <3>1. At(b, "write200") /\ caller'[b] = caller[b] /\ caller'[b].dialog = Of(b)
      BY <1>1, <2>2 DEF At, Of
    <3>2. Of(b) \in Dialogs \ {d} /\ WriterAlone(b)
      BY <1>2, <3>1 DEF AnswerInv
    <3>3. adapter'[Of(b)] = "concluded" /\ finals'[Of(b)] = 0
      BY <1>0, <3>1, <3>2 DEF WriterAlone
    <3>4. ASSUME NEW a \in Callers, caller'[a].pc = "write200",
                 caller'[a].dialog = Of(b)
          PROVE  a = b
      <4>1. a # c
        BY <1>1, <3>2, <3>4
      <4>2. At(a, "write200") /\ Of(a) = Of(b)
        BY <1>1, <3>4, <4>1 DEF At, Of
      <4> QED  BY <3>1, <3>2, <4>2 DEF WriterAlone
    <3> QED  BY <3>1, <3>3, <3>4
  <2> QED  BY <2>1, <2>2
<1> QED  BY <1>3, <1>4 DEF AnswerInv

\* The 200 OK on the wire: its writer is the only one, and leaves.
LEMMA AnswerOnWire ==
    ASSUME TypeOK, AnswerInv, NEW c \in Callers, At(c, "write200"),
           Becomes(c, "promote", Of(c)), UNCHANGED adapter,
           finals' = [finals EXCEPT ![Of(c)] = @ + 1]
    PROVE  AnswerInv'
<1>0. /\ finals \in [Dialogs -> Nat] /\ caller \in [Callers -> CallerStates]
      /\ Of(c) \in Dialogs
  BY CallerHolds DEF TypeOK, DialogType, ThreadType
<1>1. adapter[Of(c)] = "concluded" /\ finals[Of(c)] = 0
  BY DEF AnswerInv, WriterAlone
<1>2. ASSUME NEW x \in Dialogs PROVE AnsweredOnce(x)'
  <2>1. CASE x = Of(c)
    <3>1. finals'[x] = 1 /\ adapter'[x] = "concluded"
      BY <1>0, <1>1, <2>1
    <3> QED  BY <3>1 DEF AnsweredOnce, Concluded
  <2>2. CASE x # Of(c)
    <3>1. finals'[x] = finals[x]
      BY <1>0, <2>2
    <3> QED  BY <3>1 DEF AnswerInv, AnsweredOnce, Concluded
  <2> QED  BY <2>1, <2>2
<1>3. NoNewWriter
  BY DEF NoNewWriter
<1>4. ASSUME NEW b \in Callers PROVE WriterAlone(b)'
  <2> SUFFICES ASSUME At(b, "write200")'
               PROVE  /\ adapter'[Of(b)'] = "concluded" /\ finals'[Of(b)'] = 0
                      /\ \A a \in Callers :
                            At(a, "write200")' /\ Of(a)' = Of(b)' => a = b
    BY DEF WriterAlone
  <2>1. At(b, "write200") /\ Of(b)' = Of(b)
    BY <1>3, WritersBefore
  <2>2. b # c
    BY <1>0 DEF Becomes, At
  <2>3. Of(b) # Of(c) /\ WriterAlone(b) /\ Of(b) \in Dialogs
    BY <2>1, <2>2, CallerHolds DEF AnswerInv, WriterAlone, TypeOK
  <2>4. adapter'[Of(b)] = "concluded" /\ finals'[Of(b)] = 0
    BY <1>0, <2>1, <2>3 DEF WriterAlone
  <2>5. ASSUME NEW a \in Callers, At(a, "write200")', Of(a)' = Of(b)' PROVE a = b
    <3>1. At(a, "write200") /\ Of(a)' = Of(a)
      BY <1>3, <2>5, WritersBefore
    <3> QED  BY <2>1, <2>3, <2>5, <3>1 DEF WriterAlone
  <2> QED  BY <2>1, <2>4, <2>5
<1> QED  BY <1>2, <1>4 DEF AnswerInv
\* What a caller may do next.
CallerActs(c) ==
    \/ Answer(c) \/ Decline(c) \/ HangupActive(c) \/ HangupRinging(c)
    \/ CallerStep(c)

\* Only callers move callers.
LEMMA WhoSteps ==
    ASSUME [Next]_vars
    PROVE  (\E c \in Callers : CallerActs(c)) \/ UNCHANGED caller
<1>1. ASSUME NEW d \in Dialogs,
             \/ FarEndInvite(d) \/ FarEndCancel(d) \/ FarEndBye(d)
             \/ InviteStep(d) \/ ExpiryStep(d) \/ CancelStep(d) \/ ByeStep(d)
      PROVE  UNCHANGED caller
  BY <1>1 DEF FarEndInvite, FarEndCancel, FarEndBye, InviteStep, ExpiryStep,
     CancelStep, ByeStep, RegisterCancelHook, OnInvite, RespondBusy, RingingSent,
     RingingFails, RollBackInvite, RejectInvite, ExpiryFires, ExpiryClears,
     ExpiryResponds, CancelClaims, CancelEndsIncoming, ReadBye, ByeClaims,
     ByeEndsIncoming, ByeEndsActive, threadVars
<1>2. CASE \/ \E d \in Dialogs \cup Outbound : MediaHearsBye(d)
           \/ \E o \in Outbound : FarEndOutboundBye(o)
           \/ StartStream \/ DialEnds \/ DrainStep \/ BusRing
           \/ UNCHANGED vars
  BY <1>2 DEF MediaHearsBye, FarEndOutboundBye, StartStream, DialEnds,
     DrainStep, DrainTakes, Deliver, DeliverPanics, BusRing, vars, threadVars
<1> QED  BY <1>1, <1>2 DEF Next, Environment, Rest, CallerActs

\* The steps of Answer, Decline, Hangup and HangupCall.
LEMMA AnswerCallers ==
    ASSUME TypeOK, AnswerInv, NEW c \in Callers,
           CallerActs(c)
    PROVE  AnswerInv'
<1> USE DEF dialogVars
<1>1. CASE \/ Answer(c) \/ Decline(c) \/ HangupActive(c) \/ HangupRinging(c)
           \/ AnswerFails(c) \/ AnswerPromotes(c) \/ BusDecline(c)
           \/ HangupWithdrawn(c) \/ HangupGraceOver(c)
  <2>1. UNCHANGED <<adapter, finals>>
    BY <1>1 DEF Answer, Decline, HangupActive, HangupRinging, AnswerFails,
       AnswerPromotes, BusDecline, HangupWithdrawn, HangupGraceOver
  <2>2. \E pc, d : pc # "write200" /\ Becomes(c, pc, d)
    BY <1>1 DEF Answer, Decline, HangupActive, HangupRinging, AnswerFails,
       AnswerPromotes, AnswerLost, BusDecline, HangupWithdrawn, HangupGraceOver
  <2> QED  BY <2>1, <2>2, AnswerQuiet DEF NoNewWriter
<1>2. CASE AnswerClaims(c)
  <2>1. Of(c) \in Dialogs
    BY <1>2, CallerHolds DEF AnswerClaims, TypeOK
  <2>2. CASE Concluded(Of(c))
    <3>1. NoNewWriter
      BY <1>2, <2>2 DEF AnswerClaims, NoNewWriter
    <3> QED  BY <1>2, <2>2, <3>1, AnswerQuiet DEF AnswerClaims
  <2>3. CASE ~Concluded(Of(c))
    BY <1>2, <2>1, <2>3, AnswerClaimed DEF AnswerClaims
  <2> QED  BY <2>2, <2>3
<1>3. CASE AnswerWritten(c)
  BY <1>3, AnswerOnWire DEF AnswerWritten
<1>4. CASE DeclineResponds(c)
  <2>1. Of(c) \in Dialogs
    BY <1>4, CallerHolds DEF DeclineResponds, TypeOK
  <2>2. NoNewWriter
    BY <1>4 DEF DeclineResponds, NoNewWriter
  <2> QED  BY <1>4, <2>1, <2>2, AnswerAdapter DEF DeclineResponds
<1>5. CASE SendBye(c)
  <2>1. NoNewWriter
    BY <1>5 DEF SendBye, NoNewWriter
  <2>2. CASE Of(c) \in Dialogs
    BY <1>5, <2>1, <2>2, AnswerAdapter DEF SendBye
  <2>3. CASE Of(c) \notin Dialogs
    BY <1>5, <2>1, <2>3, AnswerQuiet DEF SendBye
  <2> QED  BY <2>2, <2>3
<1> QED
  BY <1>1, <1>2, <1>3, <1>4, <1>5 DEF CallerActs, CallerStep, AnswerStep, HangupStep

\* The steps of the INVITE handler, the expiry timer, the far end and the rest.
LEMMA AnswerOthers ==
    ASSUME TypeOK, AnswerInv, UNCHANGED caller, [Next]_vars
    PROVE  AnswerInv'
<1> USE DEF dialogVars
<1>0. NoNewWriter
  BY DEF NoNewWriter
<1>1. ASSUME NEW d \in Dialogs,
             \/ FarEndInvite(d) \/ FarEndCancel(d) \/ FarEndBye(d)
             \/ InviteStep(d) \/ ExpiryStep(d) \/ CancelStep(d) \/ ByeStep(d)
      PROVE  AnswerInv'
  <2>1. CASE \/ FarEndInvite(d) \/ FarEndCancel(d) \/ FarEndBye(d)
             \/ RegisterCancelHook(d) \/ OnInvite(d) \/ RingingFails(d)
             \/ RollBackInvite(d) \/ ExpiryFires(d) \/ ExpiryClears(d)
             \/ CancelEndsIncoming(d) \/ ReadBye(d) \/ ByeEndsIncoming(d)
             \/ ByeEndsActive(d)
    <3>1. UNCHANGED <<adapter, finals>>
      BY <2>1 DEF FarEndInvite, FarEndCancel, FarEndBye, RegisterCancelHook,
         OnInvite, RingingFails, RollBackInvite, ExpiryFires, ExpiryClears,
         CancelEndsIncoming, ReadBye, ByeEndsIncoming, ByeEndsActive
    <3> QED  BY <1>0, <3>1, AnswerQuiet
  <2>2. CASE RespondBusy(d) \/ RejectInvite(d) \/ ExpiryResponds(d)
    <3>1. Reject(d)
      BY <2>2 DEF RespondBusy, RejectInvite, ExpiryResponds
    <3> QED  BY <1>0, <3>1, AnswerAdapter
  <2>3. CASE CancelClaims(d) \/ ByeClaims(d)
    <3>1. EndPending(d) \/ UNCHANGED <<adapter, finals>>
      BY <2>3 DEF CancelClaims, ByeClaims
    <3> QED  BY <1>0, <3>1, AnswerAdapter, AnswerQuiet
  <2>4. CASE RingingSent(d)
    BY <1>0, <2>4, AnswerMoves DEF RingingSent
  <2> QED
    BY <1>1, <2>1, <2>2, <2>3, <2>4 DEF InviteStep, ExpiryStep, CancelStep, ByeStep
<1>2. CASE \/ \E d \in Dialogs \cup Outbound : MediaHearsBye(d)
           \/ \E o \in Outbound : FarEndOutboundBye(o)
           \/ StartStream \/ DialEnds \/ DrainStep \/ BusRing
           \/ UNCHANGED vars
  <2>1. UNCHANGED <<adapter, finals>>
    BY <1>2 DEF MediaHearsBye, FarEndOutboundBye, StartStream, DialEnds,
       DrainStep, DrainTakes, Deliver, DeliverPanics, BusRing, vars
  <2> QED  BY <1>0, <2>1, AnswerQuiet
<1>3. ASSUME NEW c \in Callers, CallerActs(c) PROVE AnswerInv'
  BY <1>3, AnswerCallers
<1> QED  BY <1>1, <1>2, <1>3 DEF Next, Environment, Rest, CallerActs

\* The initial state, and every step.
LEMMA AnswerInductive ==
    /\ Init => AnswerInv
    /\ TypeOK /\ AnswerInv /\ [Next]_vars => AnswerInv'
<1>1. Init => AnswerInv
  BY DEF Init, AnswerInv, AnsweredOnce, WriterAlone, Idle, At
<1>2. ASSUME TypeOK, AnswerInv, [Next]_vars PROVE AnswerInv'
  BY <1>2, WhoSteps, AnswerCallers, AnswerOthers DEF CallerActs
<1> QED  BY <1>1, <1>2

\* No call is told two outcomes, for any number of dialogs and of callers that
\* answer, decline and hang up at once (incomingDialog.Respond, endPending).
THEOREM SipOneFinalResponse == Spec => []OneFinalResponse
<1>1. AnswerInv => OneFinalResponse
  BY DEF AnswerInv, AnsweredOnce, OneFinalResponse
<1>2. TypeOK /\ AnswerInv /\ [Next]_vars => TypeOK' /\ AnswerInv'
  BY NextType, AnswerInductive
<1> QED  BY <1>1, <1>2, InitType, AnswerInductive, PTL DEF Spec
-----------------------------------------------------------------------------
(* The answered call: who is able to end it.  A BYE handler that drops the *)
(* active call has ended the session first, so what is dropped with its    *)
(* session up is dropped by a caller that holds it, or was not the BYE's.  *)

\* Before the INVITE there is nothing to hang up, and a BYE that has been read
\* has ended its session for good.
ByeEndsSession(d) ==
    /\ invite[d] = "none" =>
          bye[d] = "none" /\ session[d] \notin {"early", "established", "unsent"}
    /\ bye[d] \notin {"none", "readEarly", "readAnswered"} => session[d] = "ended"

FarEndInv == \A d \in Dialogs : ByeEndsSession(d)

\* A step that starts no INVITE and reads no BYE: a session stays or ends, or an
\* early one is answered.
LEMMA SessionMoves ==
    ASSUME FarEndInv, UNCHANGED bye,
           \A d \in Dialogs : invite'[d] = "none" => invite[d] = "none",
           \A d \in Dialogs :
              \/ session'[d] \in {session[d], "ended"}
              \/ session[d] = "early"
    PROVE  FarEndInv'
<1> SUFFICES ASSUME NEW d \in Dialogs PROVE ByeEndsSession(d)'
  BY DEF FarEndInv
<1> QED  BY DEF FarEndInv, ByeEndsSession

\* A step that moves the BYE of one dialog, whose session it ends or finds ended,
\* or which it only finds up.
LEMMA ByeMoves ==
    ASSUME TypeOK, FarEndInv, UNCHANGED invite,
           NEW d \in Dialogs \cup Outbound, NEW v, bye' = [bye EXCEPT ![d] = v],
           \A x \in Dialogs \ {d} : session'[x] = session[x],
           d \in Dialogs =>
              \/ session'[d] = "ended" /\ bye[d] # "none"
              \/ /\ session[d] \in {"early", "established", "unsent"} /\ UNCHANGED session
                 /\ v \in {"readEarly", "readAnswered"}
    PROVE  FarEndInv'
<1> SUFFICES ASSUME NEW x \in Dialogs PROVE ByeEndsSession(x)'
  BY DEF FarEndInv
<1>1. bye'[d] = v /\ (x # d => bye'[x] = bye[x])
  BY DEF TypeOK, ThreadType
<1>2. CASE x # d
  BY <1>1, <1>2 DEF FarEndInv, ByeEndsSession
<1>3. CASE x = d
  BY <1>1, <1>3 DEF FarEndInv, ByeEndsSession
<1> QED  BY <1>2, <1>3

\* What incomingDialog's operations do to the sessions.
LEMMA AdapterSessions ==
    ASSUME TypeOK, NEW d \in Dialogs,
           \/ Reject(d) \/ EndPending(d) \/ ByeInbound(d)
           \/ UNCHANGED session
    PROVE  \A x \in Dialogs : session'[x] \in {session[x], "ended"}
BY DEF TypeOK, DialogType, Reject, EndPending, ByeInbound, dialogVars

\* The initial state, and every step.
LEMMA FarEndInductive ==
    /\ Init => FarEndInv
    /\ TypeOK /\ FarEndInv /\ [Next]_vars => FarEndInv'
<1>1. Init => FarEndInv
  BY DEF Init, FarEndInv, ByeEndsSession
<1> SUFFICES ASSUME TypeOK, FarEndInv, [Next]_vars PROVE FarEndInv'
  BY <1>1
<1>0. /\ session \in [Dialogs -> {"none", "early", "established", "unsent", "ended"}]
      /\ DOMAIN invite = Dialogs
  BY DEF TypeOK, DialogType, ThreadType
<1> USE DEF dialogVars
<1>2. ASSUME NEW c \in Callers, CallerActs(c) PROVE FarEndInv'
  <2>1. UNCHANGED <<invite, bye>>
    BY <1>2 DEF CallerActs, CallerStep, AnswerStep, HangupStep, Answer, Decline,
       HangupActive, HangupRinging, AnswerClaims, AnswerWritten, AnswerFails,
       AnswerPromotes, BusDecline, HangupWithdrawn, HangupGraceOver,
       DeclineResponds, SendBye
  <2>2. CASE AnswerWritten(c) \/ AnswerFails(c)
    <3>1. \A x \in Dialogs :
             session'[x] \in {session[x], "ended"} \/ session[x] = "early"
      BY <1>0, <2>2 DEF AnswerWritten, AnswerFails
    <3> QED  BY <2>1, <3>1, SessionMoves
  <2>3. CASE DeclineResponds(c) \/ SendBye(c)
    <3>1. \/ Of(c) \in Dialogs /\ (Reject(Of(c)) \/ ByeInbound(Of(c)))
          \/ UNCHANGED session
      BY <2>3, CallerHolds DEF DeclineResponds, SendBye, TypeOK
    <3>2. \A x \in Dialogs : session'[x] \in {session[x], "ended"}
      BY <3>1, AdapterSessions
    <3> QED  BY <2>1, <3>2, SessionMoves
  <2>4. CASE ~(\/ AnswerWritten(c) \/ AnswerFails(c) \/ DeclineResponds(c)
               \/ SendBye(c))
    <3>1. UNCHANGED session
      BY <1>2, <2>4 DEF CallerActs, CallerStep, AnswerStep, HangupStep, Answer,
         Decline, HangupActive, HangupRinging, AnswerClaims,
         AnswerPromotes, BusDecline, HangupWithdrawn, HangupGraceOver
    <3> QED  BY <2>1, <3>1, SessionMoves
  <2> QED  BY <2>2, <2>3, <2>4
<1>3. ASSUME NEW d \in Dialogs, InviteStep(d) \/ ExpiryStep(d) \/ CancelStep(d)
      PROVE  FarEndInv'
  <2>1. UNCHANGED bye /\ \A x \in Dialogs : invite'[x] = "none" => invite[x] = "none"
    BY <1>0, <1>3 DEF InviteStep, ExpiryStep, CancelStep, RegisterCancelHook,
       OnInvite, RespondBusy, RingingSent, RingingFails, RollBackInvite,
       RejectInvite, ExpiryFires, ExpiryClears, ExpiryResponds, CancelClaims,
       CancelEndsIncoming, threadVars
  <2>2. Reject(d) \/ UNCHANGED session
    BY <1>3 DEF InviteStep, ExpiryStep, CancelStep, RegisterCancelHook,
       OnInvite, RespondBusy, RingingSent, RingingFails, RollBackInvite,
       RejectInvite, ExpiryFires, ExpiryClears, ExpiryResponds, CancelClaims,
       EndPending, CancelEndsIncoming
  <2> QED  BY <2>1, <2>2, AdapterSessions, SessionMoves
<1>4. ASSUME NEW d \in Dialogs, FarEndInvite(d) PROVE FarEndInv'
  <2> SUFFICES ASSUME NEW x \in Dialogs PROVE ByeEndsSession(x)'
    BY DEF FarEndInv
  <2>1. /\ bye' = bye /\ invite'[d] = "arrived" /\ session'[d] = "early"
        /\ invite[d] = "none"
        /\ x # d => invite'[x] = invite[x] /\ session'[x] = session[x]
    BY <1>0, <1>4 DEF FarEndInvite
  <2>2. bye[d] = "none"
    BY <2>1 DEF FarEndInv, ByeEndsSession
  <2>3. CASE x = d
    BY <2>1, <2>2, <2>3 DEF ByeEndsSession
  <2>4. CASE x # d
    BY <2>1, <2>4 DEF FarEndInv, ByeEndsSession
  <2> QED  BY <2>3, <2>4
<1>5. ASSUME NEW d \in Dialogs, FarEndCancel(d) PROVE FarEndInv'
  <2>1. \A x \in Dialogs : session'[x] \in {session[x], "ended"}
    BY <1>0, <1>5 DEF FarEndCancel
  <2> QED  BY <1>5, <2>1, SessionMoves DEF FarEndCancel
<1>6. ASSUME NEW d \in Dialogs, FarEndBye(d) PROVE FarEndInv'
  BY <1>6, ByeMoves DEF FarEndBye
<1>7. ASSUME NEW d \in Dialogs, ReadBye(d) PROVE FarEndInv'
  <2>1. session'[d] = "ended" /\ \A x \in Dialogs \ {d} : session'[x] = session[x]
    BY <1>0, <1>7 DEF ReadBye
  <2>2. bye[d] # "none" /\ UNCHANGED invite
    BY <1>7 DEF ReadBye
  <2>3. \E v : bye' = [bye EXCEPT ![d] = v]
    BY <1>7 DEF ReadBye
  <2> QED  BY <2>1, <2>2, <2>3, ByeMoves
<1>8. ASSUME NEW d \in Dialogs, ByeClaims(d) \/ ByeEndsIncoming(d) \/ ByeEndsActive(d)
      PROVE  FarEndInv'
  <2>1. /\ bye[d] \in {"early", "answered", "claimed", "manager"}
        /\ UNCHANGED <<session, invite>>
        /\ \E v : bye' = [bye EXCEPT ![d] = v]
    BY <1>8 DEF ByeClaims, EndPending, ByeEndsIncoming, ByeEndsActive
  <2>2. session'[d] = "ended"
    BY <2>1 DEF FarEndInv, ByeEndsSession
  <2> QED  BY <2>1, <2>2, ByeMoves
<1>9. ASSUME NEW d \in Dialogs \cup Outbound, MediaHearsBye(d) PROVE FarEndInv'
  <2>1. /\ bye[d] = "media" /\ UNCHANGED <<session, invite>>
        /\ bye' = [bye EXCEPT ![d] = "done"]
    BY <1>9 DEF MediaHearsBye
  <2>2. d \in Dialogs => session'[d] = "ended"
    BY <2>1 DEF FarEndInv, ByeEndsSession
  <2> QED  BY <2>1, <2>2, ByeMoves
<1>10. ASSUME NEW o \in Outbound, FarEndOutboundBye(o) PROVE FarEndInv'
  <2>1. o \notin Dialogs
    BY OutboundAssumption
  <2> QED  BY <1>10, <2>1, ByeMoves DEF FarEndOutboundBye
<1>11. CASE StartStream \/ DialEnds \/ DrainStep \/ BusRing \/ UNCHANGED vars
  <2>1. UNCHANGED <<session, invite, bye>>
    BY <1>11 DEF StartStream, DialEnds, DrainStep, DrainTakes, Deliver,
       DeliverPanics, BusRing, vars, threadVars
  <2> QED  BY <2>1, SessionMoves
<1> QED
  BY <1>2, <1>3, <1>4, <1>5, <1>6, <1>7, <1>8, <1>9, <1>10, <1>11
     DEF Next, Environment, Rest, ByeStep, CallerActs
\* A caller that holds dialog d and will promote it or send its BYE.
Holds(c, d) == Of(c) = d /\ caller[c].pc \in {"promote", "bye"}

\* A step that establishes no session and drops no call: the callers that hold an
\* answered dialog are where they were.
LEMMA HoldersStay ==
    ASSUME NoOrphanedCall, UNCHANGED active, misdirected \subseteq misdirected',
           \A d \in Dialogs :
              session'[d] = "established" => session[d] = "established",
           \A d \in Dialogs, c \in Callers :
              session'[d] = "established" /\ Holds(c, d) => Holds(c, d)'
    PROVE  NoOrphanedCall'
<1> SUFFICES ASSUME NEW d \in Dialogs, session'[d] = "established", misdirected' = {}
             PROVE  active' = d \/ \E c \in Callers : Holds(c, d)'
  BY DEF NoOrphanedCall, Holds
<1>1. active = d \/ \E c \in Callers : Holds(c, d)
  BY DEF NoOrphanedCall, Holds
<1> QED  BY <1>1

\* Every other caller stays where it is, and the one that moves holds what it
\* becomes.
LEMMA OthersHold ==
    ASSUME TypeOK, NEW c \in Callers, NEW pc, NEW d, Becomes(c, pc, d)
    PROVE  /\ \A b \in Callers \ {c} : caller'[b] = caller[b]
           /\ caller'[c].pc = pc /\ caller'[c].dialog = d
           /\ \A x : \A b \in Callers : b # c /\ Holds(b, x) => Holds(b, x)'
<1>1. /\ \A b \in Callers \ {c} : caller'[b] = caller[b]
      /\ caller'[c].pc = pc /\ caller'[c].dialog = d
  BY DEF Becomes, TypeOK, ThreadType
<1> QED  BY <1>1 DEF Holds, Of

\* A BYE drops the active call only after it has ended its session, or it drops
\* a call that is not its own and is recorded as misdirected.
LEMMA RemoteKeeps ==
    ASSUME TypeOK, FarEndInv, NoOrphanedCall,
           NEW d \in Dialogs \cup Outbound, NEW by, bye[d] \in {"manager", "media"},
           RemoteDialogEnded(d, by), UNCHANGED <<session, caller>>
    PROVE  NoOrphanedCall'
<1>1. CASE active = None
  <2>1. UNCHANGED <<active, misdirected>>
    BY <1>1 DEF RemoteDialogEnded, managerVars
  <2> QED  BY <2>1 DEF NoOrphanedCall, Of
<1>2. CASE active # None /\ active # d
  <2>1. misdirected' # {}
    BY <1>2 DEF RemoteDialogEnded
  <2> QED  BY <2>1 DEF NoOrphanedCall
<1>3. CASE active # None /\ active = d
  <2>1. misdirected' = misdirected
    BY <1>3 DEF RemoteDialogEnded
  <2>2. d \in Dialogs => session[d] = "ended"
    BY DEF FarEndInv, ByeEndsSession
  <2> QED  BY <1>3, <2>1, <2>2 DEF NoOrphanedCall, Of
<1> QED  BY <1>1, <1>2, <1>3

\* The steps of Answer, Decline, Hangup and HangupCall.
LEMMA HoldersAct ==
    ASSUME TypeOK, OneLine, NoOrphanedCall, NEW c \in Callers, CallerActs(c)
    PROVE  NoOrphanedCall'
<1>0. /\ session \in [Dialogs -> {"none", "early", "established", "unsent", "ended"}]
      /\ caller \in [Callers -> CallerStates]
  BY DEF TypeOK, DialogType, ThreadType
<1>1. UNCHANGED misdirected
  BY DEF CallerActs, CallerStep, AnswerStep, HangupStep, Answer, Decline,
     HangupActive, HangupRinging, AnswerClaims, AnswerWritten, AnswerFails,
     AnswerPromotes, BusDecline, HangupWithdrawn, HangupGraceOver,
     DeclineResponds, SendBye, lineVars
<1>2. CASE \/ Answer(c) \/ Decline(c) \/ HangupRinging(c) \/ AnswerClaims(c)
           \/ AnswerFails(c) \/ BusDecline(c) \/ HangupWithdrawn(c)
           \/ HangupGraceOver(c)
  <2>0. \/ UNCHANGED session
        \/ session' = [session EXCEPT ![Of(c)] = IF @ = "early" THEN "unsent" ELSE @]
    BY <1>2 DEF Answer, Decline, HangupRinging, AnswerClaims, AnswerFails,
       BusDecline, HangupWithdrawn, HangupGraceOver, dialogVars
  <2>1. /\ UNCHANGED active /\ caller[c].pc \notin {"promote", "bye"}
        /\ \A d \in Dialogs : session'[d] = "established" => session[d] = "established"
    <3>1. UNCHANGED active /\ caller[c].pc \notin {"promote", "bye"}
      BY <1>2 DEF Answer, Decline, HangupRinging, TakeIncoming, AnswerClaims,
         AnswerFails, BusDecline, HangupWithdrawn, HangupGraceOver, managerVars, At
    <3> QED  BY <1>0, <2>0, <3>1
  <2>2. \E pc, d : Becomes(c, pc, d)
    BY <1>2 DEF Answer, Decline, HangupRinging, AnswerClaims, AnswerFails,
       BusDecline, HangupWithdrawn, HangupGraceOver
  <2>3. \A d \in Dialogs, b \in Callers : Holds(b, d) => Holds(b, d)'
    BY <2>1, <2>2, OthersHold DEF Holds
  <2> QED  BY <1>1, <2>1, <2>3, HoldersStay
<1>3. CASE AnswerWritten(c)
  <2>1. /\ Of(c) \in Dialogs /\ caller[c].pc = "write200"
        /\ Becomes(c, "promote", Of(c)) /\ UNCHANGED active
    BY <1>3, CallerHolds DEF AnswerWritten, TypeOK, At, managerVars
  <2>2. caller'[c].pc = "promote" /\ caller'[c].dialog = Of(c)
    BY <2>1, OthersHold
  <2>3. \A d \in Dialogs, b \in Callers : Holds(b, d) => Holds(b, d)'
    BY <2>1, OthersHold DEF Holds
  <2>4. \A d \in Dialogs \ {Of(c)} : session'[d] = session[d]
    BY <1>0, <1>3 DEF AnswerWritten
  <2> SUFFICES ASSUME NEW d \in Dialogs, session'[d] = "established",
                      misdirected' = {}
               PROVE  active' = d \/ \E b \in Callers : Holds(b, d)'
    BY DEF NoOrphanedCall, Holds
  <2>5. CASE d = Of(c)
    BY <2>2, <2>5 DEF Holds, Of
  <2>6. CASE d # Of(c)
    <3>1. active = d \/ \E b \in Callers : Holds(b, d)
      BY <1>1, <2>4, <2>6 DEF NoOrphanedCall, Holds
    <3> QED  BY <2>1, <2>3, <3>1
  <2> QED  BY <2>5, <2>6
<1>4. CASE AnswerPromotes(c)
  <2>1. UNCHANGED session
    BY <1>4 DEF AnswerPromotes, dialogVars
  <2>2. incoming = Of(c) => active = None /\ active' = Of(c)
    <3>1. At(c, "promote") /\ Of(c) \in Dialogs
      BY <1>4, CallerHolds DEF AnswerPromotes, TypeOK
    <3> QED  BY <1>4, <3>1, NoneAssumption DEF AnswerPromotes, OneLine
  <2>3. incoming # Of(c) =>
           /\ UNCHANGED active
           /\ active # Of(c) => Becomes(c, "bye", Of(c))
    BY <1>4 DEF AnswerPromotes, AnswerLost, managerVars
  <2>4. \E pc, d : Becomes(c, pc, d)
    BY <1>4 DEF AnswerPromotes, AnswerLost
  <2> SUFFICES ASSUME NEW d \in Dialogs, session'[d] = "established",
                      misdirected' = {}
               PROVE  active' = d \/ \E b \in Callers : Holds(b, d)'
    BY DEF NoOrphanedCall, Holds
  <2>5. active = d \/ \E b \in Callers : Holds(b, d)
    BY <1>1, <2>1 DEF NoOrphanedCall, Holds
  <2>6. d # None
    BY NoneAssumption
  <2>7. CASE active = d
    BY <2>2, <2>3, <2>6, <2>7
  <2>8. ASSUME NEW b \in Callers, Holds(b, d), b # c PROVE Holds(b, d)'
    BY <2>4, <2>8, OthersHold
  <2>9. CASE Holds(c, d)
    <3>1. Of(c) = d
      BY <2>9 DEF Holds
    <3>2. CASE incoming = d
      BY <2>2, <3>1, <3>2
    <3>3. CASE incoming # d /\ active # d
      <4>1. Becomes(c, "bye", d)
        BY <2>3, <3>1, <3>3
      <4>2. Holds(c, d)'
        BY <4>1, OthersHold DEF Holds, Of
      <4> QED  BY <4>2
    <3> QED  BY <2>7, <3>2, <3>3
  <2> QED  BY <2>5, <2>7, <2>8, <2>9
<1>5. CASE HangupActive(c)
  <2>1. /\ UNCHANGED session /\ Becomes(c, "bye", active)
        /\ caller[c].pc = "idle"
    BY <1>5 DEF HangupActive, dialogVars, At
  <2>3. caller'[c].pc = "bye" /\ caller'[c].dialog = active
    BY <2>1, OthersHold
  <2>4. \A d \in Dialogs, b \in Callers : Holds(b, d) => Holds(b, d)'
    BY <2>1, OthersHold DEF Holds
  <2> SUFFICES ASSUME NEW d \in Dialogs, session'[d] = "established",
                      misdirected' = {}
               PROVE  active' = d \/ \E b \in Callers : Holds(b, d)'
    BY DEF NoOrphanedCall, Holds
  <2>5. active = d \/ \E b \in Callers : Holds(b, d)
    BY <1>1, <2>1 DEF NoOrphanedCall, Holds
  <2> QED  BY <2>3, <2>4, <2>5 DEF Holds, Of
<1>6. CASE DeclineResponds(c)
  <2>1. /\ UNCHANGED active /\ Reject(Of(c)) /\ Becomes(c, "idle", None)
        /\ caller[c].pc = "decline" /\ Of(c) \in Dialogs
    BY <1>6, CallerHolds DEF DeclineResponds, managerVars, At, TypeOK
  <2>2. \A d \in Dialogs : session'[d] \in {session[d], "ended"}
    BY <2>1, AdapterSessions
  <2>3. \A d \in Dialogs, b \in Callers : Holds(b, d) => Holds(b, d)'
    BY <2>1, OthersHold DEF Holds
  <2> QED  BY <1>1, <2>1, <2>2, <2>3, HoldersStay
<1>7. CASE SendBye(c)
  <2>1. UNCHANGED active /\ Becomes(c, "idle", None)
    BY <1>7 DEF SendBye, managerVars
  <2>2. \A d \in Dialogs :
           session'[d] = "established" => session[d] = "established" /\ d # Of(c)
    BY <1>0, <1>7 DEF SendBye, ByeInbound, dialogVars
  <2>3. \A d \in Dialogs, b \in Callers :
           session'[d] = "established" /\ Holds(b, d) => Holds(b, d)'
    BY <2>1, <2>2, OthersHold DEF Holds
  <2> QED  BY <1>1, <2>1, <2>2, <2>3, HoldersStay
<1> QED
  BY <1>2, <1>3, <1>4, <1>5, <1>6, <1>7 DEF CallerActs, CallerStep, AnswerStep,
     HangupStep

\* Every step keeps an answered call in somebody's hands.
LEMMA NextHolds ==
    ASSUME SipInv, FarEndInv, NoOrphanedCall, [Next]_vars
    PROVE  NoOrphanedCall'
<1>0. /\ TypeOK /\ OneLine /\ (mu = "dialing" => active = None)
      /\ session \in [Dialogs -> {"none", "early", "established", "unsent", "ended"}]
  BY DEF SipInv, TypeOK, DialogType
<1> USE DEF dialogVars, managerVars, lineVars
<1>1. ASSUME NEW c \in Callers, CallerActs(c) PROVE NoOrphanedCall'
  BY <1>0, <1>1, HoldersAct
<1>2. ASSUME NEW d \in Dialogs,
             \/ FarEndInvite(d) \/ FarEndCancel(d) \/ FarEndBye(d)
             \/ InviteStep(d) \/ ExpiryStep(d) \/ CancelStep(d)
             \/ ReadBye(d) \/ ByeClaims(d) \/ ByeEndsIncoming(d)
      PROVE  NoOrphanedCall'
  <2>1. UNCHANGED <<active, caller>>
    BY <1>2 DEF FarEndInvite, FarEndCancel, FarEndBye, InviteStep, ExpiryStep,
       CancelStep, RegisterCancelHook, OnInvite, RespondBusy, RingingSent,
       RingingFails, RollBackInvite, TakeIncoming, RejectInvite, ExpiryFires,
       ExpiryClears, ExpiryResponds, CancelClaims, CancelEndsIncoming, ReadBye,
       ByeClaims, ByeEndsIncoming, EndIncoming, threadVars
  <2>2. misdirected \subseteq misdirected'
    BY <1>2 DEF FarEndInvite, FarEndCancel, FarEndBye, InviteStep, ExpiryStep,
       CancelStep, RegisterCancelHook, OnInvite, RespondBusy, RingingSent,
       RingingFails, RollBackInvite, RejectInvite, ExpiryFires,
       ExpiryClears, ExpiryResponds, CancelClaims, CancelEndsIncoming, ReadBye,
       ByeClaims, ByeEndsIncoming, EndIncoming
  <2>3. \A x \in Dialogs : session'[x] = "established" => session[x] = "established"
    <3>1. CASE FarEndInvite(d) \/ FarEndCancel(d) \/ ReadBye(d)
      BY <1>0, <3>1 DEF FarEndInvite, FarEndCancel, ReadBye
    <3>2. CASE ~(FarEndInvite(d) \/ FarEndCancel(d) \/ ReadBye(d))
      <4>1. Reject(d) \/ UNCHANGED session
        BY <1>2, <3>2 DEF FarEndBye, InviteStep, ExpiryStep, CancelStep,
           RegisterCancelHook, OnInvite, RespondBusy, RingingSent, RingingFails,
           RollBackInvite, RejectInvite, ExpiryFires, ExpiryClears, ExpiryResponds,
           CancelClaims, EndPending, CancelEndsIncoming, ByeClaims, ByeEndsIncoming
      <4> QED  BY <1>0, <4>1, AdapterSessions
    <3> QED  BY <3>1, <3>2
  <2>4. \A x \in Dialogs, c \in Callers : Holds(c, x) => Holds(c, x)'
    BY <2>1 DEF Holds, Of
  <2> QED  BY <2>1, <2>2, <2>3, <2>4, HoldersStay
<1>3. ASSUME NEW d \in Dialogs, ByeEndsActive(d) PROVE NoOrphanedCall'
  BY <1>0, <1>3, RemoteKeeps DEF ByeEndsActive
<1>4. ASSUME NEW d \in Dialogs \cup Outbound, MediaHearsBye(d) PROVE NoOrphanedCall'
  <2>1. CASE RemoteDialogEnded(d, "media")
    BY <1>0, <1>4, <2>1, RemoteKeeps DEF MediaHearsBye
  <2>2. CASE UNCHANGED <<managerVars, queueVars, misdirected>>
    BY <1>4, <2>2 DEF MediaHearsBye, NoOrphanedCall, Of
  <2> QED  BY <1>4, <2>1, <2>2 DEF MediaHearsBye
<1>5. CASE DialEnds
  <2>1. /\ mu = "dialing" /\ UNCHANGED <<session, caller, misdirected>>
    BY <1>5 DEF DialEnds, threadVars
  <2>2. \A d \in Dialogs : active # d
    BY <1>0, <2>1, NoneAssumption
  <2> QED  BY <2>1, <2>2 DEF NoOrphanedCall, Of
<1>6. CASE \/ \E o \in Outbound : FarEndOutboundBye(o)
           \/ StartStream \/ DrainStep \/ BusRing \/ UNCHANGED vars
  <2>1. UNCHANGED <<active, session, caller, misdirected>>
    BY <1>6 DEF FarEndOutboundBye, StartStream, DrainStep, DrainTakes, Deliver,
       DeliverPanics, BusRing, vars, threadVars
  <2> QED  BY <2>1 DEF NoOrphanedCall, Of
<1> QED
  BY <1>1, <1>2, <1>3, <1>4, <1>5, <1>6
     DEF Next, Environment, Rest, ByeStep, CallerActs

\* A call that was told 200 OK is never left with nobody able to end it, for any
\* number of callers racing to answer and to hang up, unless an operation hit
\* another call than its own (Manager.Answer, byeActiveLocked, onInboundBye).
THEOREM SipNoOrphanedCall == Spec => []NoOrphanedCall
<1>1. Init => NoOrphanedCall
  BY DEF Init, NoOrphanedCall
<1>2. SipInv /\ FarEndInv /\ NoOrphanedCall /\ [Next]_vars
         => SipInv' /\ FarEndInv' /\ NoOrphanedCall'
  <2>1. SipInv => TypeOK
    BY DEF SipInv
  <2> QED  BY <2>1, NextSip, FarEndInductive, NextHolds
<1> QED  BY <1>1, <1>2, InitSip, FarEndInductive, PTL DEF Spec

-----------------------------------------------------------------------------
(* The manager implements the abstract line *)

\* What a step of the manager may do to the line
LineStep == Line!CallNext \/ UNCHANGED <<incoming, ActiveID, Undelivered>>

-----------------------------------------------------------------------------
(* The queue of the line, and one lemma per transition of the line *)

\* A call event is never the mark of an empty hand.
LEMMA EventIsEvent == \A e \in CallEvents : e # NoEvent
BY DEF CallEvents, NoEvent, IncomingCallStarted, IncomingCallEnded,
       CallAnswered, CallDeclined, CallHungUp

\* publishLocked appends to the line's queue, whatever the drain holds.
LEMMA PublishCommits ==
    ASSUME QueueType, DrainType, NEW e \in CallEvents, Publish(e),
           UNCHANGED delivering
    PROVE  Undelivered' = Append(Undelivered, e)
<1> DEFINE hand == IF delivering = NoEvent THEN <<>> ELSE <<delivering>>
<1>1. pending \in Seq(CallEvents) /\ pending' = Append(pending, e)
  BY DEF QueueType, Publish
<1>2. hand \in Seq(CallEvents)
  BY DEF DrainType
<1>3. Undelivered = hand \o pending /\ Undelivered' = hand \o pending'
  BY DEF Undelivered
<1> HIDE DEF hand
<1>4. pending' = pending \o <<e>>
  BY <1>1, AppendIsConcat
<1>5. hand \o pending \in Seq(CallEvents) /\ <<e>> \in Seq(CallEvents)
  BY <1>1, <1>2, ConcatProperties
<1>6. (hand \o pending) \o <<e>> = hand \o (pending \o <<e>>)
  BY <1>1, <1>2, <1>5, ConcatAssociative
<1>7. Append(hand \o pending, e) = (hand \o pending) \o <<e>>
  BY <1>5, AppendIsConcat
<1> QED  BY <1>3, <1>4, <1>6, <1>7

\* A step that leaves the slots, the queue and the drain's hand alone.
LEMMA LineStable ==
    ASSUME UNCHANGED <<incoming, active, pending, delivering>>
    PROVE  LineStep
BY DEF LineStep, ActiveID, Undelivered

\* An INVITE is announced.
LEMMA LineRings ==
    ASSUME QueueType, DrainType, NEW d \in Dialogs, NEW ep \in Entrypoints,
           incoming = None, ActiveID = None, incoming' = d, ActiveID' = ActiveID,
           Publish(IncomingCallStarted(d, ep)), UNCHANGED delivering
    PROVE  LineStep
<1>1. Undelivered' = Append(Undelivered, IncomingCallStarted(d, ep))
  BY EventTypes, PublishCommits
<1>2. Line!Rings(d, ep)
  BY <1>1 DEF Line!Rings, Line!Commit, Line!IncomingCallStarted, IncomingCallStarted
<1> QED  BY <1>2 DEF LineStep, Line!CallNext

\* The pending call leaves its slot with one of the events that say so.
LEMMA LineTaken ==
    ASSUME QueueType, DrainType, incoming \in Dialogs, incoming' = None,
           ActiveID' = ActiveID, UNCHANGED delivering,
           \/ \E r \in Reasons : Publish(IncomingCallEnded(incoming, r))
           \/ Publish(CallDeclined(incoming))
           \/ Publish(CallHungUp(incoming))
    PROVE  LineStep
<1>0. incoming # None
  BY NoneAssumption
<1>1. CASE \E r \in Reasons : Publish(IncomingCallEnded(incoming, r))
  <2>1. PICK r \in Reasons : Publish(IncomingCallEnded(incoming, r))
    BY <1>1
  <2>2. Undelivered' = Append(Undelivered, IncomingCallEnded(incoming, r))
    BY <2>1, EventTypes, PublishCommits
  <2>3. Line!RingEnded(r)
    BY <1>0, <2>2 DEF Line!RingEnded, Line!Commit, Line!IncomingCallEnded,
                      IncomingCallEnded
  <2> QED  BY <2>3 DEF LineStep, Line!CallNext, Line!Reasons, Reasons
<1>2. CASE Publish(CallDeclined(incoming))
  <2>1. Undelivered' = Append(Undelivered, CallDeclined(incoming))
    BY <1>2, EventTypes, PublishCommits
  <2>2. Line!Declined
    BY <1>0, <2>1 DEF Line!Declined, Line!Commit, Line!CallDeclined, CallDeclined
  <2> QED  BY <2>2 DEF LineStep, Line!CallNext
<1>3. CASE Publish(CallHungUp(incoming))
  <2>1. Undelivered' = Append(Undelivered, CallHungUp(incoming))
    BY <1>3, EventTypes, PublishCommits
  <2>2. Line!RingHungUp
    BY <1>0, <2>1 DEF Line!RingHungUp, Line!Commit, Line!CallHungUp, CallHungUp
  <2> QED  BY <2>2 DEF LineStep, Line!CallNext
<1> QED  BY <1>1, <1>2, <1>3

\* The pending call becomes the active one.
LEMMA LineAnswered ==
    ASSUME QueueType, DrainType, incoming \in Dialogs, incoming' = None,
           ActiveID' = incoming, Publish(CallAnswered(incoming)),
           UNCHANGED delivering
    PROVE  LineStep
<1>1. Undelivered' = Append(Undelivered, CallAnswered(incoming))
  BY EventTypes, PublishCommits
<1>2. Line!Answered
  BY <1>1, NoneAssumption DEF Line!Answered, Line!Commit, Line!CallAnswered, CallAnswered
<1> QED  BY <1>2 DEF LineStep, Line!CallNext

\* The active dialog ends; only an inbound one is a call of the line.
LEMMA LineDropped ==
    ASSUME ManagerType, QueueType, DrainType, DropActive, UNCHANGED delivering
    PROVE  LineStep
<1>1. incoming' = incoming /\ active' = None
  BY DEF DropActive
<1>2. ActiveID' = None
  BY <1>1, NoneAssumption DEF ActiveID
<1>3. CASE active \in Dialogs
  <2>1. ActiveID = active /\ ActiveID # None
    BY <1>3, NoneAssumption DEF ActiveID
  <2>2. Undelivered' = Append(Undelivered, CallHungUp(active))
    BY <1>3, EventTypes, PublishCommits DEF DropActive
  <2>3. Line!HungUp
    BY <1>1, <1>2, <2>1, <2>2 DEF Line!HungUp, Line!Commit, Line!CallHungUp, CallHungUp
  <2> QED  BY <2>3 DEF LineStep, Line!CallNext
<1>4. CASE active \notin Dialogs
  <2>1. ActiveID = None
    BY <1>4 DEF ActiveID
  <2>2. Undelivered' = Undelivered
    BY <1>4 DEF DropActive, queueVars, Undelivered
  <2> QED  BY <1>1, <1>2, <2>1, <2>2 DEF LineStep
<1> QED  BY <1>3, <1>4

\* The drain takes the oldest event in hand: the line's queue is the same.
LEMMA LineTakes ==
    ASSUME QueueType, DrainTakes
    PROVE  LineStep
<1>1. UNCHANGED <<incoming, active>>
  BY DEF DrainTakes, managerVars
<1>2. CASE pending = <<>>
  BY <1>1, <1>2, LineStable DEF DrainTakes
<1>3. CASE pending # <<>>
  <2>1. /\ pending \in Seq(CallEvents) /\ delivering = NoEvent
        /\ delivering' = Head(pending) /\ pending' = Tail(pending)
    BY <1>3 DEF DrainTakes, QueueType
  <2>2. delivering' \in CallEvents /\ delivering' # NoEvent
    BY <1>3, <2>1, EventIsEvent, HeadTailProperties
  <2>3. Undelivered = pending
    BY <2>1, ConcatEmptySeq DEF Undelivered
  <2>4. Undelivered' = <<Head(pending)>> \o Tail(pending)
    BY <2>1, <2>2 DEF Undelivered
  <2>5. <<Head(pending)>> \o Tail(pending) = pending
    BY <1>3, <2>1
  <2> QED  BY <1>1, <2>3, <2>4, <2>5 DEF LineStep, ActiveID
<1> QED  BY <1>2, <1>3

\* The event in hand goes to the sink, which may panic.
LEMMA LineDelivers ==
    ASSUME QueueType, DrainType, Deliver \/ DeliverPanics
    PROVE  LineStep
<1>1. /\ UNCHANGED <<incoming, active, pending>>
      /\ delivering # NoEvent /\ delivering' = NoEvent
  BY DEF Deliver, DeliverPanics, managerVars, queueVars
<1>2. pending \in Seq(CallEvents) /\ delivering \in CallEvents
  BY <1>1 DEF QueueType, DrainType
<1>3. Undelivered = <<delivering>> \o pending /\ Undelivered' = pending
  BY <1>1, <1>2, ConcatEmptySeq DEF Undelivered
<1>4. Undelivered # <<>> /\ Tail(Undelivered) = pending
  BY <1>2, <1>3
<1>5. Line!Delivered
  BY <1>1, <1>3, <1>4 DEF Line!Delivered, ActiveID
<1> QED  BY <1>5 DEF LineStep, Line!CallNext

-----------------------------------------------------------------------------
(* One lemma per goroutine *)

\* takeIncomingLocked, with its event.
LEMMA LineTakeIncoming ==
    ASSUME SipInv, TakeIncoming, UNCHANGED drainVars,
           \/ \E r \in Reasons : Publish(IncomingCallEnded(incoming, r))
           \/ Publish(CallDeclined(incoming))
           \/ Publish(CallHungUp(incoming))
    PROVE  LineStep
<1>1. incoming \in Dialogs /\ incoming' = None /\ active' = active
  BY TakeIncomingType DEF TakeIncoming, SipInv, TypeOK
<1>2. ActiveID' = ActiveID
  BY <1>1 DEF ActiveID
<1>3. QueueType /\ DrainType /\ UNCHANGED delivering
  BY DEF SipInv, TypeOK, drainVars
<1> QED  BY <1>1, <1>2, <1>3, LineTaken

\* The dialer's and the manager's reaction to an INVITE.
LEMMA LineInvite ==
    ASSUME SipInv, NEW d \in Dialogs, FarEndInvite(d) \/ InviteStep(d)
    PROVE  LineStep
<1> USE DEF managerVars, queueVars, drainVars
<1>1. CASE \/ FarEndInvite(d) \/ RegisterCancelHook(d) \/ RespondBusy(d)
           \/ RingingSent(d) \/ RingingFails(d) \/ RejectInvite(d)
  BY <1>1, LineStable DEF FarEndInvite, RegisterCancelHook, RespondBusy,
     RingingSent, RingingFails, RejectInvite
<1>2. CASE OnInvite(d)
  <2>1. CASE Refuses
    BY <1>2, <2>1, LineStable DEF OnInvite
  <2>2. CASE ~Refuses
    <3>1. Resolve \in Entrypoints
      BY <2>2, ResolveType DEF Refuses, SipInv, TypeOK
    <3>2. /\ UNCHANGED <<active, delivering>>
          /\ incoming = None /\ active = None /\ incoming' = d
          /\ Publish(IncomingCallStarted(d, Resolve))
      BY <1>2, <2>2 DEF OnInvite, Refuses, LineBusy
    <3>3. ActiveID = None /\ ActiveID' = ActiveID
      BY <3>2 DEF ActiveID
    <3> QED  BY <3>1, <3>2, <3>3, LineRings DEF SipInv, TypeOK
  <2> QED  BY <2>1, <2>2
<1>3. CASE RollBackInvite(d)
  <2>1. CASE incoming = d
    <3>1. /\ TakeIncoming /\ UNCHANGED drainVars
          /\ Publish(IncomingCallEnded(incoming, "cancelled"))
      BY <1>3, <2>1 DEF RollBackInvite
    <3> QED  BY <3>1, LineTakeIncoming DEF Reasons
  <2>2. CASE incoming # d
    BY <1>3, <2>2, LineStable DEF RollBackInvite
  <2> QED  BY <2>1, <2>2
<1> QED  BY <1>1, <1>2, <1>3 DEF InviteStep

\* The expiry of an unanswered call.
LEMMA LineExpiry ==
    ASSUME SipInv, NEW d \in Dialogs, ExpiryStep(d)
    PROVE  LineStep
<1> USE DEF managerVars, queueVars, drainVars
<1>1. CASE ExpiryFires(d) \/ ExpiryResponds(d)
  BY <1>1, LineStable DEF ExpiryFires, ExpiryResponds
<1>2. CASE ExpiryClears(d)
  <2>1. CASE incoming = d
    <3>1. /\ incoming' = None /\ UNCHANGED <<active, delivering>>
          /\ Publish(IncomingCallEnded(incoming, "timeout"))
      BY <1>2, <2>1 DEF ExpiryClears
    <3>2. ActiveID' = ActiveID
      BY <3>1 DEF ActiveID
    <3> QED  BY <2>1, <3>1, <3>2, LineTaken DEF SipInv, TypeOK, Reasons
  <2>2. CASE incoming # d
    BY <1>2, <2>2, LineStable DEF ExpiryClears
  <2> QED  BY <2>1, <2>2
<1> QED  BY <1>1, <1>2 DEF ExpiryStep

\* EndIncoming and RemoteDialogEnded, whichever dialog they were called for: a
\* misdirected end is still a transition of the line.
LEMMA LineEnds ==
    ASSUME SipInv, NEW d, NEW by,
           EndIncoming(d) \/ RemoteDialogEnded(d, by), UNCHANGED drainVars
    PROVE  LineStep
<1>1. CASE EndIncoming(d)
  <2>1. CASE incoming = None
    BY <1>1, <2>1, LineStable DEF EndIncoming, managerVars, queueVars, drainVars
  <2>2. CASE incoming # None
    BY <1>1, <2>2, EnvironmentAssumption, LineTakeIncoming DEF EndIncoming, Reasons
  <2> QED  BY <2>1, <2>2
<1>2. CASE RemoteDialogEnded(d, by)
  <2>1. CASE active = None
    BY <1>2, <2>1, LineStable
       DEF RemoteDialogEnded, managerVars, queueVars, drainVars
  <2>2. CASE active # None
    BY <1>2, <2>2, LineDropped DEF RemoteDialogEnded, SipInv, TypeOK, drainVars
  <2> QED  BY <2>1, <2>2
<1> QED  BY <1>1, <1>2

\* The far end's CANCEL and BYE.
LEMMA LineFarEnd ==
    ASSUME SipInv, NEW d \in Dialogs,
           \/ FarEndCancel(d) \/ CancelStep(d)
           \/ FarEndBye(d) \/ ByeStep(d)
    PROVE  LineStep
<1>1. CASE \/ FarEndCancel(d) \/ CancelClaims(d) \/ FarEndBye(d)
           \/ ReadBye(d) \/ ByeClaims(d)
  BY <1>1, LineStable DEF FarEndCancel, CancelClaims, FarEndBye, ReadBye,
     ByeClaims, managerVars, queueVars, drainVars
<1>2. CASE CancelEndsIncoming(d) \/ ByeEndsIncoming(d) \/ ByeEndsActive(d)
  BY <1>2, LineEnds DEF CancelEndsIncoming, ByeEndsIncoming, ByeEndsActive
<1> QED  BY <1>1, <1>2 DEF CancelStep, ByeStep

\* The media callback, the outbound BYE and the dial.
LEMMA LineMedia ==
    ASSUME SipInv,
           \/ \E d \in Dialogs \cup Outbound : MediaHearsBye(d)
           \/ \E o \in Outbound : FarEndOutboundBye(o)
           \/ StartStream
           \/ DialEnds
    PROVE  LineStep
<1> USE DEF managerVars, queueVars, drainVars
<1>1. ASSUME NEW d \in Dialogs \cup Outbound, MediaHearsBye(d) PROVE LineStep
  <2>1. CASE RemoteDialogEnded(d, "media")
    BY <1>1, <2>1, LineEnds DEF MediaHearsBye
  <2>2. CASE UNCHANGED <<managerVars, queueVars, misdirected>>
    BY <1>1, <2>2, LineStable DEF MediaHearsBye
  <2> QED  BY <1>1, <2>1, <2>2 DEF MediaHearsBye
<1>2. ASSUME NEW o \in Outbound, FarEndOutboundBye(o) PROVE LineStep
  BY <1>2, LineStable DEF FarEndOutboundBye
<1>3. CASE StartStream
  BY <1>3, LineStable DEF StartStream
<1>4. CASE DialEnds
  <2>1. /\ active = None /\ (active' = active \/ active' \in Outbound)
        /\ UNCHANGED <<incoming, pending, delivering>>
    BY <1>4 DEF DialEnds, SipInv
  <2>2. ActiveID' = ActiveID /\ Undelivered' = Undelivered
    BY <2>1, OutboundAssumption DEF ActiveID, Undelivered
  <2> QED  BY <2>1, <2>2 DEF LineStep
<1> QED  BY <1>1, <1>2, <1>3, <1>4

\* The manager's callers.
LEMMA LineCaller ==
    ASSUME SipInv, NEW c \in Callers,
           \/ Answer(c) \/ Decline(c) \/ HangupActive(c) \/ HangupRinging(c)
           \/ CallerStep(c)
    PROVE  LineStep
<1>1. CASE Answer(c) \/ AnswerClaims(c) \/ AnswerWritten(c) \/ AnswerFails(c)
  BY <1>1, LineStable DEF Answer, AnswerClaims, AnswerWritten, AnswerFails,
     managerVars, queueVars, drainVars
<1>2. CASE HangupStep(c)
  BY <1>2, LineStable DEF HangupStep, BusDecline, HangupWithdrawn,
     HangupGraceOver, DeclineResponds, SendBye, managerVars, queueVars, drainVars
<1>3. CASE AnswerPromotes(c)
  <2>1. CASE incoming = Of(c)
    <3>1. incoming \in Dialogs
      BY <1>3, <2>1, CallerHolds DEF AnswerPromotes, SipInv, TypeOK
    <3>2. /\ incoming' = None /\ active' = incoming /\ UNCHANGED delivering
          /\ Publish(CallAnswered(incoming))
      BY <1>3, <2>1 DEF AnswerPromotes, drainVars
    <3>3. ActiveID' = incoming
      BY <3>1, <3>2 DEF ActiveID
    <3> QED  BY <3>1, <3>2, <3>3, LineAnswered DEF SipInv, TypeOK
  <2>2. CASE incoming # Of(c)
    BY <1>3, <2>2, LineStable DEF AnswerPromotes, managerVars, queueVars, drainVars
  <2> QED  BY <2>1, <2>2
<1>4. CASE Decline(c)
  BY <1>4, LineTakeIncoming DEF Decline
<1>5. CASE HangupActive(c)
  BY <1>5, LineDropped DEF HangupActive, SipInv, TypeOK, drainVars
<1>6. CASE HangupRinging(c)
  BY <1>6, LineTakeIncoming DEF HangupRinging
<1> QED
  BY <1>1, <1>2, <1>3, <1>4, <1>5, <1>6 DEF CallerStep, AnswerStep

\* The drain, its sink and the bus.
LEMMA LineDrain ==
    ASSUME SipInv, DrainStep \/ BusRing
    PROVE  LineStep
<1>1. CASE DrainStep
  BY <1>1, LineTakes, LineDelivers DEF DrainStep, SipInv, TypeOK
<1>2. CASE BusRing
  BY <1>2, LineStable DEF BusRing, managerVars, queueVars
<1> QED  BY <1>1, <1>2

\* Every step of the manager is a step of the line, or stutters.
LEMMA LineSimulated == SipInv /\ [Next]_vars => LineStep
<1> SUFFICES ASSUME SipInv, [Next]_vars PROVE LineStep  OBVIOUS
<1>1. CASE UNCHANGED vars
  BY <1>1, LineStable DEF vars, managerVars, queueVars, drainVars
<1>2. CASE Environment
  BY <1>2, LineInvite, LineFarEnd, LineMedia, LineCaller, LineDrain DEF Environment
<1>3. CASE Next /\ ~Environment
  BY <1>1, <1>3, LineInvite, LineExpiry, LineFarEnd, LineMedia, LineCaller,
     LineDrain DEF Next, Rest
<1> QED  BY <1>1, <1>2, <1>3

\* The manager implements the abstract line, for any number of dialogs, callers
\* and pending events, and whatever CANCELs, BYEs, timers and panics interleave
\* (Manager, publishLocked, drainEvents).
THEOREM SipImplementsLine == Spec => ImplementsLine
<1>1. Init => Line!CallInit
  <2> SUFFICES ASSUME Init PROVE Line!CallInit  OBVIOUS
  <2>1. incoming = None /\ ActiveID = None
    BY DEF Init, ActiveID
  <2>2. Undelivered = <<>>
    BY ConcatEmptySeq DEF Init, Undelivered
  <2> QED  BY <2>1, <2>2 DEF Line!CallInit
<1>2. LineStep => [Line!CallNext]_(Line!callVars)
  BY DEF LineStep, Line!callVars
<1> QED
  BY <1>1, <1>2, InitSip, NextSip, LineSimulated, PTL
     DEF Spec, ImplementsLine, Line!CallSpec
=============================================================================
