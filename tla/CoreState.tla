----------------------------- MODULE CoreState -----------------------------
(***************************************************************************)
(* The state the companion shows its clients, and what each core event     *)
(* does to it (internal/core/state.go, events.go).  Pure operators only:   *)
(* Projector.tla is the state machine around them, SipManager.tla delivers *)
(* the call manager's events to them.                                      *)
(*                                                                         *)
(* A nil pointer of the Go State is a record of Nones here, and the empty  *)
(* identifier "" is None.                                                  *)
(***************************************************************************)
EXTENDS Integers

CONSTANTS
    Entrypoints,    \* configured entrypoint identifiers
    Dialogs,        \* SIP dialog identifiers (Call-ID values)
    Streams,        \* preview stream identifiers ("media-<lease>")
    None,           \* a nil pointer, or an empty identifier
    RevisionLimit   \* Revision is a uint64: it wraps here (2^64 in the code)

ASSUME NoneAssumption == None \notin Entrypoints \cup Dialogs \cup Streams
ASSUME RevisionAssumption == RevisionLimit \in Nat \ {0}

\* core.CallEndReason
Reasons == {"cancelled", "timeout", "elsewhere"}

CallStates == {"idle", "ringing", "active", "preview"}

-----------------------------------------------------------------------------
(* State *)

NoCall == [dialog |-> None, entrypoint |-> None]
Calls == [dialog : Dialogs, entrypoint : Entrypoints]
NoEnd == [dialog |-> None, reason |-> None]
CallEnds == [dialog : Dialogs, reason : Reasons]
NoPreview == [stream |-> None, entrypoint |-> None]
Previews == [stream : Streams, entrypoint : Entrypoints]

States ==
    [revision            : 0 .. RevisionLimit - 1,
     callState           : CallStates,
     physicalRing        : Entrypoints \cup {None},
     incomingCall        : Calls \cup {NoCall},
     lastIncomingCallEnd : CallEnds \cup {NoEnd},
     activeCall          : Calls \cup {NoCall},
     previewStream       : Previews \cup {NoPreview},
     muted               : BOOLEAN,
     voicemail           : {"unavailable", "enabled", "disabled"}]

\* NewProjector
InitialState ==
    [revision            |-> 0,
     callState           |-> "idle",
     physicalRing        |-> None,
     incomingCall        |-> NoCall,
     lastIncomingCallEnd |-> NoEnd,
     activeCall          |-> NoCall,
     previewStream       |-> NoPreview,
     muted               |-> FALSE,
     voicemail           |-> "unavailable"]

-----------------------------------------------------------------------------
(* Events *)

RingStarted(ep) == [type |-> "ring.started", entrypoint |-> ep]
RingCleared(ep) == [type |-> "ring.cleared", entrypoint |-> ep]
IncomingCallStarted(d, ep) ==
    [type |-> "call.incoming", dialog |-> d, entrypoint |-> ep]
IncomingCallEnded(d, reason) ==
    [type |-> "call.incoming_ended", dialog |-> d, reason |-> reason]
CallAnswered(d) == [type |-> "call.answered", dialog |-> d]
CallDeclined(d) == [type |-> "call.declined", dialog |-> d]
CallHungUp(d) == [type |-> "call.hung_up", dialog |-> d]
PreviewStarted(s, ep) ==
    [type |-> "preview.started", stream |-> s, entrypoint |-> ep]
PreviewStopped(s) == [type |-> "preview.stopped", stream |-> s]

\* The call events, the only ones signaling.Manager publishes.
CallEvents ==
    {IncomingCallStarted(d, ep) : d \in Dialogs, ep \in Entrypoints}
      \cup {IncomingCallEnded(d, r) : d \in Dialogs, r \in Reasons}
      \cup {CallAnswered(d) : d \in Dialogs}
      \cup {CallDeclined(d) : d \in Dialogs}
      \cup {CallHungUp(d) : d \in Dialogs}

\* The events that carry nothing: audio.muted, audio.unmuted, voicemail.*
SettingEvents ==
    [type : {"audio.muted", "audio.unmuted", "voicemail.enabled",
             "voicemail.disabled", "voicemail.unavailable"}]

\* Every event a caller can hand in, the ones with empty identifiers included.
Events ==
    {RingStarted(ep) : ep \in Entrypoints \cup {None}}
      \cup {RingCleared(ep) : ep \in Entrypoints \cup {None}}
      \cup {IncomingCallStarted(d, ep) :
                d \in Dialogs \cup {None}, ep \in Entrypoints \cup {None}}
      \cup CallEvents
      \cup {PreviewStarted(s, ep) :
                s \in Streams \cup {None}, ep \in Entrypoints \cup {None}}
      \cup {PreviewStopped(s) : s \in Streams}
      \cup SettingEvents

-----------------------------------------------------------------------------
(* Applying an event *)

\* matchingIncoming
MatchingIncoming(s, d) == s.incomingCall # NoCall /\ s.incomingCall.dialog = d

\* MUTANT of CallSlotFree: the check forgets the answered call.
CallSlotFree_NoActiveCheck(s) == s.incomingCall = NoCall

\* A call may start only while none is ringing or answered.
CallSlotFree(s) == s.incomingCall = NoCall /\ s.activeCall = NoCall

\* The events apply does not refuse with ErrInvalidTransition.
Accepts(s, e) ==
    /\ e.type = "ring.started" => e.entrypoint # None
    /\ e.type = "ring.cleared" =>
          s.physicalRing = None \/ e.entrypoint \in {None, s.physicalRing}
    /\ e.type = "call.incoming" =>
          /\ e.dialog # None /\ e.entrypoint # None
          /\ CallSlotFree(s)
    /\ e.type = "call.incoming_ended" =>
          s.incomingCall = NoCall \/ s.incomingCall.dialog = e.dialog
    /\ e.type \in {"call.answered", "call.declined"} =>
          MatchingIncoming(s, e.dialog)
    /\ e.type = "call.hung_up" =>
          IF s.activeCall # NoCall THEN s.activeCall.dialog = e.dialog
                                   ELSE MatchingIncoming(s, e.dialog)
    /\ e.type = "preview.started" =>
          /\ e.stream # None /\ e.entrypoint # None
          /\ s.previewStream = NoPreview
    /\ e.type = "preview.stopped" =>
          s.previewStream # NoPreview /\ s.previewStream.stream = e.stream

\* MUTANT of RingWithout: the ring is left to the bus frame that clears it.
RingWithout_LeftToTheBus(s, ep) == s.physicalRing

\* clearRingOf: the ring left once the call at ep was answered or refused here
RingWithout(s, ep) == IF s.physicalRing = ep THEN None ELSE s.physicalRing

\* apply, IncomingCallStarted
Ringing(s, call) ==
    [s EXCEPT !.lastIncomingCallEnd = NoEnd, !.incomingCall = call]

\* apply, for an accepted event
Effect(s, e) ==
    CASE e.type = "ring.started" -> [s EXCEPT !.physicalRing = e.entrypoint]
      [] e.type = "ring.cleared" -> [s EXCEPT !.physicalRing = None]
      [] e.type = "call.incoming" ->
            Ringing(s, [dialog |-> e.dialog, entrypoint |-> e.entrypoint])
      [] e.type = "call.incoming_ended" ->
            IF s.incomingCall = NoCall THEN s
            ELSE [s EXCEPT !.incomingCall = NoCall,
                           !.lastIncomingCallEnd = [dialog |-> e.dialog,
                                                    reason |-> e.reason]]
      [] e.type = "call.answered" ->
            [s EXCEPT !.physicalRing = RingWithout(s, s.incomingCall.entrypoint),
                      !.lastIncomingCallEnd = NoEnd,
                      !.activeCall = s.incomingCall,
                      !.incomingCall = NoCall]
      [] e.type = "call.declined" -> [s EXCEPT !.incomingCall = NoCall]
      [] e.type = "call.hung_up" ->
            IF s.activeCall # NoCall
            THEN [s EXCEPT !.activeCall = NoCall]
            ELSE [s EXCEPT !.physicalRing =
                               RingWithout(s, s.incomingCall.entrypoint),
                           !.incomingCall = NoCall]
      [] e.type = "preview.started" ->
            [s EXCEPT !.previewStream = [stream |-> e.stream,
                                         entrypoint |-> e.entrypoint]]
      [] e.type = "preview.stopped" -> [s EXCEPT !.previewStream = NoPreview]
      [] e.type = "audio.muted" -> [s EXCEPT !.muted = TRUE]
      [] e.type = "audio.unmuted" -> [s EXCEPT !.muted = FALSE]
      [] e.type = "voicemail.enabled" -> [s EXCEPT !.voicemail = "enabled"]
      [] e.type = "voicemail.disabled" -> [s EXCEPT !.voicemail = "disabled"]
      [] e.type = "voicemail.unavailable" ->
            [s EXCEPT !.voicemail = "unavailable"]

DeriveCallState(s) ==
    IF s.activeCall # NoCall THEN "active"
    ELSE IF s.physicalRing # None \/ s.incomingCall # NoCall THEN "ringing"
    ELSE IF s.previewStream # NoPreview THEN "preview"
    ELSE "idle"

\* MUTANT of Apply: the call state is derived before the event is applied.
Apply_DerivesTooEarly(s, e) ==
    IF Accepts(s, e)
    THEN [Effect(s, e) EXCEPT !.revision = (@ + 1) % RevisionLimit,
                              !.callState = DeriveCallState(s)]
    ELSE s

\* Projector.Apply: a refused event leaves the state as it is.
Apply(s, e) ==
    IF Accepts(s, e)
    THEN LET next == Effect(s, e)
         IN [next EXCEPT !.revision = (@ + 1) % RevisionLimit,
                         !.callState = DeriveCallState(next)]
    ELSE s
=============================================================================
