-------------------------- MODULE CoreStateProofs --------------------------
(***************************************************************************)
(* What applying one event does, for every set of entrypoints, dialogs and *)
(* streams: the lemmas the projector's and the manager's theorems rest on. *)
(***************************************************************************)
EXTENDS CoreState, TLAPS

\* The typed nulls are none of the values they stand in for.
LEMMA NullsDistinct ==
    /\ NoCall \notin Calls
    /\ NoEnd \notin CallEnds
    /\ NoPreview \notin Previews
    /\ None \notin Entrypoints
BY NoneAssumption DEF NoCall, Calls, NoEnd, CallEnds, NoPreview, Previews

\* The call events, which the manager publishes and the projector accepts, turn
\* a State into a State.
LEMMA CallEventEffectType ==
    ASSUME NEW s \in States, NEW e \in CallEvents, Accepts(s, e)
    PROVE  Effect(s, e) \in States
<1> DEFINE ring == RingWithout(s, s.incomingCall.entrypoint)
<1>a. s.incomingCall \in Calls \cup {NoCall}
  BY DEF States
<1>b. ring \in Entrypoints \cup {None}
  BY DEF States, RingWithout
<1> HIDE DEF ring
<1>1. CASE \E d \in Dialogs, ep \in Entrypoints : e = IncomingCallStarted(d, ep)
  <2>1. PICK d \in Dialogs, ep \in Entrypoints : e = IncomingCallStarted(d, ep)
    BY <1>1
  <2>2. Effect(s, e) = Ringing(s, [dialog |-> d, entrypoint |-> ep])
    BY <2>1 DEF Effect, IncomingCallStarted
  <2>3. [dialog |-> d, entrypoint |-> ep] \in Calls
    BY DEF Calls
  <2> QED  BY <2>2, <2>3 DEF Ringing, States
<1>2. CASE \E d \in Dialogs, r \in Reasons : e = IncomingCallEnded(d, r)
  <2>1. PICK d \in Dialogs, r \in Reasons : e = IncomingCallEnded(d, r)
    BY <1>2
  <2>2. Effect(s, e) = IF s.incomingCall = NoCall THEN s
                       ELSE [s EXCEPT !.incomingCall = NoCall,
                                      !.lastIncomingCallEnd = [dialog |-> d,
                                                               reason |-> r]]
    BY <2>1 DEF Effect, IncomingCallEnded
  <2>3. [dialog |-> d, reason |-> r] \in CallEnds
    BY DEF CallEnds
  <2> QED  BY <2>2, <2>3 DEF States
<1>3. CASE \E d \in Dialogs : e = CallAnswered(d)
  <2>1. Effect(s, e) = [s EXCEPT !.physicalRing = ring,
                                 !.lastIncomingCallEnd = NoEnd,
                                 !.activeCall = s.incomingCall,
                                 !.incomingCall = NoCall]
    BY <1>3 DEF Effect, CallAnswered, ring
  <2> QED  BY <1>a, <1>b, <2>1 DEF States
<1>4. CASE \E d \in Dialogs : e = CallDeclined(d)
  <2>1. Effect(s, e) = [s EXCEPT !.incomingCall = NoCall]
    BY <1>4 DEF Effect, CallDeclined
  <2> QED  BY <2>1 DEF States
<1>5. CASE \E d \in Dialogs : e = CallHungUp(d)
  <2>1. \/ Effect(s, e) = [s EXCEPT !.activeCall = NoCall]
        \/ Effect(s, e) = [s EXCEPT !.physicalRing = ring,
                                    !.incomingCall = NoCall]
    BY <1>5 DEF Effect, CallHungUp, ring
  <2> QED  BY <1>b, <2>1 DEF States
<1> QED
  BY <1>1, <1>2, <1>3, <1>4, <1>5 DEF CallEvents

\* An accepted event turns a State into a State, up to the two fields that
\* Projector.Apply sets afterwards.
LEMMA EffectType ==
    ASSUME NEW s \in States, NEW e \in Events, Accepts(s, e)
    PROVE  Effect(s, e) \in States
<1> USE NoneAssumption DEF States
<1>1. CASE e \in {RingStarted(ep) : ep \in Entrypoints \cup {None}}
  BY <1>1 DEF Effect, Accepts, RingStarted
<1>2. CASE e \in {RingCleared(ep) : ep \in Entrypoints \cup {None}}
  BY <1>2 DEF Effect, Accepts, RingCleared
<1>3. CASE e \in CallEvents
  BY <1>3, CallEventEffectType
<1>4. CASE e \in {IncomingCallStarted(d, ep) :
                    d \in Dialogs \cup {None}, ep \in Entrypoints \cup {None}}
  <2>1. PICK d \in Dialogs \cup {None}, ep \in Entrypoints \cup {None} :
           e = IncomingCallStarted(d, ep)
    BY <1>4
  <2>2. d \in Dialogs /\ ep \in Entrypoints
    BY <2>1 DEF Accepts, IncomingCallStarted
  <2> QED  BY <2>1, <2>2, CallEventEffectType DEF CallEvents
<1>5. CASE e \in {PreviewStarted(m, ep) :
                    m \in Streams \cup {None}, ep \in Entrypoints \cup {None}}
  BY <1>5 DEF Effect, Accepts, PreviewStarted, Previews
<1>6. CASE e \in {PreviewStopped(m) : m \in Streams}
  BY <1>6 DEF Effect, Accepts, PreviewStopped
<1>7. CASE e \in SettingEvents
  BY <1>7 DEF Effect, Accepts, SettingEvents
<1> QED
  BY <1>1, <1>2, <1>3, <1>4, <1>5, <1>6, <1>7 DEF Events

\* Projector.Apply adds the revision and the derived call state to the effect and
\* leaves the rest of it alone.
LEMMA ApplyAccepted ==
    ASSUME NEW s \in States, NEW e, Accepts(s, e), Effect(s, e) \in States
    PROVE  /\ Apply(s, e) \in States
           /\ Apply(s, e).physicalRing = Effect(s, e).physicalRing
           /\ Apply(s, e).incomingCall = Effect(s, e).incomingCall
           /\ Apply(s, e).lastIncomingCallEnd = Effect(s, e).lastIncomingCallEnd
           /\ Apply(s, e).activeCall = Effect(s, e).activeCall
           /\ Apply(s, e).previewStream = Effect(s, e).previewStream
           /\ Apply(s, e).callState = DeriveCallState(Effect(s, e))
<1> DEFINE t == Effect(s, e)
           rev == (t.revision + 1) % RevisionLimit
           cst == DeriveCallState(t)
<1>1. t \in States
  OBVIOUS
<1>2. Apply(s, e) = [t EXCEPT !.revision = rev, !.callState = cst]
  BY DEF Apply
<1>3. cst \in CallStates
  BY DEF DeriveCallState, CallStates
<1>4. rev \in 0 .. RevisionLimit - 1
  <2>1. t.revision \in Nat
    BY <1>1, RevisionAssumption DEF States
  <2> QED  BY <2>1, RevisionAssumption
<1> HIDE DEF t, rev, cst
<1>5. Apply(s, e) \in States
  BY <1>1, <1>2, <1>3, <1>4 DEF States
<1>6. /\ Apply(s, e).physicalRing = t.physicalRing
      /\ Apply(s, e).incomingCall = t.incomingCall
      /\ Apply(s, e).lastIncomingCallEnd = t.lastIncomingCallEnd
      /\ Apply(s, e).activeCall = t.activeCall
      /\ Apply(s, e).previewStream = t.previewStream
      /\ Apply(s, e).callState = cst
  BY <1>1, <1>2 DEF States
<1> QED  BY <1>5, <1>6 DEF t, cst

\* A refused event changes nothing.
LEMMA ApplyRefused ==
    ASSUME NEW s, NEW e, ~Accepts(s, e)
    PROVE  Apply(s, e) = s
BY DEF Apply

\* Whatever the event, a State stays a State.
LEMMA ApplyType ==
    ASSUME NEW s \in States, NEW e \in Events
    PROVE  Apply(s, e) \in States
<1>1. CASE Accepts(s, e)  BY <1>1, EffectType, ApplyAccepted
<1>2. CASE ~Accepts(s, e)  BY <1>2, ApplyRefused
<1> QED  BY <1>1, <1>2

\* What each event does to the ring and the call fields (apply).
LEMMA EffectFields ==
    ASSUME NEW s \in States, NEW e \in Events
    PROVE  LET t == Effect(s, e)
           IN /\ e.type = "call.incoming" =>
                   /\ t.incomingCall = [dialog |-> e.dialog, entrypoint |-> e.entrypoint]
                   /\ t.lastIncomingCallEnd = NoEnd
                   /\ t.activeCall = s.activeCall
                   /\ t.physicalRing = s.physicalRing
              /\ e.type = "call.incoming_ended" =>
                   /\ t.incomingCall = NoCall
                   /\ t.activeCall = s.activeCall
                   /\ t.physicalRing = s.physicalRing
                   /\ \/ t.lastIncomingCallEnd = s.lastIncomingCallEnd
                      \/ s.incomingCall # NoCall
              /\ e.type = "call.answered" =>
                   /\ t.incomingCall = NoCall
                   /\ t.lastIncomingCallEnd = NoEnd
                   /\ t.activeCall = s.incomingCall
                   /\ t.physicalRing = RingWithout(s, s.incomingCall.entrypoint)
              /\ e.type = "call.declined" =>
                   /\ t.incomingCall = NoCall
                   /\ t.lastIncomingCallEnd = s.lastIncomingCallEnd
                   /\ t.activeCall = s.activeCall
                   /\ t.physicalRing = s.physicalRing
              /\ e.type = "call.hung_up" =>
                   /\ t.lastIncomingCallEnd = s.lastIncomingCallEnd
                   /\ IF s.activeCall # NoCall
                      THEN /\ t.activeCall = NoCall
                           /\ t.incomingCall = s.incomingCall
                           /\ t.physicalRing = s.physicalRing
                      ELSE /\ t.activeCall = NoCall
                           /\ t.incomingCall = NoCall
                           /\ t.physicalRing =
                                 RingWithout(s, s.incomingCall.entrypoint)
              /\ e.type \notin {"call.incoming", "call.incoming_ended",
                                "call.answered", "call.declined", "call.hung_up"} =>
                   /\ t.incomingCall = s.incomingCall
                   /\ t.lastIncomingCallEnd = s.lastIncomingCallEnd
                   /\ t.activeCall = s.activeCall
                   /\ t.physicalRing =
                        CASE e.type = "ring.started" -> e.entrypoint
                          [] e.type = "ring.cleared" -> None
                          [] OTHER -> s.physicalRing
<1> DEFINE t == Effect(s, e)
<1>1. CASE e.type = "call.incoming"
  <2>1. t = Ringing(s, [dialog |-> e.dialog, entrypoint |-> e.entrypoint])
    BY <1>1 DEF Effect
  <2> QED  BY <1>1, <2>1 DEF Ringing, States
<1>2. CASE e.type = "call.incoming_ended"
  <2>1. t = IF s.incomingCall = NoCall THEN s
            ELSE [s EXCEPT !.incomingCall = NoCall,
                           !.lastIncomingCallEnd = [dialog |-> e.dialog,
                                                    reason |-> e.reason]]
    BY <1>2 DEF Effect
  <2> QED  BY <1>2, <2>1 DEF States
<1>3. CASE e.type = "call.answered"
  <2>1. t = [s EXCEPT !.physicalRing = RingWithout(s, s.incomingCall.entrypoint),
                      !.lastIncomingCallEnd = NoEnd,
                      !.activeCall = s.incomingCall,
                      !.incomingCall = NoCall]
    BY <1>3 DEF Effect
  <2> QED  BY <1>3, <2>1 DEF States
<1>4. CASE e.type = "call.declined"
  <2>1. t = [s EXCEPT !.incomingCall = NoCall]
    BY <1>4 DEF Effect
  <2> QED  BY <1>4, <2>1 DEF States
<1>5. CASE e.type = "call.hung_up"
  <2>1. t = IF s.activeCall # NoCall
            THEN [s EXCEPT !.activeCall = NoCall]
            ELSE [s EXCEPT !.physicalRing =
                               RingWithout(s, s.incomingCall.entrypoint),
                           !.incomingCall = NoCall]
    BY <1>5 DEF Effect
  <2> QED  BY <1>5, <2>1 DEF States
<1>6. CASE e.type \in {"ring.started", "ring.cleared"}
  <2>1. t = [s EXCEPT !.physicalRing =
                IF e.type = "ring.started" THEN e.entrypoint ELSE None]
    BY <1>6 DEF Effect
  <2> QED  BY <1>6, <2>1 DEF States
<1>7. CASE e.type \in {"preview.started", "preview.stopped"}
  <2>1. \E x : t = [s EXCEPT !.previewStream = x]
    BY <1>7 DEF Effect
  <2> QED  BY <1>7, <2>1 DEF States
<1>8. CASE e.type \in {"audio.muted", "audio.unmuted"}
  <2>1. \E x : t = [s EXCEPT !.muted = x]
    BY <1>8 DEF Effect
  <2> QED  BY <1>8, <2>1 DEF States
<1>9. CASE e.type \in {"voicemail.enabled", "voicemail.disabled",
                       "voicemail.unavailable"}
  <2>1. \E x : t = [s EXCEPT !.voicemail = x]
    BY <1>9 DEF Effect
  <2> QED  BY <1>9, <2>1 DEF States
<1>10. e.type \in {"call.incoming", "call.incoming_ended", "call.answered",
                   "call.declined", "call.hung_up", "ring.started",
                   "ring.cleared", "preview.started", "preview.stopped",
                   "audio.muted", "audio.unmuted", "voicemail.enabled",
                   "voicemail.disabled", "voicemail.unavailable"}
  BY DEF Events, CallEvents, SettingEvents, RingStarted, RingCleared,
         IncomingCallStarted, IncomingCallEnded, CallAnswered, CallDeclined,
         CallHungUp, PreviewStarted, PreviewStopped
<1> QED
  BY <1>1, <1>2, <1>3, <1>4, <1>5, <1>6, <1>7, <1>8, <1>9, <1>10
=============================================================================
