----------------------------- MODULE Projector -----------------------------
(***************************************************************************)
(* core.Projector: the one place events become client-visible state.       *)
(* Its callers are independent goroutines (the OpenWebNet listener, the    *)
(* call manager's drain, the stream observer, the API), so the order of    *)
(* events is arbitrary: every event may come in every state.               *)
(***************************************************************************)
EXTENDS CoreState

VARIABLES
    state,           \* Projector.state
    ringSinceAnswer  \* history: entrypoints rung since a call was answered

vars == <<state, ringSinceAnswer>>

Init ==
    /\ state = InitialState
    /\ ringSinceAnswer = {}

\* Projector.Apply, one critical section
ApplyEvent(e) ==
    /\ state' = Apply(state, e)
    /\ ringSinceAnswer' =
          IF ~Accepts(state, e) THEN ringSinceAnswer
          ELSE CASE e.type = "ring.started" -> ringSinceAnswer \cup {e.entrypoint}
                 [] e.type = "call.answered" -> {}
                 [] OTHER -> ringSinceAnswer

Next == \E e \in Events : ApplyEvent(e)

Spec == Init /\ [][Next]_vars

-----------------------------------------------------------------------------
(* Properties *)

\* The projected state is a State, with its call state derived from the rest
\* (Projector.Apply).
TypeOK ==
    /\ state \in States
    /\ ringSinceAnswer \subseteq Entrypoints
    /\ state.callState = DeriveCallState(state)

\* Clients never see a ringing call next to an answered one: the incoming and
\* the active call are never both present, whatever order events come in
\* (state.go apply).
OneCall == state.incomingCall = NoCall \/ state.activeCall = NoCall

\* A client that reads last_incoming_call_end is told about a call that is
\* over: the end of an earlier call is never shown next to a ringing or an
\* answered one (state.go apply, IncomingCallStarted and CallAnswered).
EndShownOnlyAfterTheCall ==
    state.lastIncomingCallEnd # NoEnd =>
        state.incomingCall = NoCall /\ state.activeCall = NoCall

\* "Home Assistant notifies a ring that never happened": when an answered call
\* is hung up, the state may fall back to a ring at that call's entrypoint only
\* if somebody rang there after the answer (state.go apply, CallAnswered).
NoPhantomRing ==
    [][(/\ state.activeCall # NoCall
        /\ state'.activeCall = NoCall
        /\ state'.physicalRing = state.activeCall.entrypoint)
         => state.activeCall.entrypoint \in ringSinceAnswer]_vars
=============================================================================
