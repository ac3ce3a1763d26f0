------------------------------ MODULE CallLine ------------------------------
(***************************************************************************)
(* What signaling.Manager promises the rest of the companion: one line, on *)
(* which a call rings, is answered and ends, and a queue that delivers     *)
(* every committed transition later, one by one, in commit order.          *)
(* SipManager implements this specification; StreamCoordinator is built on *)
(* it.                                                                     *)
(***************************************************************************)
EXTENDS CoreState, Sequences

VARIABLES
    ringing,   \* the inbound call that rings, None if there is none
    answered,  \* the inbound call answered here, None if there is none
    queue      \* events committed and not yet delivered, oldest first

callVars == <<ringing, answered, queue>>

CallType ==
    /\ ringing \in Dialogs \cup {None}
    /\ answered \in Dialogs \cup {None}
    /\ queue \in Seq(CallEvents)

CallInit ==
    /\ ringing = None
    /\ answered = None
    /\ queue = <<>>

Commit(e) == queue' = Append(queue, e)

\* An INVITE of the door is announced.
Rings(d, ep) ==
    /\ ringing = None /\ answered = None
    /\ ringing' = d
    /\ Commit(IncomingCallStarted(d, ep))
    /\ UNCHANGED answered

\* The ringing call ends without this companion: cancelled, expired, or taken
\* by another device.
RingEnded(reason) ==
    /\ ringing # None
    /\ ringing' = None
    /\ Commit(IncomingCallEnded(ringing, reason))
    /\ UNCHANGED answered

\* The user refuses the ringing call, with a decline or a hangup.
Declined ==
    /\ ringing # None
    /\ ringing' = None
    /\ Commit(CallDeclined(ringing))
    /\ UNCHANGED answered

RingHungUp ==
    /\ ringing # None
    /\ ringing' = None
    /\ Commit(CallHungUp(ringing))
    /\ UNCHANGED answered

Answered ==
    /\ ringing # None
    /\ ringing' = None
    /\ answered' = ringing
    /\ Commit(CallAnswered(ringing))

\* The answered call ends, from either side.
HungUp ==
    /\ answered # None
    /\ answered' = None
    /\ Commit(CallHungUp(answered))
    /\ UNCHANGED ringing

\* The drain hands the oldest event to the sink.
Delivered ==
    /\ queue # <<>>
    /\ queue' = Tail(queue)
    /\ UNCHANGED <<ringing, answered>>

CallNext ==
    \/ \E d \in Dialogs, ep \in Entrypoints : Rings(d, ep)
    \/ \E reason \in Reasons : RingEnded(reason)
    \/ Declined \/ RingHungUp \/ Answered \/ HungUp \/ Delivered

CallSpec == CallInit /\ [][CallNext]_callVars
=============================================================================
