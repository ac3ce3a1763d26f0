------------------------- MODULE StreamShareProofs -------------------------
(***************************************************************************)
(* What the coordinator promises outside: it implements SharedStream for   *)
(* its consumers, and a teardown that is no release ends no answered call  *)
(* unless somebody dropped its source's dialog.  Both rest on StreamInv.   *)
(***************************************************************************)
EXTENDS StreamProofs

-----------------------------------------------------------------------------
(* The dialog of a source *)

\* A source between the call it joined and its end.
CallSteps == {"inCall", "asking", "up"}

\* A consumer that has not launched its source.
EarlyPCs == BeforePCs \cup {"reserved", "added", "made", "attached"}

\* A source is launched once; a session that owns a dialog has joined the call,
\* and as long as it is in it and no BYE came, the manager holds that dialog or
\* somebody else dropped it.
DialFits(l) ==
    /\ src[l] \notin {"none", "made"} => con[l].pc \notin EarlyPCs
    /\ l \in owns => src[l] \notin {"none", "made", "launched", "starting"}
    /\ l \in owns \ gone /\ src[l] \in CallSteps => dialled = l \/ l \in robbed

\* The line is not used for a call and a dialled preview at once.
LineFree == dialled # None => ringing = None /\ answered = None

DialInv == LineFree /\ \A l \in Leases : DialFits(l)

\* A consumer past its launch does not come back before it.
LEMMA EarlyMoves ==
    ASSUME StreamInv, [Next]_vars
    PROVE  \A d \in Consumers : con'[d].pc \in EarlyPCs => con[d].pc \in EarlyPCs
<1>0. con \in [Consumers -> ConsumerSteps]  BY Types DEF StreamInv
<1>1. ASSUME NEW c \in Consumers, NEW pc, Goes(c, pc), pc \in EarlyPCs => con[c].pc \in EarlyPCs
      PROVE  \A d \in Consumers : con'[d].pc \in EarlyPCs => con[d].pc \in EarlyPCs
  BY <1>0, <1>1 DEF Goes, ConsumerSteps
<1>2. ASSUME NEW c \in Consumers, NEW r, con' = [con EXCEPT ![c] = r],
             r.pc \in EarlyPCs => con[c].pc \in EarlyPCs
      PROVE  \A d \in Consumers : con'[d].pc \in EarlyPCs => con[d].pc \in EarlyPCs
  BY <1>0, <1>2
<1>3. ASSUME con' = con
      PROVE  \A d \in Consumers : con'[d].pc \in EarlyPCs => con[d].pc \in EarlyPCs
  BY <1>3
<1>4. ASSUME NEW c \in Consumers, ConsumerStep(c)
      PROVE  \A d \in Consumers : con'[d].pc \in EarlyPCs => con[d].pc \in EarlyPCs
  <2> USE DEF EarlyPCs, BeforePCs, At
  <2>1. CASE ProbesAnswered(c)  BY <1>0, <2>1 DEF ProbesAnswered, ConsumerSteps
  <2>2. CASE Reserve(c)  BY <1>0, <2>2 DEF Reserve, Goes, ConsumerSteps
  <2>3. CASE JoinAdds(c) \/ JoinFails(c)  BY <1>1, <2>3 DEF JoinAdds, JoinFails
  <2>4. CASE AddsItself(c) \/ MakesSource(c)  BY <1>1, <2>4 DEF AddsItself, MakesSource
  <2>5. CASE AbortResets(c)  BY <1>0, <2>5 DEF AbortResets, ConsumerSteps
  <2>6. CASE AbortObserved(c)  BY <1>0, <2>6 DEF AbortObserved, ConsumerSteps
  <2>7. CASE AttachSource(c) \/ LaunchSource(c)  BY <1>1, <2>7 DEF AttachSource, LaunchSource
  <2>8. CASE StartReturns(c) \/ StartStopped(c)  BY <1>1, <2>8 DEF StartReturns, StartStopped
  <2>9. CASE ProbesAnsweredAgain(c)  BY <1>0, <2>9 DEF ProbesAnsweredAgain, ConsumerSteps
  <2>10. CASE FinishStart(c)  BY <1>0, <2>10 DEF FinishStart, Goes, ConsumerSteps
  <2>11. CASE AnnounceStart(c)  BY <1>1, <2>11 DEF AnnounceStart
  <2>12. CASE StartObserved(c)  BY <1>0, <2>12 DEF StartObserved, ConsumerSteps
  <2>13. CASE LeaveRemoves(c)  BY <1>1, <2>13 DEF LeaveRemoves
  <2>14. CASE LeaveUntalks(c)  BY <1>1, <2>14 DEF LeaveUntalks
  <2>15. CASE LastOutStops(c)  BY <1>1, <2>15 DEF LastOutStops
  <2> QED
    BY <1>4, <2>1, <2>2, <2>3, <2>4, <2>5, <2>6, <2>7, <2>8, <2>9, <2>10, <2>11, <2>12,
       <2>13, <2>14, <2>15 DEF ConsumerStep
<1>5. ASSUME NEW l \in Leases, TeardownStep(l) \/ SourceStep(l) PROVE con' = con
  BY <1>5 DEF TeardownStep, SourceStep, CloseSource, SourceClosed, TeardownResets,
     TeardownObserved, TeardownTells, SourceStarts, SourceJoinsCall, SourceAsks, SourceUp,
     SourceFails
<1>6. CASE Environment
  <2>1. ASSUME NEW c \in Consumers, ProbesRinging(c)
        PROVE  \A d \in Consumers : con'[d].pc \in EarlyPCs => con[d].pc \in EarlyPCs
    BY <1>0, <2>1 DEF ProbesRinging, ConsumerSteps, At, EarlyPCs, BeforePCs
  <2>2. ASSUME NEW c \in Consumers, JoinTimesOut(c) \/ StartTimesOut(c)
        PROVE  \A d \in Consumers : con'[d].pc \in EarlyPCs => con[d].pc \in EarlyPCs
    BY <1>1, <2>2 DEF JoinTimesOut, StartTimesOut, EarlyPCs, BeforePCs
  <2>3. ASSUME NEW c \in Consumers, NEW by \in {"released", "left"}, Leave(c, by)
        PROVE  \A d \in Consumers : con'[d].pc \in EarlyPCs => con[d].pc \in EarlyPCs
    BY <1>0, <2>3 DEF Leave, Goes, ConsumerSteps, EarlyPCs, BeforePCs
  <2>4. ASSUME NEW c \in Consumers, Talk(c) PROVE con' = con  BY <2>4 DEF Talk
  <2>5. ASSUME NEW l \in Leases, RemoteBYE(l) \/ SourceFailure(l) \/ Reconcile(l)
        PROVE  con' = con
    BY <2>5 DEF RemoteBYE, SourceFailure, Reconcile
  <2>6. ASSUME ObserveControlStop \/ \E track \in Tracks : ObserveControlTrack(track)
        PROVE  con' = con
    BY <2>6 DEF ObserveControlStop, ObserveControlTrack
  <2>7. ASSUME Hangup \/ LineMoves PROVE con' = con  BY <2>7 DEF Hangup, LineMoves
  <2> QED
    BY <1>3, <1>6, <2>1, <2>2, <2>3, <2>4, <2>5, <2>6, <2>7 DEF Environment
<1>7. CASE PromotionEnds \/ DrainStep \/ HangupStep
  BY <1>3, <1>7 DEF PromotionEnds, DrainStep, HangupStep, Deliver, DrainStops, DrainWaits,
     EndCall, EndCallStops, EndCallWaits
<1>8. CASE UNCHANGED vars  BY <1>3, <1>8 DEF vars
<1> QED  BY <1>3, <1>4, <1>5, <1>6, <1>7, <1>8 DEF Next, Rest

\* A step that changes no source, no dialog and no call.
LEMMA DialStands ==
    ASSUME StreamInv, DialInv, [Next]_vars, UNCHANGED <<src, dialled, owns, gone>>,
           robbed \subseteq robbed', dialled # None => ringing' = None /\ answered' = None
    PROVE  DialInv'
<1>1. LineFree'  BY DEF DialInv, LineFree
<1>2. ASSUME NEW l \in Leases PROVE DialFits(l)'
  BY EarlyMoves DEF DialInv, DialFits, Leases
<1> QED  BY <1>1, <1>2 DEF DialInv

\* Source k changes its step, and leaves the call when the manager drops a dialog.
LEMMA DialMoves ==
    ASSUME StreamInv, DialInv, [Next]_vars, NEW k \in Leases,
           NEW step, src' = [src EXCEPT ![k] = step], owns' = owns, gone \subseteq gone',
           step \in CallSteps => src[k] \in CallSteps,
           step \notin {"none", "made"} => con'[k].pc \notin EarlyPCs,
           k \in owns => step \notin {"none", "made", "launched", "starting"},
           robbed \subseteq robbed',
           \/ UNCHANGED <<callVars, dialled>>
           \/ HangupCall /\ Robs(k) /\ src[k] \in CallSteps /\ step \notin CallSteps
    PROVE  DialInv'
<1>0. src \in [Leases -> SourceSteps] /\ None \notin Leases  BY StandingFacts
<1>1. LineFree'
  BY DEF DialInv, LineFree, HangupCall, HungUp, callVars
<1>2. ASSUME NEW l \in Leases PROVE DialFits(l)'
  <2>1. DialFits(l) /\ (con'[l].pc \in EarlyPCs => con[l].pc \in EarlyPCs)
    BY EarlyMoves DEF DialInv, Leases
  <2>2. CASE l = k
    <3>1. src'[l] = step  BY <1>0, <2>2
    <3>2. step \in CallSteps => dialled' = dialled  OBVIOUS
    <3> QED  BY <2>1, <2>2, <3>1, <3>2 DEF DialFits
  <2>3. CASE l # k
    <3>1. src'[l] = src[l]  BY <1>0, <2>3
    <3>2. dialled = l => dialled' = l \/ l \in robbed'
      BY <1>0, <2>3 DEF HangupCall, Robs
    <3> QED  BY <2>1, <2>3, <3>1, <3>2 DEF DialFits
  <2> QED  BY <2>2, <2>3
<1> QED  BY <1>1, <1>2 DEF DialInv

\* What the startup of a source does to its dialog.
LEMMA DialStarts ==
    ASSUME StreamInv, DialInv, [Next]_vars, NEW l \in Leases, SourceStep(l)
    PROVE  DialInv'
<1>0. /\ src \in [Leases -> SourceSteps] /\ CallType /\ owns \subseteq Leases
      /\ gone \subseteq Leases /\ None \notin Leases /\ DialFits(l) /\ con' = con
  BY StandingFacts DEF DialInv, SourceStep, SourceStarts, SourceJoinsCall, SourceAsks,
     SourceUp, SourceFails
<1>1. CASE SourceStarts(l)
  <2>1. /\ src[l] = "launched" /\ src' = [src EXCEPT ![l] = "starting"]
        /\ UNCHANGED <<callVars, dialled, owns, con, robbed>> /\ gone' = gone \ {l}
        /\ l \notin owns
    BY <1>0, <1>1 DEF SourceStarts, DialFits, historyVars
  <2>2. ASSUME NEW m \in Leases PROVE DialFits(m)'
    <3>1. DialFits(m)  BY DEF DialInv
    <3>2. CASE m = l  BY <1>0, <2>1, <3>1, <3>2 DEF DialFits, CallSteps
    <3>3. CASE m # l  BY <1>0, <2>1, <3>1, <3>3 DEF DialFits
    <3> QED  BY <3>2, <3>3
  <2>3. LineFree'  BY <2>1 DEF DialInv, LineFree, callVars
  <2> QED  BY <2>2, <2>3 DEF DialInv
<1>2. CASE SourceJoinsCall(l)
  <2>1. /\ src[l] = "starting" /\ src' = [src EXCEPT ![l] = "inCall"]
        /\ UNCHANGED <<callVars, gone, con, robbed>> /\ l \notin owns
    BY <1>0, <1>2 DEF SourceJoinsCall, DialFits, historyVars
  <2>2. \/ UNCHANGED <<dialled, owns>>
        \/ /\ ringing = None /\ answered = None /\ dialled = None
           /\ dialled' = l /\ owns' = owns \cup {l}
    BY <1>2 DEF SourceJoinsCall
  <2>3. ASSUME NEW m \in Leases PROVE DialFits(m)'
    <3>1. DialFits(m)  BY DEF DialInv
    <3>2. CASE m = l  BY <1>0, <2>1, <2>2, <3>1, <3>2 DEF DialFits
    <3>3. CASE m # l
      <4>1. src'[m] = src[m] /\ con'[m] = con[m] /\ (m \in owns' <=> m \in owns)
        BY <1>0, <2>1, <2>2, <3>3
      <4>2. m \in owns \ gone /\ src[m] \in CallSteps =>
               dialled' = dialled \/ m \in robbed
        BY <1>0, <2>2, <3>1 DEF DialFits
      <4> QED  BY <2>1, <3>1, <4>1, <4>2 DEF DialFits
    <3> QED  BY <3>2, <3>3
  <2>4. LineFree'  BY <2>1, <2>2 DEF DialInv, LineFree, callVars
  <2> QED  BY <2>3, <2>4 DEF DialInv
<1>3. CASE SourceAsks(l) \/ SourceUp(l)
  <2>1. PICK step \in {"asking", "up"} : src' = [src EXCEPT ![l] = step]
    BY <1>3 DEF SourceAsks, SourceUp
  <2>2. src[l] \in CallSteps /\ UNCHANGED <<callVars, dialled, owns, gone, robbed>>
    BY <1>3 DEF SourceAsks, SourceUp, sessionVars, CallSteps, historyVars
  <2>3. con'[l].pc \notin EarlyPCs  BY <1>0, <2>2 DEF DialFits, CallSteps
  <2> QED  BY <2>1, <2>2, <2>3, DialMoves
<1>4. CASE SourceFails(l)
  <2>1. /\ src[l] \in {"starting", "inCall", "asking"} /\ src' = [src EXCEPT ![l] = "failed"]
        /\ UNCHANGED <<owns, gone>> /\ Robs(l) /\ robbed \subseteq robbed'
    BY <1>4 DEF SourceFails, sessionVars, Robs
  <2>2. \/ UNCHANGED <<callVars, dialled>>
        \/ HangupCall /\ src[l] \in CallSteps
    BY <1>4, <2>1 DEF SourceFails, CallSteps
  <2>3. con'[l].pc \notin EarlyPCs  BY <1>0, <2>1 DEF DialFits
  <2>4. "failed" \notin CallSteps  BY DEF CallSteps
  <2> QED  BY <2>1, <2>2, <2>3, <2>4, DialMoves
<1> QED  BY <1>1, <1>2, <1>3, <1>4 DEF SourceStep

\* A BYE, and the teardown of a lease, end a source that is up.
LEMMA DialEnds ==
    ASSUME StreamInv, DialInv, [Next]_vars, NEW l \in Leases,
           TeardownStep(l) \/ RemoteBYE(l) \/ SourceFailure(l)
    PROVE  DialInv'
<1>0. /\ src \in [Leases -> SourceSteps] /\ td \in [Leases -> Teardowns] /\ con' = con
      /\ \A m \in Leases : DialFits(m)
  BY StandingFacts DEF DialInv, TeardownStep, CloseSource, SourceClosed, TeardownResets,
     TeardownObserved, TeardownTells, RemoteBYE, SourceFailure
<1>1. ASSUME NEW s \in Leases, owns' = owns, gone \subseteq gone', Robs(s),
             src' = [src EXCEPT ![s] = IF @ = "up" THEN "closed" ELSE @],
             UNCHANGED <<callVars, dialled>> \/ (HangupCall /\ src[s] = "up")
      PROVE  DialInv'
  <2> DEFINE step == IF src[s] = "up" THEN "closed" ELSE src[s]
  <2>1. src' = [src EXCEPT ![s] = step]  BY <1>1
  <2>2. /\ step \in CallSteps => src[s] \in CallSteps
        /\ step \notin {"none", "made"} => con'[s].pc \notin EarlyPCs
        /\ s \in owns => step \notin {"none", "made", "launched", "starting"}
        /\ src[s] = "up" => src[s] \in CallSteps /\ step \notin CallSteps
        /\ robbed \subseteq robbed'
    BY <1>0, <1>1 DEF DialFits, CallSteps, Robs
  <2> HIDE DEF step
  <2> QED  BY <1>1, <2>1, <2>2, DialMoves
<1>2. CASE SourceClosed(l)
  <2>1. td[l].source \in Leases
    BY <1>2 DEF SourceClosed, StreamInv, EveryTeardownFits, TeardownFits, ShutsSource,
       TypeOK, StreamType
  <2> QED  BY <1>1, <1>2, <2>1 DEF SourceClosed, sessionVars
<1>3. CASE RemoteBYE(l)  BY <1>1, <1>3 DEF RemoteBYE
<1>4. CASE \/ CloseSource(l) \/ TeardownResets(l) \/ TeardownObserved(l) \/ TeardownTells(l)
           \/ SourceFailure(l)
  <2>1. UNCHANGED <<callVars, src, dialled, owns, gone, robbed>>
    BY <1>4 DEF CloseSource, TeardownResets, TeardownObserved, TeardownTells, SourceFailure,
       sourceVars, sessionVars, historyVars
  <2> QED  BY <2>1, DialStands DEF DialInv, LineFree, callVars
<1> QED  BY <1>2, <1>3, <1>4 DEF TeardownStep

\* What a consumer does to its source before it is launched.
LEMMA DialConsumers ==
    ASSUME StreamInv, DialInv, [Next]_vars, NEW c \in Consumers,
           ConsumerStep(c)
    PROVE  DialInv'
<1>0. /\ src \in [Leases -> SourceSteps] /\ con \in [Consumers -> ConsumerSteps]
      /\ c \in Leases /\ DialFits(c)
  BY StandingFacts, Types DEF DialInv, StreamInv, Leases
<1>1. ASSUME NEW step \in {"made", "launched", "closed"}, src' = [src EXCEPT ![c] = step],
             con[c].pc \in {"added", "made", "attached"},
             step # "made" => con'[c].pc \notin EarlyPCs,
             UNCHANGED <<callVars, dialled, owns, gone, robbed>>
      PROVE  DialInv'
  <2>1. src[c] \in {"none", "made"} /\ c \notin owns
    BY <1>0, <1>1 DEF DialFits, EarlyPCs
  <2>2. step \notin CallSteps /\ gone \subseteq gone'  BY <1>1 DEF CallSteps
  <2>3. step \notin {"none", "made"} => con'[c].pc \notin EarlyPCs  BY <1>1
  <2> QED  BY <1>0, <1>1, <2>1, <2>2, <2>3, DialMoves
<1>2. CASE MakesSource(c)
  <2>1. CASE src' = [src EXCEPT ![c] = "made"]
    BY <1>1, <1>2, <2>1 DEF MakesSource, At, sessionVars, historyVars
  <2>2. CASE src' = src
    BY <1>2, <2>2, DialStands DEF MakesSource, sessionVars, historyVars, DialInv, LineFree,
       callVars
  <2> QED  BY <1>2, <2>1, <2>2 DEF MakesSource
<1>3. CASE AttachSource(c)
  <2>1. CASE co.lease = c
    BY <1>3, <2>1, DialStands DEF AttachSource, sessionVars, historyVars, DialInv, LineFree,
       callVars
  <2>2. CASE co.lease # c
    <3>1. con'[c].pc = "done" /\ src' = [src EXCEPT ![c] = "closed"]
      BY <1>0, <1>3, <2>2 DEF AttachSource, Goes, ConsumerSteps
    <3>2. "done" \notin EarlyPCs  BY DEF EarlyPCs, BeforePCs
    <3> QED  BY <1>1, <1>3, <3>1, <3>2 DEF AttachSource, At, sessionVars, historyVars
  <2> QED  BY <2>1, <2>2
<1>4. CASE LaunchSource(c)
  <2>1. con'[c].pc = "starting" /\ src' = [src EXCEPT ![c] = "launched"]
    BY <1>0, <1>4 DEF LaunchSource, Goes, ConsumerSteps
  <2>2. "starting" \notin EarlyPCs  BY DEF EarlyPCs, BeforePCs
  <2> QED  BY <1>1, <1>4, <2>1, <2>2 DEF LaunchSource, At, sessionVars, historyVars
<1>5. CASE ~(MakesSource(c) \/ AttachSource(c) \/ LaunchSource(c))
  <2>1. UNCHANGED <<callVars, src, dialled, owns, gone, robbed>>
    BY <1>5 DEF ConsumerStep, ProbesAnswered, Reserve, JoinAdds, JoinFails, AddsItself,
       AbortResets, AbortObserved, StartReturns, StartStopped, ProbesAnsweredAgain,
       FinishStart, AnnounceStart, StartObserved, LeaveRemoves, LeaveUntalks, LastOutStops,
       sourceVars, sessionVars, historyVars
  <2> QED  BY <2>1, DialStands DEF DialInv, LineFree, callVars
<1> QED  BY <1>2, <1>3, <1>4, <1>5

\* The API's hangup, which drops whatever dialog the manager holds.
LEMMA DialHangup == ASSUME StreamInv, DialInv, [Next]_vars, Hangup PROVE DialInv'
<1>0. None \notin Leases  BY StandingFacts
<1>1. UNCHANGED <<src, owns, gone>> /\ Robs(None) /\ robbed \subseteq robbed'
  BY DEF Hangup, sessionVars, Robs
<1>2. (RingHungUp /\ UNCHANGED dialled) \/ HangupCall  BY DEF Hangup
<1>3. LineFree'
  BY <1>2 DEF DialInv, LineFree, RingHungUp, HangupCall, HungUp, callVars
<1>4. ASSUME NEW l \in Leases PROVE DialFits(l)'
  <2>1. DialFits(l) /\ (con'[l].pc \in EarlyPCs => con[l].pc \in EarlyPCs)
    BY EarlyMoves DEF DialInv, Leases
  <2>2. dialled = l => dialled' = l \/ l \in robbed'
    BY <1>0, <1>1, <1>2 DEF HangupCall, Robs
  <2> QED  BY <1>1, <2>1, <2>2 DEF DialFits
<1> QED  BY <1>3, <1>4 DEF DialInv

\* Every step.
LEMMA DialNext ==
    ASSUME StreamInv, DialInv, [Next]_vars
    PROVE  DialInv'
<1>1. CASE LineMoves
  <2>1. UNCHANGED <<src, dialled, owns, gone, robbed>>
    BY <1>1 DEF LineMoves, sourceVars, sessionVars
  <2>2. dialled # None => ringing' = None /\ answered' = None
    BY <1>1 DEF LineMoves, DialInv, LineFree, Rings, RingEnded, Declined, Answered, HungUp
  <2> QED  BY <2>1, <2>2, DialStands
<1>2. CASE \/ PromotionEnds \/ DrainStep \/ HangupStep \/ UNCHANGED vars \/ ObserveControlStop
           \/ \E track \in Tracks : ObserveControlTrack(track)
           \/ \E l \in Leases : Reconcile(l)
           \/ \E c \in Consumers : ProbesRinging(c) \/ JoinTimesOut(c) \/ StartTimesOut(c)
                                     \/ Talk(c) \/ \E by \in {"released", "left"} : Leave(c, by)
  <2>1. UNCHANGED <<ringing, answered, src, dialled, owns, gone, robbed>>
    BY <1>2 DEF PromotionEnds, DrainStep, HangupStep, Deliver, Delivered, DrainStops,
       DrainWaits, EndCall, EndCallStops, EndCallWaits, ObserveControlStop,
       ObserveControlTrack, Reconcile, ProbesRinging, JoinTimesOut, StartTimesOut, Talk,
       Leave, vars, callVars, sourceVars, sessionVars, historyVars
  <2> QED  BY <2>1, DialStands DEF DialInv, LineFree
<1> QED
  BY <1>1, <1>2, DialStarts, DialEnds, DialConsumers, DialHangup DEF Next, Environment, Rest

\* A teardown that waits for its source goes on when the source has closed, and
\* nobody else moves it: stop finds its lease stopping.
LEMMA AwaitEnds ==
    ASSUME StreamInv, [Next]_vars, NEW l \in Leases, td[l].pc = "await", td'[l].pc = "reset"
    PROVE  SourceClosed(l)
<1>0. td \in [Leases -> Teardowns] /\ (co.lease = l => co.stopping)
  BY StandingFacts DEF StreamInv, EveryTeardownFits, TeardownFits, ClosesFirst
<1>1. ASSUME NEW m \in Leases, NEW cause, BeginStop(m, cause), CanStop(m) PROVE FALSE
  BY <1>0, <1>1 DEF BeginStop, CanStop, Teardowns
<1>2. ASSUME NEW m, NEW cause, Stop(m, cause), m \in Leases PROVE FALSE
  BY <1>0, <1>1, <1>2 DEF Stop
<1>3. ASSUME td' = td PROVE FALSE  BY <1>3
<1>4. ASSUME NEW m \in Leases, TeardownStep(m) PROVE SourceClosed(l)
  BY <1>0, <1>4 DEF TeardownStep, CloseSource, SourceClosed, TeardownResets,
     TeardownObserved, TeardownTells, Teardowns
<1>5. ASSUME NEW c \in Consumers, ConsumerStep(c) PROVE FALSE
  <2>1. con[c].pc = "lastOut" => con[c].lease \in Leases
    BY Types DEF StreamInv, EveryConsumerFits, ConsumerFits, HasLease, ConsumerSteps, BeforePCs
  <2>2. CASE StartStopped(c) \/ LastOutStops(c)
    BY <1>2, <2>1, <2>2 DEF StartStopped, LastOutStops, At, Leases
  <2>3. CASE ~(StartStopped(c) \/ LastOutStops(c))
    BY <1>3, <1>5, <2>3 DEF ConsumerStep, ProbesAnswered, Reserve, JoinAdds, JoinFails,
       AddsItself, MakesSource, AbortResets, AbortObserved, AttachSource, LaunchSource,
       StartReturns, ProbesAnsweredAgain, FinishStart, AnnounceStart, StartObserved,
       LeaveRemoves, LeaveUntalks
  <2> QED  BY <2>2, <2>3
<1>6. ASSUME NEW m \in Leases, RemoteBYE(m) \/ SourceFailure(m) \/ Reconcile(m) PROVE FALSE
  BY <1>1, <1>2, <1>3, <1>6 DEF RemoteBYE, SourceFailure, SourceEvent, Reconcile
<1>7. ASSUME \/ PromotionEnds \/ ObserveControlStop \/ DrainStep \/ HangupStep
      PROVE  FALSE
  <2>1. /\ co.lease \in Leases \cup {None} /\ (co.promoting => co.lease # None)
        /\ drain.pc = "stop" => drain.lease \in Leases
        /\ hanger.pc = "stop" => hanger.lease \in Leases
    BY StandingFacts DEF FieldsAgree, AgentsNameLease, Fields, Drains, Hangers
  <2>2. CASE PromotionEnds  BY <1>2, <1>3, <2>1, <2>2 DEF PromotionEnds
  <2>3. CASE ObserveControlStop  BY <1>2, <1>3, <2>1, <2>3 DEF ObserveControlStop
  <2>4. CASE DrainStep
    BY <1>2, <1>3, <2>1, <2>4 DEF DrainStep, Deliver, DrainStops, DrainWaits
  <2>5. CASE HangupStep
    BY <1>2, <1>3, <2>1, <2>5 DEF HangupStep, EndCall, EndCallStops, EndCallWaits
  <2> QED  BY <1>7, <2>2, <2>3, <2>4, <2>5
<1>8. ASSUME \/ \E m \in Leases : SourceStep(m)
             \/ \E track \in Tracks : ObserveControlTrack(track)
             \/ \E c \in Consumers : ProbesRinging(c) \/ JoinTimesOut(c) \/ StartTimesOut(c)
                                       \/ Talk(c) \/ \E by \in {"released", "left"} : Leave(c, by)
             \/ Hangup \/ LineMoves \/ UNCHANGED vars
      PROVE  FALSE
  BY <1>3, <1>8 DEF SourceStep, SourceStarts, SourceJoinsCall, SourceAsks, SourceUp,
     SourceFails, ObserveControlTrack, ProbesRinging, JoinTimesOut, StartTimesOut, Talk,
     Leave, Hangup, LineMoves, vars
<1> QED  BY <1>4, <1>5, <1>6, <1>7, <1>8 DEF Next, Environment, Rest

\* One step of a teardown that is not a release, of a source whose dialog nobody
\* else dropped.
LEMMA TeardownSpares ==
    ASSUME StreamInv, DialInv, [Next]_vars, NEW l \in Leases,
           td[l].pc = "await", td'[l].pc = "reset", td[l].cause # "released",
           td[l].source \notin robbed
    PROVE  answered' = answered
<1>1. SourceClosed(l)  BY AwaitEnds
<1>2. td[l].source \in Leases /\ None \notin Leases
  BY <1>1, StandingFacts DEF SourceClosed, StreamInv, EveryTeardownFits, TeardownFits,
     ShutsSource, TypeOK, StreamType
<1>3. CASE UNCHANGED callVars  BY <1>3 DEF callVars
<1>4. CASE ~UNCHANGED callVars
  <2>1. /\ HangupCall /\ src[td[l].source] = "up" /\ td[l].source \in owns \ gone
    BY <1>1, <1>4 DEF SourceClosed, callVars
  <2>2. dialled = td[l].source  BY <1>2, <2>1 DEF DialInv, DialFits, CallSteps
  <2> QED  BY <1>2, <1>4, <2>1, <2>2 DEF HangupCall
<1> QED  BY <1>3, <1>4

\* Whoever shares the stream and whatever happens to it, hangups through the API
\* and BYEs included: a teardown that no release asked for leaves the answered call
\* alone, as long as nobody else dropped the dialog its source had dialled
\* (stopCause, SourceSession.Close, Manager.HangupCall).
THEOREM StreamEndsOnlyItsOwnDialog == Spec => EndsOnlyItsOwnDialog
<1>1. Init => DialInv
  BY NoneAssumption DEF Init, CallInit, DialInv, LineFree, DialFits, CallSteps
<1>2. StreamInv /\ DialInv /\ [Next]_vars => DialInv'
  BY DialNext
<1>3. StreamInv /\ DialInv /\ [Next]_vars =>
        [\A l \in Leases :
            (/\ td[l].pc = "await" /\ td'[l].pc = "reset" /\ td[l].cause # "released"
             /\ td[l].source \notin robbed)
                => answered' = answered]_vars
  BY TeardownSpares
<1> QED
  BY <1>1, <1>2, <1>3, StreamInitInv, StreamNextInv, PTL DEF Spec, EndsOnlyItsOwnDialog

-----------------------------------------------------------------------------
(* What the mapping to SharedStream needs besides StreamInv *)

\* Where a consumer is on the stream of its lease.
OnPCs ==
    (StartPCs \ {"reserved"}) \cup
    {"finishing", "announcing", "observing", "abortObserving", "holding", "leaving"}

\* Consumer c at r: it has a lease once it has reserved, and the fan-out of a lease
\* that is over is closed;
LeaseOver(c, r, k, F) ==
    /\ r.pc \in BeforePCs => r.lease = None
    /\ r.lease = c /\ k.lease # c => F[c].closed

\* its stream starts until its startup is over;
StillStarts(c, r, k) == k.lease = c /\ r.pc \in StartPCs \cup {"finishing"} => k.starting

\* it is on the stream of its lease and on no other, and on another's only once
\* that is up;
OnItsStream(c, r, F, S) ==
    /\ \A l \in Leases :
          c \in F[l].members => /\ r.lease = l /\ r.pc \notin BeforePCs \cup {"joining", "reserved"}
                                /\ l # c => S[l] = "up"
    /\ r.pc \in OnPCs => c \in F[r.lease].members

\* and a fan-out is closed, and a source made, for a lease that was reserved.
MadeForLease(c, r, F, step, cb) ==
    F[c].closed \/ step # "none" \/ cb = c => r.lease = c

LifeFits(c, r, k, F, S, step, cb) ==
    /\ LeaseOver(c, r, k, F) /\ StillStarts(c, r, k)
    /\ OnItsStream(c, r, F, S) /\ MadeForLease(c, r, F, step, cb)

\* A lease that somebody has was reserved by the consumer it is named after.
LeasesReserved ==
    \A c \in Consumers : con[c].lease # None => con[con[c].lease].lease = con[c].lease

EveryLifeFits ==
    \A c \in Consumers : LifeFits(c, con[c], co, fan, startup, src[c], callback)

LifeInv == LeasesReserved /\ EveryLifeFits

\* A consumer that does not move.
LEMMA BystanderLives ==
    ASSUME NEW c, NEW r, NEW k, NEW F, NEW S, NEW step, NEW cb,
           NEW k2, NEW F2, NEW S2, NEW step2, NEW cb2,
           LifeFits(c, r, k, F, S, step, cb),
           r.lease = c /\ k2.lease # c => k.lease # c \/ F2[c].closed,
           k2.lease = c => k.lease = c /\ (k.starting => k2.starting),
           \A l \in Leases : c \in F2[l].members <=> c \in F[l].members,
           r.lease \in Leases \cup {None},
           r.pc \in OnPCs => r.lease # None,
           F[c].closed => F2[c].closed,
           F2[c].closed => F[c].closed \/ r.lease = c,
           \A l \in Leases : S[l] = "up" => S2[l] = "up",
           step2 # "none" => step # "none" \/ r.lease = c,
           cb2 = c => cb = c \/ r.lease = c
    PROVE  LifeFits(c, r, k2, F2, S2, step2, cb2)
<1>1. LeaseOver(c, r, k2, F2)  BY DEF LifeFits, LeaseOver
<1>2. StillStarts(c, r, k2)  BY DEF LifeFits, StillStarts
<1>3. OnItsStream(c, r, F2, S2)  BY DEF LifeFits, OnItsStream
<1>4. MadeForLease(c, r, F2, step2, cb2)  BY DEF LifeFits, MadeForLease
<1> QED  BY <1>1, <1>2, <1>3, <1>4 DEF LifeFits

\* What is known of a consumer.
LEMMA LifeFacts ==
    ASSUME StreamInv, LifeInv, NEW c \in Consumers
    PROVE  /\ con \in [Consumers -> ConsumerSteps] /\ con[c] \in ConsumerSteps
           /\ con[c].lease \in Leases \cup {None} /\ con[c].pc \in ConsumerPCs
           /\ con[c].pc \in OnPCs => con[c].lease # None
           /\ ConsumerFits(c, con[c], co, fan, startup, Unheard)
           /\ LifeFits(c, con[c], co, fan, startup, src[c], callback)
           /\ con[c].lease # None =>
                 con[c].lease \in Consumers /\ con[con[c].lease].lease = con[c].lease
           /\ None \notin Leases /\ c \in Leases
<1>1. con \in [Consumers -> ConsumerSteps] /\ None \notin Leases
  BY Types, StandingFacts DEF StreamInv
<1>2. con[c].lease \in Leases \cup {None} /\ con[c].pc \in ConsumerPCs  BY <1>1 DEF ConsumerSteps
<1>3. ConsumerFits(c, con[c], co, fan, startup, Unheard)  BY DEF StreamInv, EveryConsumerFits
<1>4. con[c].pc \in OnPCs => con[c].lease # None
  BY <1>3 DEF ConsumerFits, HasLease, OnPCs, StartPCs, BeforePCs
<1> QED
  BY <1>1, <1>2, <1>3, <1>4 DEF LifeInv, EveryLifeFits, LeasesReserved, Leases

\* A step of a consumer that neither takes a lease nor goes on or off a stream.
PCKeeps(pc, pc2) ==
    /\ pc2 \in BeforePCs => pc \in BeforePCs
    /\ pc2 \in BeforePCs \cup {"joining", "reserved"} => pc \in BeforePCs \cup {"joining", "reserved"}
    /\ pc2 \in StartPCs \cup {"finishing"} => pc \in StartPCs \cup {"finishing"}
    /\ pc2 \in OnPCs => pc \in OnPCs

\* Consumer c moves to r2 and keeps its lease; nobody goes on or off a stream, and
\* the coordinator at most lets go of a lease whose fan-out it closes.
LEMMA LivesMove ==
    ASSUME StreamInv, LifeInv, NEW c \in Consumers, NEW r2, con' = [con EXCEPT ![c] = r2],
           r2.lease = con[c].lease, PCKeeps(con[c].pc, r2.pc),
           co'.lease \in {co.lease, None}, co'.lease # co.lease => fan'[co.lease].closed,
           co'.lease # None /\ co.starting =>
               co'.starting \/ (co'.lease = c /\ r2.pc \notin StartPCs \cup {"finishing"}),
           \A l \in Leases : fan'[l].members = fan[l].members,
           \A l \in Leases : fan[l].closed => fan'[l].closed,
           \A l \in Leases : fan'[l].closed => fan[l].closed \/ con[l].lease = l,
           \A l \in Leases : startup[l] = "up" => startup'[l] = "up",
           \A l \in Leases : src'[l] # "none" => src[l] # "none" \/ con[l].lease = l,
           callback' = callback \/ (con[callback'].lease = callback' /\ callback' \in Leases)
    PROVE  LifeInv'
<1>0. /\ con \in [Consumers -> ConsumerSteps] /\ c \in Leases /\ None \notin Leases
      /\ con[c].lease \in Leases \cup {None} /\ (con[c].pc \in OnPCs => con[c].lease # None)
      /\ LifeFits(c, con[c], co, fan, startup, src[c], callback)
  BY LifeFacts
<1>1. \A d \in Consumers : con'[d].lease = con[d].lease  BY <1>0
<1>2. LeasesReserved'
  <2> SUFFICES ASSUME NEW d \in Consumers, con'[d].lease # None
               PROVE  con'[con'[d].lease].lease = con'[d].lease
    BY DEF LeasesReserved
  <2>1. con[d].lease \in Consumers /\ con[con[d].lease].lease = con[d].lease
    BY <1>1, LifeFacts
  <2> QED  BY <1>1, <2>1
<1>3. LifeFits(c, r2, co', fan', startup', src'[c], callback')
  <2>1. LeaseOver(c, r2, co', fan')
    BY <1>0 DEF LifeFits, LeaseOver, PCKeeps
  <2>2. StillStarts(c, r2, co')
    BY <1>0 DEF LifeFits, StillStarts, PCKeeps
  <2>3. OnItsStream(c, r2, fan', startup')
    BY <1>0 DEF LifeFits, OnItsStream, PCKeeps
  <2>4. MadeForLease(c, r2, fan', src'[c], callback')
    BY <1>0 DEF LifeFits, MadeForLease
  <2> QED  BY <2>1, <2>2, <2>3, <2>4 DEF LifeFits
<1>4. ASSUME NEW d \in Consumers, d # c
      PROVE  LifeFits(d, con[d], co', fan', startup', src'[d], callback')
  <2>1. /\ LifeFits(d, con[d], co, fan, startup, src[d], callback) /\ d \in Leases
        /\ con[d].lease \in Leases \cup {None} /\ (con[d].pc \in OnPCs => con[d].lease # None)
    BY LifeFacts
  <2>2. con[d].lease = d /\ co'.lease # d => co.lease # d \/ fan'[d].closed  OBVIOUS
  <2>3. co'.lease = d => co.lease = d /\ (co.starting => co'.starting)
    BY <1>0, <1>4, <2>1
  <2>4. callback' = d => callback = d \/ con[d].lease = d  OBVIOUS
  <2> QED  BY <2>1, <2>2, <2>3, <2>4, BystanderLives
<1>5. EveryLifeFits'
  <2> SUFFICES ASSUME NEW d \in Consumers
               PROVE  LifeFits(d, con'[d], co', fan', startup', src'[d], callback')
    BY DEF EveryLifeFits
  <2> QED  BY <1>0, <1>3, <1>4
<1> QED  BY <1>2, <1>5 DEF LifeInv

-----------------------------------------------------------------------------
(* A step of the coordinator is one of the shared stream, or none *)

StreamLives == [l \in Leases |-> Life(l)]
StreamMembers == [l \in Leases |-> fan[l].members]
ShareStep == Share!ShareNext \/ UNCHANGED <<StreamLives, StreamMembers, told>>

\* The stages of the streams, before and after a step.
LEMMA LivesChange ==
    ASSUME NEW l \in Leases, NEW stage, Life(l)' = stage,
           \A m \in Leases : m # l => Life(m)' = Life(m)
    PROVE  StreamLives' = [StreamLives EXCEPT ![l] = stage]
BY DEF StreamLives

\* No stage changes.
LEMMA LivesSame ==
    ASSUME \A m \in Leases : Life(m)' = Life(m)
    PROVE  StreamLives' = StreamLives
BY DEF StreamLives

\* Nobody hears, joins, leaves or reserves, and no stream moves.
LEMMA ShareStutters ==
    ASSUME \A l \in Leases : fan'[l] = fan[l], told' = told,
           \A l \in Leases : con'[l].lease = l <=> con[l].lease = l,
           \A l \in Leases : co'.lease = l <=> co.lease = l,
           co.lease \in Leases => co'.starting = co.starting
    PROVE  ShareStep
<1>1. \A m \in Leases : Life(m)' = Life(m)  BY DEF Life
<1>2. StreamMembers' = StreamMembers  BY DEF StreamMembers
<1> QED  BY <1>1, <1>2, LivesSame DEF ShareStep

\* What stop does to the fields that a stream's stage depends on.
LEMMA StopCloses ==
    ASSUME StreamInv, LifeInv, NEW l \in Leases, NEW cause, Stop(l, cause)
    PROVE  /\ co'.lease = co.lease /\ co'.starting = co.starting
           /\ \A m \in Leases : /\ fan'[m].members = fan[m].members
                                /\ fan[m].closed => fan'[m].closed
                                /\ fan'[m].closed => fan[m].closed \/ con[m].lease = m
                                /\ m # l => fan'[m] = fan[m]
           /\ fan' = fan \/ (fan'[l].closed /\ co.lease = l /\ con[l].lease = l)
<1>0. co \in Fields /\ fan \in [Leases -> Fan] /\ None \notin Leases  BY StandingFacts
<1>1. CASE CanStop(l)
  <2>1. con[l].lease = l /\ co.lease = l
    BY <1>1, ConsumerFacts DEF CanStop, ConsumerFits, OwnsLease, Leases
  <2>2. fan' = [fan EXCEPT ![l].closed = TRUE]  BY <1>1 DEF Stop, BeginStop, Closes
  <2>3. /\ fan'[l].closed /\ fan'[l].members = fan[l].members
        /\ \A m \in Leases : m # l => fan'[m] = fan[m]
    BY <1>0, <2>2 DEF Fan
  <2>4. co'.lease = co.lease /\ co'.starting = co.starting
    BY <1>0, <1>1 DEF Stop, BeginStop, Fields
  <2> QED  BY <2>1, <2>3, <2>4
<1>2. CASE ~CanStop(l)  BY <1>2 DEF Stop
<1> QED  BY <1>1, <1>2

\* stop ends a stream that has not ended yet.
LEMMA StopShares ==
    ASSUME StreamInv, LifeInv, NEW l \in Leases, NEW cause, Stop(l, cause), told' = told,
           \A m \in Leases : con'[m].lease = con[m].lease
    PROVE  ShareStep
<1>1. /\ co'.lease = co.lease /\ co'.starting = co.starting
      /\ \A m \in Leases : /\ fan'[m].members = fan[m].members
                           /\ fan[m].closed => fan'[m].closed
                           /\ m # l => fan'[m] = fan[m]
      /\ fan' = fan \/ (fan'[l].closed /\ co.lease = l /\ con[l].lease = l)
  BY StopCloses
<1>2. StreamMembers' = StreamMembers  BY <1>1 DEF StreamMembers
<1>3. CASE fan' = fan  BY <1>1, <1>3, ShareStutters
<1>4. CASE fan[l].closed /\ fan'[l].closed
  <2>1. \A m \in Leases : Life(m)' = Life(m)  BY <1>1, <1>4 DEF Life
  <2> QED  BY <1>2, <2>1, LivesSame DEF ShareStep
<1>5. CASE ~fan[l].closed /\ fan'[l].closed /\ co.lease = l /\ con[l].lease = l
  <2>1. Life(l)' = "ending" /\ Life(l) \in {"starting", "live"}  BY <1>1, <1>5 DEF Life
  <2>2. \A m \in Leases : m # l => Life(m)' = Life(m)  BY <1>1 DEF Life
  <2>3. StreamLives' = [StreamLives EXCEPT ![l] = "ending"]  BY <2>1, <2>2, LivesChange
  <2>4. Share!Ends(l)
    BY <1>2, <2>1, <2>3 DEF Share!Ends, Share!Lives, StreamLives, StreamMembers
  <2> QED  BY <2>4 DEF ShareStep, Share!ShareNext, Leases
<1> QED  BY <1>1, <1>3, <1>4, <1>5

\* What finishStop does to them.
LEMMA ResetCloses ==
    ASSUME StreamInv, LifeInv, NEW l \in Leases, ResetFields(l)
    PROVE  \/ UNCHANGED <<co, fan, startup>> /\ co.lease # l
           \/ /\ co.lease = l /\ con[l].lease = l /\ co'.lease = None /\ ~co'.starting
              /\ fan'[l].closed /\ fan'[l].members = fan[l].members
              /\ \A m \in Leases : m # l => fan'[m] = fan[m]
              /\ \A m \in Leases : startup[m] = "up" => startup'[m] = "up"
<1>0. /\ co \in Fields /\ fan \in [Leases -> Fan] /\ startup \in [Leases -> Startups]
  BY Types DEF StreamInv
<1>1. CASE co.lease = l
  <2>1. con[l].lease = l
    BY <1>1, ConsumerFacts DEF ConsumerFits, OwnsLease, Leases
  <2>2. /\ fan' = [fan EXCEPT ![l].closed = TRUE]
        /\ startup' = [startup EXCEPT ![l] = IF startup[l] = "pending" THEN "stopped" ELSE startup[l]]
        /\ co'.lease = None /\ ~co'.starting
    BY <1>1 DEF ResetFields, Closes, IdleFields
  <2>3. /\ fan'[l].closed /\ fan'[l].members = fan[l].members
        /\ \A m \in Leases : m # l => fan'[m] = fan[m]
    BY <1>0, <2>2 DEF Fan
  <2>4. \A m \in Leases : startup[m] = "up" => startup'[m] = "up"  BY <1>0, <2>2
  <2> QED  BY <1>1, <2>1, <2>2, <2>3, <2>4
<1>2. CASE co.lease # l  BY <1>2 DEF ResetFields
<1> QED  BY <1>1, <1>2

\* finishStop frees the source: after stop, or because none could be made.
LEMMA ResetShares ==
    ASSUME StreamInv, LifeInv, NEW l \in Leases, ResetFields(l), told' = told,
           \A m \in Leases : con'[m].lease = con[m].lease,
           co.lease = l => fan[l].closed \/ (co.starting /\ fan[l].members \subseteq {l})
    PROVE  ShareStep
<1>0. None \notin Leases  BY StandingFacts
<1>1. CASE UNCHANGED <<co, fan, startup>>  BY <1>1, ShareStutters
<1>2. CASE /\ co.lease = l /\ con[l].lease = l /\ co'.lease = None
           /\ fan'[l].closed /\ fan'[l].members = fan[l].members
           /\ \A m \in Leases : m # l => fan'[m] = fan[m]
  <2>1. StreamMembers' = StreamMembers  BY <1>2 DEF StreamMembers
  <2>2. Life(l)' = "over" /\ \A m \in Leases : m # l => Life(m)' = Life(m)
    BY <1>0, <1>2 DEF Life
  <2>3. StreamLives' = [StreamLives EXCEPT ![l] = "over"]  BY <2>2, LivesChange
  <2>4. CASE fan[l].closed
    <3>1. Life(l) = "ending"  BY <1>2, <2>4 DEF Life
    <3>2. Share!Frees(l)
      BY <2>1, <2>3, <3>1 DEF Share!Frees, Share!Lives, StreamLives, StreamMembers
    <3> QED  BY <3>2 DEF ShareStep, Share!ShareNext, Leases
  <2>5. CASE ~fan[l].closed /\ co.starting /\ fan[l].members \subseteq {l}
    <3>1. Life(l) = "starting"  BY <1>2, <2>5 DEF Life
    <3>2. Share!Aborts(l)
      BY <2>1, <2>3, <2>5, <3>1 DEF Share!Aborts, Share!Lives, StreamLives, StreamMembers
    <3> QED  BY <3>2 DEF ShareStep, Share!ShareNext, Leases
  <2> QED  BY <1>2, <2>4, <2>5
<1> QED  BY <1>1, <1>2, ResetCloses

\* The consumers of a stream that has ended hear of it.
LEMMA TellShares ==
    ASSUME StreamInv, LifeInv, NEW l \in Leases, Tells(l), UNCHANGED <<co, fan>>,
           \A m \in Leases : con'[m].lease = con[m].lease,
           con[l].lease = l, co.lease = l => fan[l].closed
    PROVE  ShareStep
<1>1. \A m \in Leases : Life(m)' = Life(m)  BY DEF Life
<1>2. StreamMembers' = StreamMembers /\ StreamLives' = StreamLives
  BY <1>1, LivesSame DEF StreamMembers
<1>3. Life(l) \in {"ending", "over"}  BY DEF Life
<1>4. Share!HearsOfEnd(l)
  BY <1>2, <1>3 DEF Share!HearsOfEnd, StreamLives, StreamMembers, Tells
<1> QED  BY <1>4 DEF ShareStep, Share!ShareNext, Leases

\* A lease that is stopping has its fan-out closed.
LEMMA StoppingClosed ==
    ASSUME StreamInv, co.stopping
    PROVE  co.lease \in Leases /\ fan[co.lease].closed
<1>1. co.lease \in Leases /\ td[co.lease].pc # "none"
  BY StandingFacts DEF FieldsAgree, Fields
<1> QED  BY <1>1 DEF StreamInv, EveryTeardownFits, TeardownFits, ClosesFirst

-----------------------------------------------------------------------------
(* The steps of a consumer *)

\* A consumer moves on and nothing that a stream depends on changes, but for a
\* source made for the consumer's own lease.
LEMMA GoesShares ==
    ASSUME StreamInv, LifeInv, NEW c \in Consumers, NEW r2, con' = [con EXCEPT ![c] = r2],
           r2.lease = con[c].lease, PCKeeps(con[c].pc, r2.pc),
           co'.lease = co.lease, co'.starting = co.starting,
           UNCHANGED <<fan, startup, told>>,
           \A l \in Leases : src'[l] # "none" => src[l] # "none" \/ (l = c /\ con[c].lease = c),
           callback' = callback \/ (callback' = c /\ con[c].lease = c)
    PROVE  LifeInv' /\ ShareStep
<1>0. con \in [Consumers -> ConsumerSteps] /\ c \in Leases  BY LifeFacts
<1>1. \A m \in Leases : con'[m].lease = con[m].lease  BY <1>0 DEF Leases
<1>2. LifeInv'  BY <1>0, LivesMove
<1>3. ShareStep  BY <1>1, ShareStutters
<1> QED  BY <1>2, <1>3

\* The same, for a step that is Goes.
LEMMA GoesOnShares ==
    ASSUME StreamInv, LifeInv, NEW c \in Consumers, NEW pc \in ConsumerPCs, Goes(c, pc),
           PCKeeps(con[c].pc, pc),
           co'.lease = co.lease, co'.starting = co.starting,
           UNCHANGED <<fan, startup, told>>,
           \A l \in Leases : src'[l] # "none" => src[l] # "none" \/ (l = c /\ con[c].lease = c),
           callback' = callback \/ (callback' = c /\ con[c].lease = c)
    PROVE  LifeInv' /\ ShareStep
<1> DEFINE r2 == [con[c] EXCEPT !.pc = pc]
<1>1. con \in [Consumers -> ConsumerSteps]  BY LifeFacts
<1>2. con' = [con EXCEPT ![c] = r2] /\ r2.pc = pc /\ r2.lease = con[c].lease
  BY <1>1, GoesMoves
<1> HIDE DEF r2
<1> QED  BY <1>2, GoesShares

\* The probes, the ends of an acquire that got nothing, the waits and the returns.
LEMMA QuietShares ==
    ASSUME StreamInv, LifeInv, NEW c \in Consumers,
           \/ JoinFails(c) \/ JoinTimesOut(c) \/ StartReturns(c) \/ StartTimesOut(c)
           \/ LeaveUntalks(c)
    PROVE  LifeInv' /\ ShareStep
<1>0. con[c].pc \in ConsumerPCs /\ co \in Fields  BY LifeFacts, StandingFacts
<1> USE DEF At, PCKeeps, OnPCs, BeforePCs, StartPCs, ConsumerPCs
<1>1. CASE JoinFails(c) \/ JoinTimesOut(c)
  <2>1. PCKeeps(con[c].pc, "done")  OBVIOUS
  <2> QED  BY <1>1, <2>1, GoesOnShares DEF JoinFails, JoinTimesOut, coordVars, sourceVars
<1>2. CASE StartReturns(c)
  <2>1. PICK pc \in {"started", "failed"} : Goes(c, pc) /\ con[c].pc = "starting"
    BY <1>2 DEF StartReturns
  <2>2. PCKeeps(con[c].pc, pc)  BY <2>1
  <2> QED  BY <1>2, <2>1, <2>2, GoesOnShares DEF StartReturns, coordVars, sourceVars
<1>3. CASE StartTimesOut(c)
  <2>1. PCKeeps(con[c].pc, "timedOut")  BY <1>3 DEF StartTimesOut
  <2> QED  BY <1>3, <2>1, GoesOnShares DEF StartTimesOut, coordVars, sourceVars
<1>4. CASE LeaveUntalks(c)
  <2>1. PICK pc \in {"lastOut", "done"} : Goes(c, pc)  BY <1>4 DEF LeaveUntalks
  <2>2. PCKeeps(con[c].pc, pc)  BY <2>1
  <2>3. co'.lease = co.lease /\ co'.starting = co.starting
    BY <1>0, <1>4 DEF LeaveUntalks, Fields
  <2> QED  BY <1>4, <2>1, <2>2, <2>3, GoesOnShares DEF LeaveUntalks, sourceVars
<1> QED  BY <1>1, <1>2, <1>3, <1>4

\* Steps that note what the consumer saw, or drop what it was going to tell.
LEMMA NotesShare ==
    ASSUME StreamInv, LifeInv, NEW c \in Consumers,
           \/ ProbesRinging(c) \/ ProbesAnswered(c) \/ ProbesAnsweredAgain(c)
           \/ AbortObserved(c) \/ StartObserved(c)
           \/ \E by \in {"released", "left"} : Leave(c, by)
    PROVE  LifeInv' /\ ShareStep
<1>0. con[c] \in ConsumerSteps /\ con \in [Consumers -> ConsumerSteps]  BY LifeFacts
<1>1. PICK r2 : con' = [con EXCEPT ![c] = r2] /\ r2.lease = con[c].lease
                /\ \/ con[c].pc = "idle" /\ r2.pc = "ringProbed"
                   \/ con[c].pc = "ringProbed" /\ r2.pc = "probed"
                   \/ con[c].pc = "started" /\ r2.pc = "finishing"
                   \/ con[c].pc = "abortObserving" /\ r2.pc = "done"
                   \/ con[c].pc = "observing" /\ r2.pc = "holding"
                   \/ con[c].pc = "holding" /\ r2.pc \in {"leaving", "done"}
  <2>1. CASE ProbesRinging(c)
    <3> DEFINE r == [con[c] EXCEPT !.pc = "ringProbed", !.ring = ringing]
    <3>1. con' = [con EXCEPT ![c] = r] /\ r.lease = con[c].lease /\ r.pc = "ringProbed"
      BY <1>0, <2>1 DEF ProbesRinging, ConsumerSteps
    <3> QED  BY <2>1, <3>1 DEF ProbesRinging, At
  <2>2. CASE ProbesAnswered(c)
    <3> DEFINE r == [con[c] EXCEPT !.pc = "probed", !.answered = answered # None]
    <3>1. con' = [con EXCEPT ![c] = r] /\ r.lease = con[c].lease /\ r.pc = "probed"
      BY <1>0, <2>2 DEF ProbesAnswered, ConsumerSteps
    <3> QED  BY <2>2, <3>1 DEF ProbesAnswered, At
  <2>3. CASE ProbesAnsweredAgain(c)
    <3> DEFINE r == [con[c] EXCEPT !.pc = "finishing", !.answered = answered # None]
    <3>1. con' = [con EXCEPT ![c] = r] /\ r.lease = con[c].lease /\ r.pc = "finishing"
      BY <1>0, <2>3 DEF ProbesAnsweredAgain, ConsumerSteps
    <3> QED  BY <2>3, <3>1 DEF ProbesAnsweredAgain, At
  <2>4. CASE AbortObserved(c)
    <3> DEFINE r == [con[c] EXCEPT !.pc = "done", !.snap = Snapshot(IdleFields)]
    <3>1. con' = [con EXCEPT ![c] = r] /\ r.lease = con[c].lease /\ r.pc = "done"
      BY <1>0, <2>4 DEF AbortObserved, ConsumerSteps
    <3> QED  BY <2>4, <3>1 DEF AbortObserved, At
  <2>5. CASE StartObserved(c)
    <3> DEFINE r == [con[c] EXCEPT !.pc = "holding", !.snap = Snapshot(IdleFields)]
    <3>1. con' = [con EXCEPT ![c] = r] /\ r.lease = con[c].lease /\ r.pc = "holding"
      BY <1>0, <2>5 DEF StartObserved, ConsumerSteps
    <3> QED  BY <2>5, <3>1 DEF StartObserved, At
  <2>6. ASSUME NEW by \in {"released", "left"}, Leave(c, by)
        PROVE  \E r : /\ con' = [con EXCEPT ![c] = r] /\ r.lease = con[c].lease
                      /\ con[c].pc = "holding" /\ r.pc \in {"leaving", "done"}
    <3>1. CASE co.lease = con[c].lease
      <4> DEFINE r == [con[c] EXCEPT !.pc = "leaving", !.by = by]
      <4>1. con' = [con EXCEPT ![c] = r] /\ r.lease = con[c].lease /\ r.pc = "leaving"
        BY <1>0, <2>6, <3>1 DEF Leave, ConsumerSteps
      <4> QED  BY <2>6, <4>1 DEF Leave, At
    <3>2. CASE co.lease # con[c].lease
      <4> DEFINE r == [con[c] EXCEPT !.pc = "done"]
      <4>1. con' = [con EXCEPT ![c] = r] /\ r.lease = con[c].lease /\ r.pc = "done"
        BY <1>0, <2>6, <3>2 DEF Leave, Goes, ConsumerSteps
      <4> QED  BY <2>6, <4>1 DEF Leave, At
    <3> QED  BY <3>1, <3>2
  <2> QED  BY <2>1, <2>2, <2>3, <2>4, <2>5, <2>6
<1>2. PCKeeps(con[c].pc, r2.pc)
  BY <1>1 DEF PCKeeps, OnPCs, BeforePCs, StartPCs
<1>3. UNCHANGED <<co, fan, startup, told, src, callback>>
  BY DEF ProbesRinging, ProbesAnswered, ProbesAnsweredAgain, AbortObserved, StartObserved,
     Leave, coordVars, sourceVars
<1> QED  BY <1>1, <1>2, <1>3, GoesShares

\* The source is made, attached and launched, for the consumer's own lease.
LEMMA SourceMadeShares ==
    ASSUME StreamInv, LifeInv, NEW c \in Consumers,
           MakesSource(c) \/ AttachSource(c) \/ LaunchSource(c)
    PROVE  LifeInv' /\ ShareStep
<1>0. con[c].pc \in ConsumerPCs /\ co \in Fields /\ src \in [Leases -> SourceSteps]
  BY LifeFacts, StandingFacts
<1>1. con[c].lease = c
  BY LifeFacts DEF ConsumerFits, HasLease, StartPCs, MakesSource, AttachSource, LaunchSource, At
<1>2. \A l \in Leases : src'[l] # "none" => src[l] # "none" \/ (l = c /\ con[c].lease = c)
  BY <1>0, <1>1 DEF MakesSource, AttachSource, LaunchSource
<1>3. PICK pc \in {"made", "aborting", "attached", "starting", "done"} :
         Goes(c, pc) /\ con[c].pc \in {"added", "made", "attached"}
  BY DEF MakesSource, AttachSource, LaunchSource, At
<1>4. pc \in ConsumerPCs /\ PCKeeps(con[c].pc, pc)
  BY <1>3 DEF PCKeeps, OnPCs, BeforePCs, StartPCs, ConsumerPCs
<1>5. /\ co'.lease = co.lease /\ co'.starting = co.starting
      /\ UNCHANGED <<fan, startup, told>>
      /\ callback' = callback \/ (callback' = c /\ con[c].lease = c)
  BY <1>0, <1>1 DEF MakesSource, AttachSource, LaunchSource, coordVars, Fields
<1> QED  BY <1>2, <1>3, <1>4, <1>5, GoesOnShares

\* The startup failed or timed out, or the last one out stops the stream.
LEMMA ConsumerStopShares ==
    ASSUME StreamInv, LifeInv, NEW c \in Consumers, StartStopped(c) \/ LastOutStops(c)
    PROVE  LifeInv' /\ ShareStep
<1>0. /\ con \in [Consumers -> ConsumerSteps] /\ c \in Leases /\ None \notin Leases
      /\ con[c].lease \in Leases
  BY LifeFacts DEF ConsumerFits, HasLease, BeforePCs, StartStopped, LastOutStops, At
<1>1. PICK l \in Leases : \E cause \in Causes \cup {None} : Stop(l, cause)
  BY <1>0, ConsumerFacts, Types DEF StreamInv, StartStopped, LastOutStops, Causes, ConsumerSteps
<1> DEFINE r2 == [con[c] EXCEPT !.pc = "done"]
<1>2. con' = [con EXCEPT ![c] = r2] /\ r2.pc = "done" /\ r2.lease = con[c].lease
  BY <1>0 DEF StartStopped, LastOutStops, Goes, ConsumerSteps
<1> HIDE DEF r2
<1>3. \A m \in Leases : con'[m].lease = con[m].lease  BY <1>0, <1>2 DEF Leases
<1>4. PCKeeps(con[c].pc, r2.pc)  BY <1>2 DEF PCKeeps, OnPCs, BeforePCs, StartPCs
<1>5. UNCHANGED <<startup, src, callback, told>>
  BY DEF StartStopped, LastOutStops, sourceVars
<1>6. LifeInv'  BY <1>0, <1>1, <1>2, <1>4, <1>5, StopCloses, LivesMove
<1>7. ShareStep  BY <1>1, <1>3, <1>5, StopShares
<1> QED  BY <1>6, <1>7

\* No source could be made: the consumer resets the lease by itself.
LEMMA AbortShares ==
    ASSUME StreamInv, LifeInv, NEW c \in Consumers, AbortResets(c)
    PROVE  LifeInv' /\ ShareStep
<1>0. /\ con \in [Consumers -> ConsumerSteps] /\ con[c] \in ConsumerSteps /\ c \in Leases
      /\ None \notin Leases /\ ConsumerFits(c, con[c], co, fan, startup, Unheard)
      /\ LifeFits(c, con[c], co, fan, startup, src[c], callback)
      /\ fan \in [Leases -> Fan]
  BY LifeFacts, StandingFacts
<1>1. con[c].pc = "aborting" /\ ResetFields(c) /\ UNCHANGED <<src, callback, told>>
  BY DEF AbortResets, At, sourceVars
<1> DEFINE r2 == [con[c] EXCEPT !.pc = "abortObserving", !.snap = SnapshotAfterReset(c)]
<1>2. con' = [con EXCEPT ![c] = r2] /\ r2.pc = "abortObserving" /\ r2.lease = con[c].lease
  BY <1>0 DEF AbortResets, ConsumerSteps
<1> HIDE DEF r2
<1>3. \A m \in Leases : con'[m].lease = con[m].lease  BY <1>0, <1>2 DEF Leases
<1>4. PCKeeps(con[c].pc, r2.pc)  BY <1>1, <1>2 DEF PCKeeps, OnPCs, BeforePCs, StartPCs
<1>5. startup[c] # "up"  BY <1>0, <1>1 DEF ConsumerFits, JoinsLate, HoldPCs
<1>6. fan[c].members \subseteq {c}
  <2> SUFFICES ASSUME NEW d \in fan[c].members, d # c PROVE FALSE  OBVIOUS
  <2>1. d \in Consumers  BY <1>0 DEF Fan
  <2>2. startup[c] = "up"  BY <1>0, <2>1, LifeFacts DEF LifeFits, OnItsStream
  <2> QED  BY <1>5, <2>2
<1>7. co.lease = c => co.starting  BY <1>0, <1>1 DEF LifeFits, StillStarts, StartPCs
<1>8. ShareStep  BY <1>0, <1>1, <1>3, <1>6, <1>7, ResetShares
<1>9. LifeInv'  BY <1>0, <1>1, <1>2, <1>4, ResetCloses, LivesMove
<1> QED  BY <1>8, <1>9

\* The startup is over: the stream is live, unless it is ending.
LEMMA FinishShares ==
    ASSUME StreamInv, LifeInv, NEW c \in Consumers, FinishStart(c)
    PROVE  LifeInv' /\ ShareStep
<1>0. /\ con \in [Consumers -> ConsumerSteps] /\ con[c] \in ConsumerSteps /\ c \in Leases
      /\ None \notin Leases /\ ConsumerFits(c, con[c], co, fan, startup, Unheard)
      /\ LifeFits(c, con[c], co, fan, startup, src[c], callback) /\ co \in Fields
  BY LifeFacts, StandingFacts
<1>1. con[c].pc = "finishing" /\ UNCHANGED <<fan, startup, src, callback, told>>
  BY DEF FinishStart, At, sourceVars
<1>2. CASE co.lease # c
  <2>1. PCKeeps(con[c].pc, "holding") /\ "holding" \in ConsumerPCs
    BY <1>1 DEF PCKeeps, OnPCs, BeforePCs, StartPCs, ConsumerPCs
  <2> QED  BY <1>1, <1>2, <2>1, GoesOnShares DEF FinishStart
<1>3. CASE co.lease = c
  <2> DEFINE r2 == [con[c] EXCEPT !.pc = "announcing", !.answered = FALSE, !.snap = Snapshot(co)]
  <2>1. con' = [con EXCEPT ![c] = r2] /\ r2.pc = "announcing" /\ r2.lease = con[c].lease
    BY <1>0, <1>3 DEF FinishStart, ConsumerSteps
  <2> HIDE DEF r2
  <2>2. co'.lease = c /\ co'.starting = FALSE
    BY <1>0, <1>3 DEF FinishStart, TakePromotion, Fields
  <2>3. PCKeeps(con[c].pc, r2.pc) /\ r2.pc \notin StartPCs \cup {"finishing"}
    BY <1>1, <2>1 DEF PCKeeps, OnPCs, BeforePCs, StartPCs
  <2>4. LifeInv'  BY <1>0, <1>1, <1>3, <2>1, <2>2, <2>3, LivesMove
  <2>5. con[c].lease = c /\ co.starting
    BY <1>0, <1>1, <1>3 DEF ConsumerFits, OwnsLease, LifeFits, StillStarts
  <2>6. \A m \in Leases : con'[m].lease = con[m].lease  BY <1>0, <2>1 DEF Leases
  <2>7. StreamMembers' = StreamMembers  BY <1>1 DEF StreamMembers
  <2>8. CASE fan[c].closed
    <3>1. \A m \in Leases : Life(m)' = Life(m)  BY <1>1, <1>3, <2>2, <2>6, <2>8 DEF Life
    <3> QED  BY <1>1, <2>4, <2>7, <3>1, LivesSame DEF ShareStep
  <2>9. CASE ~fan[c].closed
    <3>1. Life(c)' = "live" /\ Life(c) = "starting"
      BY <1>0, <1>1, <1>3, <2>2, <2>5, <2>6, <2>9 DEF Life
    <3>2. \A m \in Leases : m # c => Life(m)' = Life(m)  BY <1>1, <1>3, <2>2, <2>6 DEF Life
    <3>3. StreamLives' = [StreamLives EXCEPT ![c] = "live"]  BY <1>0, <3>1, <3>2, LivesChange
    <3>4. Share!GoesLive(c)
      BY <1>0, <1>1, <2>7, <3>1, <3>3 DEF Share!GoesLive, Share!Lives, StreamLives, StreamMembers
    <3> QED  BY <2>4, <3>4 DEF ShareStep, Share!ShareNext
  <2> QED  BY <2>8, <2>9
<1> QED  BY <1>2, <1>3

\* ... and whoever waits to join hears of it.
LEMMA AnnounceShares ==
    ASSUME StreamInv, LifeInv, NEW c \in Consumers, AnnounceStart(c)
    PROVE  LifeInv' /\ ShareStep
<1>0. /\ con \in [Consumers -> ConsumerSteps] /\ startup \in [Leases -> Startups] /\ c \in Leases
  BY LifeFacts, Types DEF StreamInv
<1>1. con[c].pc = "announcing" /\ UNCHANGED <<co, fan, src, callback, told>>
  BY DEF AnnounceStart, At, sourceVars
<1> DEFINE r2 == [con[c] EXCEPT !.pc = "observing"]
<1>2. con' = [con EXCEPT ![c] = r2] /\ r2.pc = "observing" /\ r2.lease = con[c].lease
  BY <1>0 DEF AnnounceStart, Goes, ConsumerSteps
<1> HIDE DEF r2
<1>3. \A m \in Leases : con'[m].lease = con[m].lease  BY <1>0, <1>2 DEF Leases
<1>4. PCKeeps(con[c].pc, r2.pc)  BY <1>1, <1>2 DEF PCKeeps, OnPCs, BeforePCs, StartPCs
<1>5. \A l \in Leases : startup[l] = "up" => startup'[l] = "up"
  BY <1>0 DEF AnnounceStart
<1>6. LifeInv'  BY <1>0, <1>1, <1>2, <1>4, <1>5, LivesMove
<1>7. ShareStep  BY <1>1, <1>3, ShareStutters
<1> QED  BY <1>6, <1>7

\* A consumer gets a stream to join: nothing a consumer sees yet.
LEMMA JoinShares ==
    ASSUME StreamInv, LifeInv, NEW c \in Consumers, NEW r2, con' = [con EXCEPT ![c] = r2],
           con[c].pc = "probed", co.lease # None, r2.pc = "joining", r2.lease = co.lease,
           UNCHANGED <<co, fan, startup, src, callback, told>>
    PROVE  LifeInv' /\ ShareStep
<1>0. /\ con \in [Consumers -> ConsumerSteps] /\ c \in Leases /\ None \notin Leases
      /\ ConsumerFits(c, con[c], co, fan, startup, Unheard)
      /\ LifeFits(c, con[c], co, fan, startup, src[c], callback)
      /\ co.lease \in Leases
  BY LifeFacts, StandingFacts DEF Fields
<1>1. con[c].lease = None /\ co.lease # c
  BY <1>0 DEF ConsumerFits, OwnsLease, LifeFits, LeaseOver, BeforePCs
<1>2. con[co.lease].lease = co.lease
  BY <1>0, ConsumerFacts DEF ConsumerFits, OwnsLease, Leases
<1>3. LeasesReserved'
  <2> SUFFICES ASSUME NEW d \in Consumers, con'[d].lease # None
               PROVE  con'[con'[d].lease].lease = con'[d].lease
    BY DEF LeasesReserved
  <2>1. CASE d = c  BY <1>0, <1>1, <1>2, <2>1 DEF Leases
  <2>2. CASE d # c
    <3>1. con[d].lease \in Consumers /\ con[con[d].lease].lease = con[d].lease
      BY <1>0, <2>2, LifeFacts
    <3>2. con[d].lease # c  BY <1>0, <1>1, <3>1
    <3> QED  BY <1>0, <2>2, <3>1, <3>2
  <2> QED  BY <2>1, <2>2
<1>4. LifeFits(c, r2, co, fan, startup, src[c], callback)
  <2>1. LeaseOver(c, r2, co, fan) /\ StillStarts(c, r2, co)
    BY <1>1 DEF LeaseOver, StillStarts, BeforePCs, StartPCs
  <2>2. OnItsStream(c, r2, fan, startup)
    BY <1>0 DEF LifeFits, OnItsStream, BeforePCs, OnPCs, StartPCs
  <2>3. MadeForLease(c, r2, fan, src[c], callback)
    BY <1>0, <1>1 DEF LifeFits, MadeForLease
  <2> QED  BY <2>1, <2>2, <2>3 DEF LifeFits
<1>5. EveryLifeFits'
  <2> SUFFICES ASSUME NEW d \in Consumers
               PROVE  LifeFits(d, con'[d], co, fan, startup, src[d], callback)
    BY DEF EveryLifeFits
  <2>1. LifeFits(d, con[d], co, fan, startup, src[d], callback)  BY LifeFacts
  <2> QED  BY <1>0, <1>4, <2>1
<1>6. ShareStep
  <2>1. \A l \in Leases : con'[l].lease = l <=> con[l].lease = l  BY <1>0, <1>1 DEF Leases
  <2> QED  BY <2>1, ShareStutters
<1> QED  BY <1>3, <1>5, <1>6 DEF LifeInv

\* A consumer reserves the source.
LEMMA TakeShares ==
    ASSUME StreamInv, LifeInv, NEW c \in Consumers, NEW r2, con' = [con EXCEPT ![c] = r2],
           con[c].pc = "probed", co.lease = None, r2.pc = "reserved", r2.lease = c,
           co'.lease = c, co'.starting,
           UNCHANGED <<fan, startup, src, callback, told>>
    PROVE  LifeInv' /\ ShareStep
<1>0. /\ con \in [Consumers -> ConsumerSteps] /\ c \in Leases /\ None \notin Leases
      /\ ConsumerFits(c, con[c], co, fan, startup, Unheard)
      /\ LifeFits(c, con[c], co, fan, startup, src[c], callback)
  BY LifeFacts
<1>1. con[c].lease = None /\ ~fan[c].closed
  BY <1>0 DEF ConsumerFits, OpenBefore, LifeFits, LeaseOver, BeforePCs
<1>2. LeasesReserved'
  <2> SUFFICES ASSUME NEW d \in Consumers, con'[d].lease # None
               PROVE  con'[con'[d].lease].lease = con'[d].lease
    BY DEF LeasesReserved
  <2>1. CASE d = c  BY <1>0, <2>1
  <2>2. CASE d # c
    <3>1. con[d].lease \in Consumers /\ con[con[d].lease].lease = con[d].lease
      BY <1>0, <2>2, LifeFacts
    <3> QED  BY <1>0, <2>2, <3>1
  <2> QED  BY <2>1, <2>2
<1>3. LifeFits(c, r2, co', fan, startup, src[c], callback)
  <2>1. LeaseOver(c, r2, co', fan) /\ StillStarts(c, r2, co')
    BY DEF LeaseOver, StillStarts, BeforePCs
  <2>2. OnItsStream(c, r2, fan, startup)
    BY <1>0 DEF LifeFits, OnItsStream, BeforePCs, OnPCs, StartPCs
  <2>3. MadeForLease(c, r2, fan, src[c], callback)  BY DEF MadeForLease
  <2> QED  BY <2>1, <2>2, <2>3 DEF LifeFits
<1>4. ASSUME NEW d \in Consumers, d # c
      PROVE  LifeFits(d, con[d], co', fan, startup, src[d], callback)
  <2>1. /\ LifeFits(d, con[d], co, fan, startup, src[d], callback) /\ d \in Leases
        /\ con[d].lease \in Leases \cup {None} /\ (con[d].pc \in OnPCs => con[d].lease # None)
    BY LifeFacts
  <2>2. co'.lease # d /\ co.lease # d  BY <1>0, <1>4, <2>1
  <2> QED  BY <2>1, <2>2, BystanderLives
<1>5. EveryLifeFits'
  <2> SUFFICES ASSUME NEW d \in Consumers
               PROVE  LifeFits(d, con'[d], co', fan, startup, src[d], callback)
    BY DEF EveryLifeFits
  <2> QED  BY <1>0, <1>3, <1>4
<1>6. ShareStep
  <2>1. Life(c) = "none" /\ Life(c)' = "starting"  BY <1>0, <1>1 DEF Life
  <2>2. \A m \in Leases : Life(m) \in {"none", "over"}  BY <1>0 DEF Life
  <2>3. \A m \in Leases : m # c => Life(m)' = Life(m)  BY <1>0 DEF Life, Leases
  <2>4. StreamLives' = [StreamLives EXCEPT ![c] = "starting"]
    BY <1>0, <2>1, <2>3, LivesChange
  <2>5. Share!Reserves(c)
    BY <1>0, <2>1, <2>2, <2>4
       DEF Share!Reserves, Share!Lives, StreamLives, StreamMembers, Leases
  <2> QED  BY <2>5 DEF ShareStep, Share!ShareNext
<1> QED  BY <1>2, <1>5, <1>6 DEF LifeInv

\* reserve: refused, sent to join, or given the lease.
LEMMA ReserveShares ==
    ASSUME StreamInv, LifeInv, NEW c \in Consumers, Reserve(c)
    PROVE  LifeInv' /\ ShareStep
<1>0. /\ con \in [Consumers -> ConsumerSteps] /\ con[c] \in ConsumerSteps
      /\ con[c].pc = "probed" /\ UNCHANGED <<fan, startup, src, callback, told>>
  BY LifeFacts DEF Reserve, At, sourceVars
<1>1. CASE Goes(c, "done") /\ UNCHANGED co
  <2>1. PCKeeps(con[c].pc, "done") /\ "done" \in ConsumerPCs
    BY DEF PCKeeps, OnPCs, BeforePCs, StartPCs, ConsumerPCs
  <2> QED  BY <1>0, <1>1, <2>1, GoesOnShares
<1>2. CASE /\ Joins(c) /\ UNCHANGED co
           /\ con' = [con EXCEPT ![c].pc = "joining", ![c].lease = co.lease,
                                 ![c].ring = None, ![c].answered = FALSE]
  <2> DEFINE r2 == [con[c] EXCEPT !.pc = "joining", !.lease = co.lease, !.ring = None,
                                  !.answered = FALSE]
  <2>1. con' = [con EXCEPT ![c] = r2] /\ r2.pc = "joining" /\ r2.lease = co.lease
    BY <1>0, <1>2 DEF ConsumerSteps
  <2> HIDE DEF r2
  <2> QED  BY <1>0, <1>2, <2>1, JoinShares DEF Joins
<1>3. CASE /\ co.lease = None /\ co' = NewLease(c)
           /\ con' = [con EXCEPT ![c].pc = "reserved", ![c].lease = c, ![c].answered = FALSE]
  <2> DEFINE r2 == [con[c] EXCEPT !.pc = "reserved", !.lease = c, !.answered = FALSE]
  <2>1. con' = [con EXCEPT ![c] = r2] /\ r2.pc = "reserved" /\ r2.lease = c
    BY <1>0, <1>3 DEF ConsumerSteps
  <2> HIDE DEF r2
  <2>2. co'.lease = c /\ co'.starting  BY <1>3 DEF NewLease, IdleFields
  <2> QED  BY <1>0, <1>3, <2>1, <2>2, TakeShares
<1> QED  BY <1>1, <1>2, <1>3 DEF Reserve

\* A stream whose owner's startup is over is live, as long as it is the current one
\* and open.
LEMMA LiveOnceUp ==
    ASSUME StreamInv, LifeInv, NEW l \in Leases, con[l].lease = l,
           con[l].pc \notin StartPCs \cup {"finishing"}
    PROVE  /\ Life(l) # "starting"
           /\ ~fan[l].closed => co.lease = l /\ Life(l) = "live"
<1>0. /\ ConsumerFits(l, con[l], co, fan, startup, Unheard) /\ co \in Fields
      /\ LifeFits(l, con[l], co, fan, startup, src[l], callback)
  BY LifeFacts, StandingFacts DEF Leases
<1>1. co.lease = l /\ co.starting => co.stopping
  BY <1>0 DEF ConsumerFits, OwnsLease, Fields
<1>2. co.lease = l /\ co.starting => fan[l].closed  BY <1>1, StoppingClosed
<1>3. ~fan[l].closed => co.lease = l  BY <1>0 DEF LifeFits, LeaseOver
<1> QED  BY <1>2, <1>3 DEF Life

\* Consumer c goes on the open stream of its lease.
LEMMA EnterShares ==
    ASSUME StreamInv, LifeInv, NEW c \in Consumers, NEW l \in Leases, con[c].lease = l,
           con[c].pc \in {"joining", "reserved"},
           NEW pc \in {"holding", "added"}, Goes(c, pc), Adds(l, c),
           pc = "added" => con[c].pc = "reserved",
           ~fan[l].closed, Life(l) = IF l = c THEN "starting" ELSE "live",
           l # c => startup[l] = "up", l = c => pc = "added",
           UNCHANGED <<co, startup, src, callback, told>>
    PROVE  LifeInv' /\ ShareStep
<1>0. /\ con \in [Consumers -> ConsumerSteps] /\ c \in Leases /\ None \notin Leases
      /\ LifeFits(c, con[c], co, fan, startup, src[c], callback)
      /\ fan \in [Leases -> Fan]
  BY LifeFacts, StandingFacts
<1> DEFINE r2 == [con[c] EXCEPT !.pc = pc]
<1>a. pc \in ConsumerPCs  BY DEF ConsumerPCs
<1>1. con' = [con EXCEPT ![c] = r2] /\ r2.pc = pc /\ r2.lease = l
  BY <1>0, <1>a, GoesMoves
<1> HIDE DEF r2
<1>2. \A m \in Consumers : con'[m].lease = con[m].lease  BY <1>0, <1>1
<1>3. /\ fan'[l].members = fan[l].members \cup {c}
      /\ \A m \in Leases : fan'[m].closed = fan[m].closed
      /\ \A m \in Leases : m # l => fan'[m] = fan[m]
  BY <1>0 DEF Adds, Fan
<1>4. \A m \in Leases : c \notin fan[m].members
  BY <1>0 DEF LifeFits, OnItsStream
<1>5. LeasesReserved'
  <2> SUFFICES ASSUME NEW d \in Consumers, con'[d].lease # None
               PROVE  con'[con'[d].lease].lease = con'[d].lease
    BY DEF LeasesReserved
  <2>1. con[d].lease \in Consumers /\ con[con[d].lease].lease = con[d].lease
    BY <1>2, LifeFacts
  <2> QED  BY <1>2, <2>1
<1>6. LifeFits(c, r2, co, fan', startup, src[c], callback)
  <2>1. LeaseOver(c, r2, co, fan')
    BY <1>0, <1>1, <1>3 DEF LifeFits, LeaseOver, BeforePCs
  <2>2. StillStarts(c, r2, co)
    BY <1>0, <1>1 DEF LifeFits, StillStarts, StartPCs
  <2>3. OnItsStream(c, r2, fan', startup)
    BY <1>1, <1>3, <1>4 DEF OnItsStream, BeforePCs
  <2>4. MadeForLease(c, r2, fan', src[c], callback)
    BY <1>0, <1>1, <1>3 DEF LifeFits, MadeForLease
  <2> QED  BY <2>1, <2>2, <2>3, <2>4 DEF LifeFits
<1>7. ASSUME NEW d \in Consumers, d # c
      PROVE  LifeFits(d, con[d], co, fan', startup, src[d], callback)
  <2>1. /\ LifeFits(d, con[d], co, fan, startup, src[d], callback) /\ d \in Leases
        /\ con[d].lease \in Leases \cup {None} /\ (con[d].pc \in OnPCs => con[d].lease # None)
    BY LifeFacts
  <2>2. \A m \in Leases : d \in fan'[m].members <=> d \in fan[m].members
    BY <1>3, <1>7
  <2> QED  BY <1>3, <2>1, <2>2, BystanderLives
<1>8. EveryLifeFits'
  <2> SUFFICES ASSUME NEW d \in Consumers
               PROVE  LifeFits(d, con'[d], co, fan', startup, src[d], callback)
    BY DEF EveryLifeFits
  <2> QED  BY <1>0, <1>1, <1>6, <1>7
<1>9. ShareStep
  <2>1. \A m \in Leases : Life(m)' = Life(m)  BY <1>2, <1>3 DEF Life, Leases
  <2>2. StreamLives' = StreamLives  BY <2>1, LivesSame
  <2>3. StreamMembers' = [StreamMembers EXCEPT ![l] = @ \cup {c}]
    BY <1>3 DEF StreamMembers
  <2>4. Share!Enters(c, l)
    BY <1>4, <2>2, <2>3 DEF Share!Enters, StreamLives, StreamMembers, Leases
  <2> QED  BY <2>4 DEF ShareStep, Share!ShareNext, Leases
<1> QED  BY <1>5, <1>8, <1>9 DEF LifeInv

\* The startup is over: the joiner goes on the stream, or finds it closed.
LEMMA JoinAddsShares ==
    ASSUME StreamInv, LifeInv, NEW c \in Consumers, JoinAdds(c)
    PROVE  LifeInv' /\ ShareStep
<1> DEFINE l == con[c].lease
<1>0. /\ con[c].pc = "joining" /\ UNCHANGED <<co, startup, src, callback, told>>
      /\ startup[l] = "up"
  BY DEF JoinAdds, At, sourceVars
<1>1. /\ ConsumerFits(c, con[c], co, fan, startup, Unheard) /\ None \notin Leases
      /\ l \in Leases /\ con[l].lease = l
  BY <1>0, LifeFacts DEF ConsumerFits, HasLease, BeforePCs, Leases
<1>2. l # c  BY <1>0, <1>1 DEF ConsumerFits, JoinsLate, HoldPCs
<1>3. CASE fan[l].closed
  <2>1. PCKeeps(con[c].pc, "done") /\ "done" \in ConsumerPCs
    BY DEF PCKeeps, OnPCs, BeforePCs, StartPCs, ConsumerPCs
  <2> QED  BY <1>0, <1>3, <2>1, GoesOnShares DEF JoinAdds
<1>4. CASE ~fan[l].closed
  <2>1. con[l].pc \notin StartPCs \cup {"finishing"}
    BY <1>0, <1>1, LifeFacts DEF ConsumerFits, JoinsLate, HoldPCs, StartPCs, Leases
  <2>2. Life(l) = "live"  BY <1>1, <1>4, <2>1, LiveOnceUp
  <2>3. Goes(c, "holding") /\ Adds(l, c)  BY <1>4 DEF JoinAdds
  <2> HIDE DEF l
  <2>4. con[c].lease = l  BY DEF l
  <2> QED  BY <1>0, <1>1, <1>2, <1>4, <2>2, <2>3, <2>4, EnterShares
<1> QED  BY <1>3, <1>4

\* The owner goes on its own stream, unless that was stopped before.
LEMMA AddsItselfShares ==
    ASSUME StreamInv, LifeInv, NEW c \in Consumers, AddsItself(c)
    PROVE  LifeInv' /\ ShareStep
<1>0. /\ con[c].pc = "reserved" /\ UNCHANGED <<co, startup, src, callback, told>>
      /\ c \in Leases /\ ConsumerFits(c, con[c], co, fan, startup, Unheard)
      /\ LifeFits(c, con[c], co, fan, startup, src[c], callback)
  BY LifeFacts DEF AddsItself, At, sourceVars
<1>1. con[c].lease = c  BY <1>0 DEF ConsumerFits, HasLease, StartPCs
<1>2. CASE fan[c].closed
  <2>1. PCKeeps(con[c].pc, "done") /\ "done" \in ConsumerPCs
    BY DEF PCKeeps, OnPCs, BeforePCs, StartPCs, ConsumerPCs
  <2> QED  BY <1>0, <1>2, <2>1, GoesOnShares DEF AddsItself
<1>3. CASE ~fan[c].closed
  <2>1. co.lease = c /\ co.starting
    BY <1>0, <1>1, <1>3 DEF LifeFits, LeaseOver, StillStarts, StartPCs
  <2>2. Life(c) = "starting"  BY <1>1, <1>3, <2>1 DEF Life
  <2>3. Goes(c, "added") /\ Adds(c, c)  BY <1>3 DEF AddsItself
  <2> QED  BY <1>0, <1>1, <1>3, <2>2, <2>3, EnterShares
<1> QED  BY <1>2, <1>3

\* A consumer goes off the stream; the last one out closes it.
LEMMA LeaveShares ==
    ASSUME StreamInv, LifeInv, NEW c \in Consumers, LeaveRemoves(c)
    PROVE  LifeInv' /\ ShareStep
<1>l. PICK l \in Leases : con[c].lease = l
  BY LifeFacts DEF ConsumerFits, HasLease, BeforePCs, LeaveRemoves, At
<1> DEFINE rest == fan[l].members \ {c}
<1>0. /\ con[c].pc = "leaving" /\ UNCHANGED <<co, startup, src, callback, told>>
      /\ Removes(l, c)
  BY <1>l DEF LeaveRemoves, At, sourceVars
<1>1. /\ con \in [Consumers -> ConsumerSteps] /\ c \in Leases /\ None \notin Leases
      /\ ConsumerFits(c, con[c], co, fan, startup, Unheard)
      /\ LifeFits(c, con[c], co, fan, startup, src[c], callback)
      /\ con[l].lease = l /\ fan \in [Leases -> Fan]
  BY <1>0, <1>l, LifeFacts, StandingFacts DEF ConsumerFits, HasLease, BeforePCs, Leases
<1>2. c \in fan[l].members  BY <1>0, <1>1, <1>l DEF LifeFits, OnItsStream, OnPCs
<1>3. con[l].pc \notin StartPCs \cup {"finishing"}
  <2>1. CASE l = c  BY <1>0, <2>1 DEF StartPCs
  <2>2. CASE l # c
    <3>1. startup[l] = "up"  BY <1>1, <1>2, <1>l, <2>2 DEF LifeFits, OnItsStream
    <3> QED  BY <1>1, <3>1, LifeFacts DEF ConsumerFits, JoinsLate, HoldPCs, StartPCs, Leases
  <2> QED  BY <2>1, <2>2
<1>4. Life(l) # "starting" /\ (~fan[l].closed => co.lease = l /\ Life(l) = "live")
  BY <1>1, <1>3, LiveOnceUp
<1>5. /\ fan'[l].members = rest /\ fan'[l].closed = (fan[l].closed \/ rest = {})
      /\ \A m \in Leases : m # l => fan'[m] = fan[m]
  BY <1>0, <1>1 DEF Removes
<1>6. PICK pc \in {"untalking", "untalkingLast"} : Goes(c, pc)  BY DEF LeaveRemoves
<1> DEFINE r2 == [con[c] EXCEPT !.pc = pc]
<1>a. pc \in ConsumerPCs  BY DEF ConsumerPCs
<1>7. con' = [con EXCEPT ![c] = r2] /\ r2.pc = pc /\ r2.lease = l
  BY <1>1, <1>6, <1>a, <1>l, GoesMoves
<1> HIDE DEF r2
<1>8. \A m \in Consumers : con'[m].lease = con[m].lease  BY <1>1, <1>7, <1>l
<1>9. LeasesReserved'
  <2> SUFFICES ASSUME NEW d \in Consumers, con'[d].lease # None
               PROVE  con'[con'[d].lease].lease = con'[d].lease
    BY DEF LeasesReserved
  <2>1. con[d].lease \in Consumers /\ con[con[d].lease].lease = con[d].lease
    BY <1>8, LifeFacts
  <2> QED  BY <1>8, <2>1
<1>10. LifeFits(c, r2, co, fan', startup, src[c], callback)
  <2>1. LeaseOver(c, r2, co, fan')
    BY <1>1, <1>l, <1>5, <1>7 DEF LifeFits, LeaseOver, BeforePCs
  <2>2. StillStarts(c, r2, co)  BY <1>7 DEF StillStarts, StartPCs
  <2>3. OnItsStream(c, r2, fan', startup)
    BY <1>1, <1>5, <1>7, <1>l DEF LifeFits, OnItsStream, BeforePCs, OnPCs, StartPCs
  <2>4. MadeForLease(c, r2, fan', src[c], callback)
    BY <1>1, <1>5, <1>7, <1>l DEF LifeFits, MadeForLease
  <2> QED  BY <2>1, <2>2, <2>3, <2>4 DEF LifeFits
<1>11. ASSUME NEW d \in Consumers, d # c
       PROVE  LifeFits(d, con[d], co, fan', startup, src[d], callback)
  <2>1. /\ LifeFits(d, con[d], co, fan, startup, src[d], callback) /\ d \in Leases
        /\ con[d].lease \in Leases \cup {None} /\ (con[d].pc \in OnPCs => con[d].lease # None)
    BY LifeFacts
  <2>2. \A m \in Leases : d \in fan'[m].members <=> d \in fan[m].members
    BY <1>5, <1>l, <1>11
  <2>3. /\ fan[d].closed => fan'[d].closed
        /\ fan'[d].closed => fan[d].closed \/ con[d].lease = d
    BY <1>1, <1>5, <2>1
  <2> QED  BY <2>1, <2>2, <2>3, BystanderLives
<1>12. EveryLifeFits'
  <2> SUFFICES ASSUME NEW d \in Consumers
               PROVE  LifeFits(d, con'[d], co', fan', startup', src'[d], callback')
    BY DEF EveryLifeFits
  <2> QED  BY <1>0, <1>1, <1>7, <1>10, <1>11
<1>13. ShareStep
  <2>1. StreamMembers' = [StreamMembers EXCEPT ![l] = @ \ {c}]
    BY <1>1, <1>5, <1>l DEF StreamMembers
  <2>2. \A m \in Leases : m # l => Life(m)' = Life(m)  BY <1>0, <1>5, <1>8 DEF Life, Leases
  <2>3. rest = {} <=> fan[l].members = {c}  BY <1>2, <1>l
  <2>4. CASE Life(l) = "live" /\ fan[l].members = {c}
    <3>1. Life(l)' = "ending"
      BY <1>0, <1>1, <1>5, <1>8, <2>3, <2>4 DEF Life, Leases
    <3>2. StreamLives' = [StreamLives EXCEPT ![l] = "ending"]
      BY <1>1, <2>2, <3>1, LivesChange
    <3>3. Share!Leaves(c, l)
      BY <1>0, <1>1, <1>2, <2>1, <2>4, <3>2
         DEF Share!Leaves, Share!Lives, StreamLives, StreamMembers
    <3> QED  BY <1>1, <3>3 DEF ShareStep, Share!ShareNext, Leases
  <2>5. CASE ~(Life(l) = "live" /\ fan[l].members = {c})
    <3>1. Life(l)' = Life(l)
      BY <1>0, <1>1, <1>4, <1>5, <1>8, <2>3, <2>5 DEF Life, Leases
    <3>2. StreamLives' = StreamLives  BY <2>2, <3>1, LivesSame
    <3>3. Share!Leaves(c, l)
      BY <1>0, <1>1, <1>2, <1>4, <2>1, <2>5, <3>2
         DEF Share!Leaves, StreamLives, StreamMembers
    <3> QED  BY <1>1, <3>3 DEF ShareStep, Share!ShareNext, Leases
  <2> QED  BY <2>4, <2>5
<1> QED  BY <1>9, <1>12, <1>13 DEF LifeInv

\* Every step of a consumer.
LEMMA ConsumerShares ==
    ASSUME StreamInv, LifeInv, NEW c \in Consumers, ConsumerStep(c)
    PROVE  LifeInv' /\ ShareStep
BY QuietShares, NotesShare, SourceMadeShares, ConsumerStopShares, AbortShares, FinishShares,
   AnnounceShares, ReserveShares, JoinAddsShares, AddsItselfShares, LeaveShares
   DEF ConsumerStep

-----------------------------------------------------------------------------
(* The steps of everybody else *)

\* No consumer moves, and the coordinator keeps its lease.
LEMMA StandShares ==
    ASSUME StreamInv, LifeInv, UNCHANGED <<con, fan, startup, told, callback>>,
           co'.lease = co.lease, co.lease # None => co'.starting = co.starting,
           \A l \in Leases : src'[l] # "none" => src[l] # "none"
    PROVE  LifeInv' /\ ShareStep
<1>1. EveryLifeFits'
  <2> SUFFICES ASSUME NEW d \in Consumers
               PROVE  LifeFits(d, con[d], co', fan, startup, src'[d], callback)
    BY DEF EveryLifeFits
  <2>1. /\ LifeFits(d, con[d], co, fan, startup, src[d], callback) /\ d \in Leases
        /\ con[d].lease \in Leases \cup {None} /\ (con[d].pc \in OnPCs => con[d].lease # None)
        /\ None \notin Leases
    BY LifeFacts
  <2>2. co'.lease = d => co.lease = d /\ (co.starting => co'.starting)  BY <2>1
  <2> QED  BY <2>1, <2>2, BystanderLives
<1>2. LeasesReserved'  BY DEF LifeInv, LeasesReserved
<1>3. ShareStep
  <2>1. None \notin Leases  BY StandingFacts
  <2> QED  BY <2>1, ShareStutters
<1> QED  BY <1>1, <1>2, <1>3 DEF LifeInv

\* Somebody stops a stream without moving as a consumer.
LEMMA StopperShares ==
    ASSUME StreamInv, LifeInv, NEW l \in Leases, NEW cause, Stop(l, cause),
           UNCHANGED <<con, startup, told, callback>>,
           \A m \in Leases : src'[m] # "none" => src[m] # "none"
    PROVE  LifeInv' /\ ShareStep
<1>1. ShareStep  BY StopShares
<1>2. con \in [Consumers -> ConsumerSteps]  BY StandingFacts, Types DEF StreamInv
<1>3. con' = [con EXCEPT ![l] = con[l]] /\ l \in Consumers  BY <1>2 DEF Leases
<1>4. PCKeeps(con[l].pc, con[l].pc)  BY DEF PCKeeps
<1>5. /\ co'.lease = co.lease /\ co'.starting = co.starting
      /\ \A m \in Leases : /\ fan'[m].members = fan[m].members
                           /\ fan[m].closed => fan'[m].closed
                           /\ fan'[m].closed => fan[m].closed \/ con[m].lease = m
  BY StopCloses
<1>6. LifeInv'  BY <1>3, <1>4, <1>5, LivesMove
<1> QED  BY <1>1, <1>6

\* The event of a source: the stream stops, or its consumers hear at once.
LEMMA EventShares ==
    ASSUME StreamInv, LifeInv, NEW l \in Leases, NEW cause, SourceEvent(l, cause),
           src[l] # "none" \/ callback = l,
           UNCHANGED <<con, startup, callback>>,
           \A m \in Leases : src'[m] # "none" => src[m] # "none"
    PROVE  LifeInv' /\ ShareStep
<1>1. CASE CanStop(l)
  <2>1. Stop(l, cause) /\ told' = told  BY <1>1 DEF SourceEvent, Stop
  <2> QED  BY <2>1, StopperShares
<1>2. CASE ~CanStop(l)
  <2>1. Tells(l) /\ UNCHANGED <<co, fan>>  BY <1>2 DEF SourceEvent
  <2>2. con[l].lease = l  BY LifeFacts DEF LifeFits, MadeForLease, Leases
  <2>3. co.lease = l => fan[l].closed  BY <1>2, StoppingClosed DEF CanStop
  <2>4. ShareStep  BY <2>1, <2>2, <2>3, TellShares
  <2>5. con \in [Consumers -> ConsumerSteps]  BY StandingFacts, Types DEF StreamInv
  <2>6. con' = [con EXCEPT ![l] = con[l]] /\ l \in Consumers  BY <2>5 DEF Leases
  <2>7. PCKeeps(con[l].pc, con[l].pc)  BY DEF PCKeeps
  <2>8. LifeInv'  BY <2>1, <2>6, <2>7, LivesMove
  <2> QED  BY <2>4, <2>8
<1> QED  BY <1>1, <1>2

\* A teardown.
LEMMA TeardownShares ==
    ASSUME StreamInv, LifeInv, NEW l \in Leases, TeardownStep(l)
    PROVE  LifeInv' /\ ShareStep
<1>0. /\ src \in [Leases -> SourceSteps] /\ td \in [Leases -> Teardowns] /\ None \notin Leases
      /\ con \in [Consumers -> ConsumerSteps] /\ l \in Consumers
  BY StandingFacts, Types DEF StreamInv, Leases
<1>1. td[l].pc # "none" => fan[l].closed
  BY DEF StreamInv, EveryTeardownFits, TeardownFits, ClosesFirst
<1>2. con' = [con EXCEPT ![l] = con[l]] /\ PCKeeps(con[l].pc, con[l].pc)
  BY <1>0 DEF PCKeeps, TeardownStep, CloseSource, SourceClosed, TeardownResets,
     TeardownObserved, TeardownTells
<1>3. CASE CloseSource(l) \/ TeardownObserved(l)
  BY <1>3, StandShares DEF CloseSource, TeardownObserved, coordVars, sourceVars
<1>4. CASE SourceClosed(l)
  <2>1. \A m \in Leases : src'[m] # "none" => src[m] # "none"
    BY <1>0, <1>4 DEF SourceClosed
  <2> QED  BY <1>4, <2>1, StandShares DEF SourceClosed, coordVars
<1>5. CASE TeardownResets(l)
  <2>1. fan[l].closed /\ ResetFields(l) /\ UNCHANGED <<src, callback, con, told>>
    BY <1>1, <1>5 DEF TeardownResets, sourceVars
  <2>2. ShareStep  BY <2>1, ResetShares
  <2>3. LifeInv'  BY <1>0, <1>2, <2>1, ResetCloses, LivesMove
  <2> QED  BY <2>2, <2>3
<1>6. CASE TeardownTells(l)
  <2>1. UNCHANGED <<co, fan, startup, src, callback, con>> /\ td[l].pc = "tell"
    BY <1>6 DEF TeardownTells, coordVars, sourceVars
  <2>2. CASE told' = told  BY <2>1, <2>2, StandShares
  <2>3. CASE Tells(l)
    <3>1. con[l].lease = l  BY <1>1, <2>1, LifeFacts DEF LifeFits, MadeForLease, Leases
    <3>2. ShareStep  BY <1>1, <2>1, <2>3, <3>1, TellShares
    <3>3. LifeInv'  BY <1>0, <1>2, <2>1, LivesMove
    <3> QED  BY <3>2, <3>3
  <2> QED  BY <1>6, <2>2, <2>3 DEF TeardownTells
<1> QED  BY <1>3, <1>4, <1>5, <1>6 DEF TeardownStep

\* A source on its way into the call and out of it.
LEMMA SourceShares ==
    ASSUME StreamInv, LifeInv, NEW l \in Leases,
           SourceStep(l) \/ RemoteBYE(l) \/ SourceFailure(l)
    PROVE  LifeInv' /\ ShareStep
<1>0. src \in [Leases -> SourceSteps]  BY StandingFacts
<1>1. CASE SourceStep(l)
  <2>1. \A m \in Leases : src'[m] # "none" => src[m] # "none"
    BY <1>0, <1>1 DEF SourceStep, SourceStarts, SourceJoinsCall, SourceAsks, SourceUp, SourceFails
  <2>2. UNCHANGED <<co, con, fan, startup, told, callback>>
    BY <1>1 DEF SourceStep, SourceStarts, SourceJoinsCall, SourceAsks, SourceUp, SourceFails,
       coordVars
  <2> QED  BY <2>1, <2>2, StandShares
<1>2. CASE RemoteBYE(l)
  <2>1. \A m \in Leases : src'[m] # "none" => src[m] # "none"  BY <1>0, <1>2 DEF RemoteBYE
  <2> QED  BY <1>2, <2>1, EventShares DEF RemoteBYE
<1>3. CASE SourceFailure(l)
  BY <1>3, EventShares DEF SourceFailure, sourceVars
<1> QED  BY <1>1, <1>2, <1>3

\* The call events, the API's hangup, the bus, the clocks and the line.
LEMMA OthersShare ==
    ASSUME StreamInv, LifeInv,
           \/ PromotionEnds \/ DrainStep \/ HangupStep \/ Hangup \/ LineMoves \/ UNCHANGED vars
           \/ ObserveControlStop \/ \E track \in Tracks : ObserveControlTrack(track)
           \/ \E l \in Leases : Reconcile(l)
           \/ \E c \in Consumers : Talk(c)
    PROVE  LifeInv' /\ ShareStep
<1>0. co \in Fields /\ None \notin Leases /\ drain \in Drains /\ hanger \in Hangers
      /\ AgentsNameLease /\ FieldsAgree
  BY StandingFacts
<1>1. UNCHANGED <<con, startup, told, callback, src>>
  BY DEF PromotionEnds, DrainStep, HangupStep, Deliver, DrainStops, DrainWaits, Hangup,
     EndCall, EndCallStops, EndCallWaits, ObserveControlStop, ObserveControlTrack, Reconcile,
     Talk, LineMoves, vars, coordVars, sourceVars
<1>2. CASE \E l \in Leases, cause \in Causes \cup {None} : Stop(l, cause)
  BY <1>1, <1>2, StopperShares
<1>3. CASE /\ fan' = fan /\ co'.lease = co.lease
           /\ co.lease # None => co'.starting = co.starting
  BY <1>1, <1>3, StandShares
<1>4. CASE PromotionEnds
  <2>1. co.lease \in Leases  BY <1>0, <1>4 DEF PromotionEnds, FieldsAgree, Fields
  <2>2. CASE Stop(co.lease, "sourceFailure")  BY <1>2, <2>1, <2>2 DEF Causes
  <2>3. CASE co' = [co EXCEPT !.promoting = FALSE] /\ UNCHANGED fan
    BY <1>0, <1>3, <2>3 DEF Fields
  <2> QED  BY <1>4, <2>2, <2>3 DEF PromotionEnds
<1>5. CASE DrainStops \/ EndCallStops
  <2>1. \E l \in Leases, cause \in Causes \cup {None} : Stop(l, cause)
    BY <1>0, <1>5 DEF DrainStops, EndCallStops, AgentsNameLease, Drains, Hangers
  <2> QED  BY <1>2, <2>1
<1>6. CASE \E l \in Leases : Reconcile(l)
  BY <1>2, <1>6 DEF Reconcile, Causes
<1>7. CASE ObserveControlStop
  <2>1. CASE co.lease = None
    BY <1>0, <1>3, <1>7, <2>1 DEF ObserveControlStop, Fields, IdleFields
  <2>2. CASE co.lease # None
    BY <1>0, <1>2, <1>7, <2>2 DEF ObserveControlStop, Fields, Causes
  <2> QED  BY <2>1, <2>2
<1>8. CASE \E track \in Tracks : ObserveControlTrack(track)
  BY <1>0, <1>3, <1>8 DEF ObserveControlTrack, Fields
<1>9. CASE \E c \in Consumers : Talk(c)
  BY <1>0, <1>3, <1>9 DEF Talk, Fields
<1>10. CASE Deliver
  <2>1. co'.lease = co.lease /\ co'.starting = co.starting
    BY <1>0, <1>10 DEF Deliver, PromoteRinging, TakePromotion, Fields
  <2> QED  BY <1>3, <1>10, <2>1 DEF Deliver
<1>11. CASE DrainWaits \/ EndCall \/ EndCallWaits \/ Hangup \/ LineMoves \/ UNCHANGED vars
  BY <1>3, <1>11 DEF DrainWaits, EndCall, EndCallWaits, Hangup, LineMoves, vars, coordVars
<1> QED
  BY <1>4, <1>5, <1>6, <1>7, <1>8, <1>9, <1>10, <1>11 DEF DrainStep, HangupStep

\* Every step keeps LifeInv, and is a step of the shared stream or none.
LEMMA ShareNextStep == StreamInv /\ LifeInv /\ [Next]_vars => LifeInv' /\ ShareStep
<1> SUFFICES ASSUME StreamInv, LifeInv, [Next]_vars PROVE LifeInv' /\ ShareStep  OBVIOUS
<1>1. CASE Environment
  <2>1. ASSUME NEW c \in Consumers,
               \/ ProbesRinging(c) \/ JoinTimesOut(c) \/ StartTimesOut(c)
               \/ \E by \in {"released", "left"} : Leave(c, by)
        PROVE  LifeInv' /\ ShareStep
    BY <2>1, QuietShares, NotesShare
  <2> QED  BY <1>1, <2>1, SourceShares, OthersShare DEF Environment
<1>2. CASE \E c \in Consumers : ConsumerStep(c)  BY <1>2, ConsumerShares
<1>3. CASE \E l \in Leases : TeardownStep(l) \/ SourceStep(l)
  BY <1>3, TeardownShares, SourceShares
<1>4. CASE PromotionEnds \/ DrainStep \/ HangupStep \/ Rest \/ UNCHANGED vars
  BY <1>4, OthersShare DEF Rest
<1> QED  BY <1>1, <1>2, <1>3, <1>4 DEF Next

\* At first nobody has a lease.
LEMMA LifeInit == Init => LifeInv
<1> SUFFICES ASSUME Init PROVE LifeInv  OBVIOUS
<1>0. None \notin Leases  BY ConsumersAssumption, NoneAssumption DEF Leases
<1>1. /\ \A c \in Consumers : con[c].pc = "idle" /\ con[c].lease = None
      /\ \A l \in Leases : fan[l].members = {} /\ ~fan[l].closed
      /\ \A l \in Leases : src[l] = "none"
      /\ callback = None /\ co.lease = None
  BY DEF Init, NewConsumer, IdleFields, Leases
<1>2. LeasesReserved  BY <1>1 DEF LeasesReserved
<1>3. EveryLifeFits
  <2> SUFFICES ASSUME NEW c \in Consumers
               PROVE  LifeFits(c, con[c], co, fan, startup, src[c], callback)
    BY DEF EveryLifeFits
  <2>1. LeaseOver(c, con[c], co, fan) /\ StillStarts(c, con[c], co)
    BY <1>0, <1>1 DEF LeaseOver, StillStarts, Leases
  <2>2. OnItsStream(c, con[c], fan, startup)
    BY <1>1 DEF OnItsStream, OnPCs, StartPCs
  <2>3. MadeForLease(c, con[c], fan, src[c], callback)
    BY <1>0, <1>1 DEF MadeForLease, Leases
  <2> QED  BY <2>1, <2>2, <2>3 DEF LifeFits
<1> QED  BY <1>2, <1>3 DEF LifeInv

\* The coordinator implements SharedStream, for any number of consumers and calls
\* and whatever the environment does: every critical section of
\* StreamCoordinator.mu is one step of the stream that the consumers were promised,
\* or none of their business (ImplementsShare).
THEOREM StreamImplementsShare == Spec => ImplementsShare
<1>1. Init => Share!ShareInit
  <2> SUFFICES ASSUME Init PROVE Share!ShareInit  OBVIOUS
  <2>0. None \notin Leases  BY ConsumersAssumption, NoneAssumption DEF Leases
  <2>1. \A l \in Leases : con[l].lease = None /\ fan[l].members = {}
    BY DEF Init, NewConsumer, Leases
  <2>2. \A l \in Leases : Life(l) = "none"  BY <2>0, <2>1 DEF Life
  <2>3. told = {}  BY DEF Init
  <2> QED  BY <2>1, <2>2, <2>3 DEF Share!ShareInit, Leases
<1>2. ShareStep => [Share!ShareNext]_(Share!shareVars)
  BY DEF ShareStep, StreamLives, StreamMembers, Share!shareVars
<1> QED
  BY <1>1, <1>2, StreamInitInv, StreamNextInv, LifeInit, ShareNextStep, PTL
     DEF Spec, ImplementsShare, Share!ShareSpec
=============================================================================
