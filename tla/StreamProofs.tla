---------------------------- MODULE StreamProofs ----------------------------
(***************************************************************************)
(* The stream coordinator, for any number of consumers, calls and          *)
(* entrypoints and whatever the environment does: no stale talker, nobody  *)
(* left on a stream that the last one out ends, everybody told, a closed   *)
(* source closed for good, and no preview left over in an answered call.   *)
(*                                                                         *)
(* The inductive invariant StreamInv says what the code takes for granted  *)
(* at each unlock of StreamCoordinator.mu: ConsumerFits of each consumer,  *)
(* TeardownFits of each teardown and FieldsAgree of the coordinator.  The  *)
(* first two are predicates on values, so that a lemma about one change    *)
(* (a fan-out closes, a lease is reset) serves every action that makes it. *)
(***************************************************************************)
EXTENDS StreamCoordinator, CoreStateProofs

-----------------------------------------------------------------------------
(* The types, as sets. *)

Fields ==
    [lease : Leases \cup {None}, owner : {"idle", "companion", "external"},
     requested : SUBSET Tracks, control : BOOLEAN, starting : BOOLEAN,
     stopping : BOOLEAN, preview : BOOLEAN, promotePending : BOOLEAN,
     promoting : BOOLEAN, shared : BOOLEAN,
     talker : Consumers \cup {None}, source : Leases \cup {None}]
Fan == [members : SUBSET Consumers, closed : BOOLEAN]
Startups == {"pending", "up", "stopped"}
SourceSteps ==
    {"none", "made", "launched", "starting", "inCall", "asking", "up", "failed", "closed"}
Teardowns ==
    [pc : {"none", "close", "await", "reset", "observe", "tell", "done"},
     cause : Causes \cup {None}, source : Leases \cup {None},
     tells : BOOLEAN, snap : Snapshots]
ConsumerSteps ==
    [pc : ConsumerPCs, lease : Leases \cup {None}, ring : Dialogs \cup {None},
     answered : BOOLEAN, by : {"released", "left", None}, snap : Snapshots]
Drains == [pc : {"idle", "stop", "wait"}, lease : Leases \cup {None}, cause : Causes \cup {None}]
Hangers ==
    [pc : {"idle", "bye", "stop", "wait"}, lease : Leases \cup {None}, cause : Causes \cup {None}]

-----------------------------------------------------------------------------
(* The inductive invariant. *)

\* Before the lease, during the start of a lease of one's own, and after it.
BeforePCs == {"idle", "ringProbed", "probed"}
StartPCs ==
    {"reserved", "added", "made", "attached", "starting", "failed", "timedOut",
     "started", "aborting"}
HoldPCs == {"holding", "leaving", "untalking", "untalkingLast", "lastOut", "done"}

\* Consumer c, at r, reserved the current lease: it has it, and as long as the
\* lease is starting and not stopping its acquire has not returned.
OwnsLease(c, r, k) ==
    k.lease = c =>
        /\ r.lease = c
        /\ r.pc \notin BeforePCs \cup {"joining", "abortObserving"}
        /\ k.starting /\ ~k.stopping => r.pc \in StartPCs \cup {"finishing"}

\* In the middle of an acquire or a leave it has a lease, its own unless it joins
\* or has joined one.
HasLease(c, r) ==
    /\ r.pc \notin BeforePCs \cup {"done"} => r.lease # None
    /\ r.pc \in StartPCs \cup {"finishing", "announcing", "observing", "abortObserving"}
          => r.lease = c

\* A stream is up for others only once its owner's startup is over, and nobody
\* joins, or leaves, one before it is up.
JoinsLate(c, r, S) ==
    /\ S[c] = "up" => r.pc \in HoldPCs \cup {"observing"}
    /\ r.pc \in {"holding", "leaving"} /\ r.lease # c => S[r.lease] = "up"

\* A fan-out is open until its lease exists, and one that is closed while its
\* owner has yet to add itself is stopping.
OpenBefore(c, r, k, F) ==
    F[c].closed => /\ r.pc \notin BeforePCs
                   /\ r.pc = "reserved" /\ k.lease = c => k.stopping

\* The last one out has left an empty fan-out, closed in the same step.
LeavesClosed(r, F) ==
    r.pc \in {"untalkingLast", "lastOut"} => F[r.lease].members = {} /\ F[r.lease].closed

\* The talker is a consumer of the current lease, on it or about to free it.
TalksOnStream(c, r, k, F) ==
    k.talker = c =>
        /\ k.lease # None /\ r.lease = k.lease /\ r.pc \in HoldPCs
        /\ c \in F[k.lease].members \/ r.pc \in {"untalking", "untalkingLast"}

\* What an observer is going to be told names a lease if it names an owner.
NamesLease(snap) == snap.owner = "companion" => snap.lease # None

\* Unheard: the call is answered and no event that says so waits.  A preview then
\* has yet to look at the call again, or has seen or been told of the answer.
Unheard == answered # None /\ ~\E i \in DOMAIN queue : queue[i].type = "call.answered"
HearsAnswer(c, r, k, unheard) ==
    unheard /\ k.lease = c /\ k.preview /\ ~k.stopping =>
        \/ r.pc \in StartPCs
        \/ r.pc = "finishing" /\ (r.answered \/ k.promotePending)

ConsumerFits(c, r, k, F, S, unheard) ==
    /\ OwnsLease(c, r, k) /\ HasLease(c, r) /\ JoinsLate(c, r, S)
    /\ OpenBefore(c, r, k, F) /\ LeavesClosed(r, F) /\ TalksOnStream(c, r, k, F)
    /\ NamesLease(r.snap) /\ HearsAnswer(c, r, k, unheard)

\* stop closes the fan-out before its teardown t begins; a teardown asked for by
\* the last one out finds it empty, and one that is over has told who is left.
ClosesFirst(l, t, k, F, heard) ==
    /\ t.pc # "none" => F[l].closed /\ (k.lease = l => k.stopping)
    /\ t.cause \in {"released", "left"} => F[l].members = {} /\ F[l].closed
    /\ t.pc = "done" /\ t.tells => F[l].members \subseteq heard

\* It shuts its source's pipelines before it waits for the source, and goes on
\* when the source does not ask for media any more.
ShutsSource(t, closedPipes, sources) ==
    /\ t.pc \in {"close", "await"} => t.source # None
    /\ t.source # None /\ t.pc \in {"await", "reset", "observe", "tell", "done"} =>
          t.source \in closedPipes
    /\ t.source # None /\ t.pc \in {"reset", "observe", "tell", "done"} =>
          sources[t.source] \notin {"asking", "up"}

TeardownFits(l, t, k, F, heard, closedPipes, sources) ==
    /\ ClosesFirst(l, t, k, F, heard)
    /\ ShutsSource(t, closedPipes, sources)
    /\ NamesLease(t.snap)

\* The fields of the coordinator agree: a lease is stopping only while a teardown
\* of it is on its way to finishStop.
FieldsAgree ==
    /\ co.owner = "companion" <=> co.lease # None
    /\ co.promoting => co.lease # None
    /\ co.stopping => co.lease # None /\ td[co.lease].pc \in {"close", "await", "reset"}

\* The drain and the API's hangup stop a lease that they have read, for a cause of
\* their own.
AgentsNameLease ==
    /\ drain.pc # "idle" => drain.lease # None /\ drain.cause \notin {"released", "left"}
    /\ hanger.pc \in {"stop", "wait"} =>
          hanger.lease # None /\ hanger.cause \notin {"released", "left"}

EveryConsumerFits ==
    \A c \in Consumers : ConsumerFits(c, con[c], co, fan, startup, Unheard)
EveryTeardownFits ==
    \A l \in Leases : TeardownFits(l, td[l], co, fan, told, shut, src)

StreamInv ==
    TypeOK /\ FieldsAgree /\ AgentsNameLease /\ EveryConsumerFits /\ EveryTeardownFits
-----------------------------------------------------------------------------
(* What one change does to whoever stands by. *)

\* The types of the variables, one by one.
LEMMA Types ==
    TypeOK <=>
        /\ CallType
        /\ co \in Fields /\ fan \in [Leases -> Fan]
        /\ startup \in [Leases -> Startups] /\ src \in [Leases -> SourceSteps]
        /\ shut \subseteq Leases /\ callback \in Leases \cup {None}
        /\ dialled \in Leases \cup {None}
        /\ owns \subseteq Leases /\ gone \subseteq Leases
        /\ td \in [Leases -> Teardowns]
        /\ con \in [Consumers -> ConsumerSteps]
        /\ drain \in Drains /\ hanger \in Hangers
        /\ told \subseteq Consumers /\ state \in States
        /\ rung \subseteq Dialogs /\ ended \subseteq Leases /\ robbed \subseteq Leases
BY DEF TypeOK, CoordinatorType, StreamType, AgentType, Fields, Fan, Startups,
       SourceSteps, Teardowns, ConsumerSteps, Drains, Hangers

\* A consumer that does not move fits the new fields, fan-outs, startups and call
\* if these give it no lease, no stream and no uplink that it did not have, keep
\* what it relies on, and tell it of an answer no later.
LEMMA BystanderFits ==
    ASSUME NEW c, NEW r, NEW k, NEW F, NEW S, NEW u \in BOOLEAN,
           NEW k2, NEW F2, NEW S2, NEW u2 \in BOOLEAN,
           ConsumerFits(c, r, k, F, S, u),
           k2.lease = c => /\ k.lease = c
                           /\ k.stopping => k2.stopping
                           /\ k2.starting => k.starting,
           S2[c] = "up" => S[c] = "up",
           S[r.lease] = "up" => S2[r.lease] = "up",
           F2[c].closed =>
               \/ F[c].closed
               \/ r.pc \notin BeforePCs /\ (r.pc = "reserved" /\ k2.lease = c => k2.stopping),
           F[r.lease].members = {} /\ F[r.lease].closed =>
               F2[r.lease].members = {} /\ F2[r.lease].closed,
           k2.talker = c => /\ k.talker = c /\ k2.lease = k.lease
                            /\ c \in F[k.lease].members => c \in F2[k.lease].members,
           u2 /\ k2.lease = c /\ k2.preview /\ ~k2.stopping =>
               u /\ k.preview /\ (k.promotePending => k2.promotePending)
    PROVE  ConsumerFits(c, r, k2, F2, S2, u2)
<1>1. OwnsLease(c, r, k2)  BY DEF ConsumerFits, OwnsLease
<1>2. JoinsLate(c, r, S2)  BY DEF ConsumerFits, JoinsLate
<1>3. OpenBefore(c, r, k2, F2)  BY DEF ConsumerFits, OpenBefore
<1>4. LeavesClosed(r, F2)  BY DEF ConsumerFits, LeavesClosed
<1>5. TalksOnStream(c, r, k2, F2)  BY DEF ConsumerFits, TalksOnStream
<1>6. HearsAnswer(c, r, k2, u2)  BY DEF ConsumerFits, HearsAnswer
<1> QED  BY <1>1, <1>2, <1>3, <1>4, <1>5, <1>6 DEF ConsumerFits

\* A teardown that does not move fits as long as its fan-out stays closed and
\* nobody joins it, its lease is not taken up again, and no source whose pipelines
\* are shut asks for media or comes up.
LEMMA TeardownKeeps ==
    ASSUME NEW l, NEW t, NEW k, NEW F, NEW heard, NEW pipes, NEW sources,
           NEW k2, NEW F2, NEW heard2, NEW pipes2, NEW sources2,
           TeardownFits(l, t, k, F, heard, pipes, sources),
           F[l].closed => F2[l].closed /\ F2[l].members \subseteq F[l].members,
           k2.lease = l /\ F[l].closed => k.lease = l /\ (k.stopping => k2.stopping),
           heard \subseteq heard2, pipes \subseteq pipes2,
           \A s \in pipes : sources2[s] \in {"asking", "up"} => sources[s] \in {"asking", "up"}
    PROVE  TeardownFits(l, t, k2, F2, heard2, pipes2, sources2)
<1>1. ClosesFirst(l, t, k2, F2, heard2)  BY DEF TeardownFits, ClosesFirst
<1>2. ShutsSource(t, pipes2, sources2)  BY DEF TeardownFits, ShutsSource
<1> QED  BY <1>1, <1>2 DEF TeardownFits
\* Consumer c moves to r2 and everybody else stands by.
LEMMA OneConsumerMoves ==
    ASSUME con \in [Consumers -> ConsumerSteps], NEW c \in Consumers, NEW r2,
           con' = [con EXCEPT ![c] = r2],
           ConsumerFits(c, r2, co', fan', startup', Unheard'),
           \A d \in Consumers : d # c => ConsumerFits(d, con[d], co', fan', startup', Unheard')
    PROVE  EveryConsumerFits'
<1> SUFFICES ASSUME NEW d \in Consumers
             PROVE  ConsumerFits(d, con'[d], co', fan', startup', Unheard')
  BY DEF EveryConsumerFits
<1>1. CASE d = c  BY <1>1
<1>2. CASE d # c  BY <1>2
<1> QED  BY <1>1, <1>2

\* Nothing that a consumer relies on changes.
LEMMA ConsumersStand ==
    ASSUME EveryConsumerFits, UNCHANGED <<coordVars>>, Unheard' => Unheard
    PROVE  \A d \in Consumers : ConsumerFits(d, con[d], co', fan', startup', Unheard')
<1> SUFFICES ASSUME NEW d \in Consumers
             PROVE  ConsumerFits(d, con[d], co', fan', startup', Unheard')
  OBVIOUS
<1>1. Unheard \in BOOLEAN /\ Unheard' \in BOOLEAN  BY DEF Unheard
<1>2. ConsumerFits(d, con[d], co, fan, startup, Unheard)  BY DEF EveryConsumerFits
<1>3. co' = co /\ fan' = fan /\ startup' = startup  BY DEF coordVars
<1> QED  BY <1>1, <1>2, <1>3, BystanderFits

\* Nothing that a teardown relies on changes.
LEMMA TeardownsStand ==
    ASSUME EveryTeardownFits, UNCHANGED <<co, fan, td>>, told \subseteq told', shut' = shut,
           \A s \in shut : src'[s] \in {"asking", "up"} => src[s] \in {"asking", "up"}
    PROVE  EveryTeardownFits'
<1> SUFFICES ASSUME NEW l \in Leases
             PROVE  TeardownFits(l, td'[l], co', fan', told', shut', src')
  BY DEF EveryTeardownFits
<1>1. TeardownFits(l, td[l], co, fan, told, shut, src)  BY DEF EveryTeardownFits
<1> QED  BY <1>1, TeardownKeeps

-----------------------------------------------------------------------------
(* The call line *)

\* A commit keeps the line well typed and adds its event to the queue.
LEMMA Commits ==
    ASSUME CallType, NEW e \in CallEvents, Commit(e)
    PROVE  /\ queue' \in Seq(CallEvents)
           /\ \A i \in DOMAIN queue : i \in DOMAIN queue' /\ queue'[i] = queue[i]
           /\ Len(queue') \in DOMAIN queue' /\ queue'[Len(queue')] = e
<1>1. queue \in Seq(CallEvents)  BY DEF CallType
<1> QED  BY <1>1 DEF Commit

\* Whatever the line commits, an answer that nobody has heard of yet was there
\* before: the answer itself comes with its event.
LEMMA LineCommits ==
    ASSUME CallType,
           \/ \E d \in Dialogs, ep \in Entrypoints : Rings(d, ep)
           \/ \E reason \in Reasons : RingEnded(reason)
           \/ Declined \/ RingHungUp \/ Answered \/ HungUp
    PROVE  CallType' /\ (Unheard' => Unheard)
<1>0. ringing \in Dialogs \cup {None} /\ answered \in Dialogs \cup {None}  BY DEF CallType
<1>1. ASSUME NEW e \in CallEvents, Commit(e), ringing' \in Dialogs \cup {None},
             answered' \in Dialogs \cup {None},
             answered' \in {None, answered} \/ e.type = "call.answered"
      PROVE  CallType' /\ (Unheard' => Unheard)
  <2>1. CallType'  BY <1>1, Commits DEF CallType
  <2>2. ASSUME Unheard' PROVE Unheard
    <3>1. answered' = answered \/ e.type = "call.answered"  BY <1>1, <2>2 DEF Unheard
    <3>2. \A i \in DOMAIN queue' : queue'[i].type # "call.answered"  BY <2>2 DEF Unheard
    <3>3. answered' = answered  BY <1>1, <3>1, <3>2, Commits
    <3>4. \A i \in DOMAIN queue : queue[i].type # "call.answered"  BY <1>1, <3>2, Commits
    <3> QED  BY <2>2, <3>3, <3>4 DEF Unheard
  <2> QED  BY <2>1, <2>2
<1>2. ASSUME NEW d \in Dialogs, NEW ep \in Entrypoints, Rings(d, ep)
      PROVE  CallType' /\ (Unheard' => Unheard)
  <2>1. IncomingCallStarted(d, ep) \in CallEvents  BY DEF CallEvents
  <2> QED  BY <1>0, <1>1, <1>2, <2>1 DEF Rings
<1>3. ASSUME NEW reason \in Reasons, RingEnded(reason)
      PROVE  CallType' /\ (Unheard' => Unheard)
  <2>1. IncomingCallEnded(ringing, reason) \in CallEvents
    BY <1>0, <1>3 DEF CallEvents, RingEnded
  <2> QED  BY <1>0, <1>1, <1>3, <2>1 DEF RingEnded
<1>4. CASE Declined
  <2>1. CallDeclined(ringing) \in CallEvents  BY <1>0, <1>4 DEF CallEvents, Declined
  <2> QED  BY <1>0, <1>1, <1>4, <2>1 DEF Declined
<1>5. CASE RingHungUp
  <2>1. CallHungUp(ringing) \in CallEvents  BY <1>0, <1>5 DEF CallEvents, RingHungUp
  <2> QED  BY <1>0, <1>1, <1>5, <2>1 DEF RingHungUp
<1>6. CASE Answered
  <2>1. CallAnswered(ringing) \in CallEvents  BY <1>0, <1>6 DEF CallEvents, Answered
  <2>2. CallAnswered(ringing).type = "call.answered"  BY DEF CallAnswered
  <2> QED  BY <1>0, <1>1, <1>6, <2>1, <2>2 DEF Answered
<1>7. CASE HungUp
  <2>1. CallHungUp(answered) \in CallEvents  BY <1>0, <1>7 DEF CallEvents, HungUp
  <2> QED  BY <1>0, <1>1, <1>7, <2>1 DEF HungUp
<1> QED  BY <1>2, <1>3, <1>4, <1>5, <1>6, <1>7

\* The manager drops its dialog: the preview it dialled, or the answered call.
LEMMA HangupCallKeeps ==
    ASSUME TypeOK, HangupCall
    PROVE  CallType' /\ (Unheard' => Unheard) /\ dialled' \in Leases \cup {None}
<1>0. CallType /\ dialled \in Leases \cup {None}  BY Types
<1>1. CASE HungUp
  <2>1. CallType' /\ (Unheard' => Unheard)  BY <1>0, <1>1, LineCommits
  <2> QED  BY <1>0, <1>1, <2>1 DEF HangupCall
<1>2. CASE UNCHANGED callVars
  <2>1. CallType' /\ (Unheard' => Unheard)  BY <1>0, <1>2 DEF CallType, callVars, Unheard
  <2> QED  BY <1>0, <1>2, <2>1 DEF HangupCall
<1> QED  BY <1>1, <1>2 DEF HangupCall
-----------------------------------------------------------------------------
(* stop, finishStop and the observer *)

\* What a projected state becomes when an observer is called is a state.
LEMMA ObserveType ==
    ASSUME TypeOK, NEW snap \in Snapshots, NamesLease(snap), Observe(snap)
    PROVE  state' \in States
<1>0. state \in States /\ state.previewStream \in Previews \cup {NoPreview}
  BY Types DEF States
<1>1. CASE snap.owner = "companion"
  <2>1. snap.lease \in Streams /\ EntryOf[snap.lease] \in Entrypoints
    BY <1>1, ConsumersAssumption, EntryAssumption DEF Snapshots, NamesLease, Leases
  <2>2. PreviewStarted(snap.lease, EntryOf[snap.lease]) \in Events  BY <2>1 DEF Events
  <2>3. state' = Apply(state, PreviewStarted(snap.lease, EntryOf[snap.lease]))
    BY <1>1 DEF Observe
  <2> QED  BY <1>0, <2>2, <2>3, ApplyType
<1>2. CASE snap.owner = "idle" /\ state.previewStream # NoPreview
  <2>1. state.previewStream.stream \in Streams  BY <1>0, <1>2 DEF Previews
  <2>2. PreviewStopped(state.previewStream.stream) \in Events  BY <2>1 DEF Events
  <2>3. state' = Apply(state, PreviewStopped(state.previewStream.stream))
    BY <1>2 DEF Observe
  <2> QED  BY <1>0, <2>2, <2>3, ApplyType
<1>3. CASE snap.owner # "companion" /\ ~(snap.owner = "idle" /\ state.previewStream # NoPreview)
  BY <1>0, <1>3 DEF Observe
<1> QED  BY <1>1, <1>2, <1>3

\* A snapshot of the coordinator names a lease if it names an owner.
LEMMA SnapshotNames ==
    ASSUME TypeOK, FieldsAgree
    PROVE  /\ Snapshot(co) \in Snapshots /\ NamesLease(Snapshot(co))
           /\ Snapshot(IdleFields) \in Snapshots /\ NamesLease(Snapshot(IdleFields))
<1>1. co \in Fields  BY Types
<1> QED  BY <1>1 DEF Fields, Snapshot, Snapshots, NamesLease, FieldsAgree, IdleFields

\* The critical section of stop closes the fan-out of the current lease: whoever
\* stands by fits a stopping lease, and the teardown starts as it must.
LEMMA BeginStopKeeps ==
    ASSUME StreamInv, NEW l \in Leases, NEW cause \in Causes \cup {None},
           CanStop(l), BeginStop(l, cause),
           cause \in {"released", "left"} => fan[l].members = {} /\ fan[l].closed,
           startup' = startup, told' = told, shut' = shut, Unheard' => Unheard,
           \A s \in shut : src'[s] \in {"asking", "up"} => src[s] \in {"asking", "up"}
    PROVE  /\ co' \in Fields /\ fan' \in [Leases -> Fan] /\ td' \in [Leases -> Teardowns]
           /\ co'.lease = co.lease /\ co'.stopping
           /\ FieldsAgree'
           /\ \A d \in Consumers : ConsumerFits(d, con[d], co', fan', startup', Unheard')
           /\ EveryTeardownFits'
<1>0. /\ TypeOK /\ co \in Fields /\ fan \in [Leases -> Fan] /\ td \in [Leases -> Teardowns]
      /\ FieldsAgree /\ EveryConsumerFits /\ EveryTeardownFits
  BY Types DEF StreamInv
<1> DEFINE t2 == [td[l] EXCEPT !.pc = IF co.source = None THEN "reset" ELSE "close",
                               !.cause = cause, !.source = co.source,
                               !.tells = TellsConsumers(cause)]
<1>1. /\ co' \in Fields
      /\ co'.lease = co.lease /\ co'.stopping = TRUE /\ co'.starting = co.starting
      /\ co'.talker = co.talker /\ co'.owner = co.owner /\ co'.promoting = FALSE
  BY <1>0 DEF BeginStop, Fields
<1>2. /\ fan' \in [Leases -> Fan]
      /\ fan'[l].closed = TRUE /\ \A m \in Leases : fan'[m].members = fan[m].members
      /\ \A m \in Leases : m # l => fan'[m] = fan[m]
  BY <1>0 DEF BeginStop, Closes, Fan
<1>3. /\ t2 \in Teardowns /\ t2.pc \in {"reset", "close"} /\ t2.snap = td[l].snap
      /\ t2.cause = cause /\ t2.source = co.source /\ (t2.pc = "close" <=> co.source # None)
  <2>1. TellsConsumers(cause) \in BOOLEAN  BY DEF TellsConsumers
  <2>2. co.source \in Leases \cup {None}  BY <1>0 DEF Fields
  <2>3. td[l] \in Teardowns  BY <1>0
  <2> QED  BY <2>1, <2>2, <2>3 DEF Teardowns
<1>4. td' = [td EXCEPT ![l] = t2]  BY <1>0 DEF BeginStop, Teardowns
<1> HIDE DEF t2
<1>5. td' \in [Leases -> Teardowns] /\ td'[l] = t2 /\ \A m \in Leases : m # l => td'[m] = td[m]
  BY <1>0, <1>3, <1>4
<1>6. co.lease = l /\ l # None /\ ~co.stopping
  BY ConsumersAssumption, NoneAssumption DEF CanStop, Leases
<1>7. FieldsAgree'
  BY <1>0, <1>1, <1>3, <1>5, <1>6 DEF FieldsAgree
<1>8. ASSUME NEW d \in Consumers
      PROVE  ConsumerFits(d, con[d], co', fan', startup', Unheard')
  <2>1. ConsumerFits(d, con[d], co, fan, startup, Unheard)  BY <1>0 DEF EveryConsumerFits
  <2>2. Unheard \in BOOLEAN /\ Unheard' \in BOOLEAN  BY DEF Unheard
  <2>3. co'.lease = d => co.lease = d /\ (co.stopping => co'.stopping)
                         /\ (co'.starting => co.starting)
    BY <1>1
  <2>4. fan'[d].closed => \/ fan[d].closed
                          \/ con[d].pc \notin BeforePCs
                             /\ (con[d].pc = "reserved" /\ co'.lease = d => co'.stopping)
    <3>1. CASE d = l
      <4>1. con[d].pc \notin BeforePCs  BY <1>6, <2>1, <3>1 DEF ConsumerFits, OwnsLease
      <4> QED  BY <1>1, <4>1
    <3>2. CASE d # l  BY <1>2, <3>2 DEF Leases
    <3> QED  BY <3>1, <3>2
  <2>5. fan[con[d].lease].members = {} /\ fan[con[d].lease].closed =>
            fan'[con[d].lease].members = {} /\ fan'[con[d].lease].closed
    <3>1. CASE con[d].lease \in Leases  BY <1>2, <3>1
    <3>2. CASE con[d].lease = None
      <4>1. None \notin Leases  BY ConsumersAssumption, NoneAssumption DEF Leases
      <4> QED BY <1>0, <3>2, <4>1 DEF BeginStop, Closes
    <3>3. con[d] \in ConsumerSteps  BY Types DEF StreamInv
    <3> QED  BY <3>1, <3>2, <3>3 DEF ConsumerSteps
  <2>6. co'.talker = d => co.talker = d /\ co'.lease = co.lease
                          /\ (d \in fan[co.lease].members => d \in fan'[co.lease].members)
    BY <1>1, <1>2, <1>6
  <2>7. Unheard' /\ co'.lease = d /\ co'.preview /\ ~co'.stopping =>
            Unheard /\ co.preview /\ (co.promotePending => co'.promotePending)
    BY <1>1
  <2> QED  BY <2>1, <2>2, <2>3, <2>4, <2>5, <2>6, <2>7, BystanderFits
<1>9. ASSUME NEW m \in Leases
      PROVE  TeardownFits(m, td'[m], co', fan', told', shut', src')
  <2>1. TeardownFits(m, td[m], co, fan, told, shut, src)  BY <1>0 DEF EveryTeardownFits
  <2>2. CASE m # l
    <3>1. td'[m] = td[m] /\ fan'[m] = fan[m]  BY <1>2, <1>5, <2>2
    <3>2. co'.lease = m => FALSE  BY <1>1, <1>6, <2>2
    <3> QED  BY <2>1, <3>1, <3>2, TeardownKeeps
  <2>3. CASE m = l
    <3>1. ClosesFirst(l, t2, co', fan', told')
      BY <1>1, <1>2, <1>3 DEF ClosesFirst
    <3>2. ShutsSource(t2, shut', src')
      BY <1>3, <2>1, <2>3 DEF ShutsSource, TeardownFits, FieldsAgree
    <3>3. NamesLease(t2.snap)  BY <1>3, <2>1, <2>3 DEF TeardownFits
    <3> QED  BY <1>5, <2>3, <3>1, <3>2, <3>3 DEF TeardownFits
  <2> QED  BY <2>2, <2>3
<1> QED  BY <1>1, <1>2, <1>5, <1>7, <1>8, <1>9 DEF EveryTeardownFits
\* stop, whether or not its caller wins.
LEMMA StopKeeps ==
    ASSUME StreamInv, NEW l \in Leases, NEW cause \in Causes \cup {None}, Stop(l, cause),
           cause \in {"released", "left"} => fan[l].members = {} /\ fan[l].closed,
           startup' = startup, told' = told, shut' = shut, src' = src, UNCHANGED callVars
    PROVE  /\ co' \in Fields /\ fan' \in [Leases -> Fan] /\ td' \in [Leases -> Teardowns]
           /\ co'.lease = co.lease /\ (co.lease = l => co'.stopping)
           /\ FieldsAgree'
           /\ \A d \in Consumers : ConsumerFits(d, con[d], co', fan', startup', Unheard')
           /\ EveryTeardownFits'
<1>1. Unheard' => Unheard  BY DEF callVars, Unheard
<1>2. CASE CanStop(l)
  <2>1. BeginStop(l, cause)  BY <1>2 DEF Stop
  <2> QED  BY <1>1, <1>2, <2>1, BeginStopKeeps
<1>3. CASE ~CanStop(l)
  <2>1. UNCHANGED <<co, fan, td>>  BY <1>3 DEF Stop
  <2>2. co.lease = l => co.stopping  BY <1>3 DEF CanStop
  <2>3. FieldsAgree'  BY <2>1 DEF StreamInv, FieldsAgree
  <2>4. \A d \in Consumers : ConsumerFits(d, con[d], co', fan', startup', Unheard')
    BY <1>1, <2>1, ConsumersStand DEF StreamInv, coordVars
  <2>5. EveryTeardownFits'  BY <2>1, TeardownsStand DEF StreamInv
  <2> QED  BY <2>1, <2>2, <2>3, <2>4, <2>5, Types DEF StreamInv
<1> QED  BY <1>2, <1>3

\* finishStop of a lease whose teardown, or whose acquire, is over frees the lease
\* if it is the current one, and then nobody talks on it and nobody waits for it.
LEMMA ResetKeeps ==
    ASSUME StreamInv, NEW l \in Leases, ResetFields(l), UNCHANGED callVars
    PROVE  /\ co' \in Fields /\ fan' \in [Leases -> Fan] /\ startup' \in [Leases -> Startups]
           /\ co'.lease # l /\ (co'.lease = None \/ co' = co)
           /\ co'.owner = "companion" <=> co'.lease # None
           /\ co'.promoting => co'.lease # None
           /\ co'.stopping => co'.stopping = co.stopping /\ co'.lease = co.lease
           /\ startup'[l] = "up" => startup[l] = "up"
           /\ \A m \in Leases : fan'[m].members = fan[m].members
           /\ \A m \in Leases : fan[m].closed => fan'[m].closed
           /\ \A d \in Consumers : ConsumerFits(d, con[d], co', fan', startup', Unheard')
<1>0. /\ TypeOK /\ co \in Fields /\ fan \in [Leases -> Fan] /\ startup \in [Leases -> Startups]
      /\ FieldsAgree /\ EveryConsumerFits
  BY Types DEF StreamInv
<1>a. l # None  BY ConsumersAssumption, NoneAssumption DEF Leases
<1>1. CASE co.lease # l
  <2>1. UNCHANGED <<co, fan, startup>>  BY <1>1 DEF ResetFields
  <2>2. Unheard' => Unheard  BY DEF callVars, Unheard
  <2>3. \A d \in Consumers : ConsumerFits(d, con[d], co', fan', startup', Unheard')
    BY <1>0, <2>1, <2>2, ConsumersStand DEF coordVars
  <2> QED  BY <1>0, <1>1, <2>1, <2>3 DEF FieldsAgree
<1>2. CASE co.lease = l
  <2>1. /\ co' \in Fields /\ co'.lease = None /\ co'.talker = None
        /\ co'.owner = "idle" /\ co'.promoting = FALSE /\ co'.stopping = FALSE
    BY <1>0, <1>2 DEF ResetFields, Fields, IdleFields
  <2>a. fan' = [fan EXCEPT ![l].closed = TRUE]  BY <1>2 DEF ResetFields, Closes
  <2>b. fan' \in [Leases -> Fan] /\ \A m \in Leases : fan'[m].members = fan[m].members
    BY <1>0, <2>a DEF Fan
  <2>c. fan'[l].closed /\ \A m \in Leases : m # l => fan'[m] = fan[m]
    BY <1>0, <2>a DEF Fan
  <2>2. /\ fan' \in [Leases -> Fan] /\ fan' = [fan EXCEPT ![l].closed = TRUE]
        /\ \A m \in Leases : fan'[m].members = fan[m].members
        /\ \A m \in Leases : m # l => fan'[m] = fan[m]
        /\ \A m \in Leases : fan[m].closed => fan'[m].closed
    <3>1. ASSUME NEW m \in Leases, fan[m].closed PROVE fan'[m].closed
      BY <2>c, <3>1
    <3> QED  BY <2>a, <2>b, <2>c, <3>1
  <2>3. /\ startup' \in [Leases -> Startups]
        /\ \A m \in Leases : startup'[m] = "up" <=> startup[m] = "up"
        /\ startup' = [startup EXCEPT ![l] = IF startup[l] = "pending" THEN "stopped" ELSE startup[l]]
    BY <1>0, <1>2 DEF ResetFields, Startups
  <2>4. ASSUME NEW d \in Consumers
        PROVE  ConsumerFits(d, con[d], co', fan', startup', Unheard')
    <3>1. ConsumerFits(d, con[d], co, fan, startup, Unheard)  BY <1>0 DEF EveryConsumerFits
    <3>2. Unheard \in BOOLEAN /\ Unheard' \in BOOLEAN  BY DEF Unheard
    <3>3. con[d] \in ConsumerSteps  BY Types DEF StreamInv
    <3>4. co'.lease # d /\ co'.talker # d
      BY <2>1, ConsumersAssumption, NoneAssumption
    <3>5. fan'[d].closed => fan[d].closed \/ con[d].pc \notin BeforePCs
      <4>1. CASE d = l  BY <1>2, <3>1, <4>1 DEF ConsumerFits, OwnsLease
      <4>2. CASE d # l  BY <2>2, <4>2 DEF Leases
      <4> QED  BY <4>1, <4>2
    <3>6. /\ startup'[d] = "up" => startup[d] = "up"
          /\ startup[con[d].lease] = "up" => startup'[con[d].lease] = "up"
      BY <1>0, <1>a, <2>3 DEF Leases
    <3>7. fan[con[d].lease].members = {} /\ fan[con[d].lease].closed =>
              fan'[con[d].lease].members = {} /\ fan'[con[d].lease].closed
      BY <1>0, <1>a, <2>2, <3>3 DEF ConsumerSteps
    <3> QED  BY <3>1, <3>2, <3>4, <3>5, <3>6, <3>7, BystanderFits
  <2> QED  BY <1>a, <2>1, <2>2, <2>3, <2>4
<1> QED  BY <1>1, <1>2
-----------------------------------------------------------------------------
(* Steps of one consumer that leave the coordinator alone *)

\* A consumer may be done with its lease when that is another's, is stopping, or
\* is one it holds, unless it is still to free the uplink.
LEMMA DoneFits ==
    ASSUME NEW c, NEW r, NEW r2, NEW k, NEW F, NEW S, NEW u,
           ConsumerFits(c, r, k, F, S, u), r.pc \in ConsumerPCs,
           r2.pc = "done", r2.lease = r.lease, NamesLease(r2.snap),
           k.lease = c => k.stopping \/ r.pc \in HoldPCs,
           k.talker = c => r.pc \notin {"untalking", "untalkingLast"}
    PROVE  ConsumerFits(c, r2, k, F, S, u)
<1>1. OwnsLease(c, r2, k)
  BY DEF ConsumerFits, OwnsLease, BeforePCs, HoldPCs, StartPCs
<1>2. HasLease(c, r2) /\ LeavesClosed(r2, F)
  BY DEF HasLease, LeavesClosed, StartPCs
<1>3. JoinsLate(c, r2, S)  BY DEF ConsumerFits, JoinsLate, HoldPCs
<1>4. OpenBefore(c, r2, k, F)  BY DEF ConsumerFits, OpenBefore, BeforePCs
<1>5. TalksOnStream(c, r2, k, F)  BY DEF ConsumerFits, TalksOnStream, HoldPCs
<1>6. HearsAnswer(c, r2, k, u)
  BY DEF ConsumerFits, HearsAnswer, OwnsLease, StartPCs, HoldPCs
<1> QED  BY <1>1, <1>2, <1>3, <1>4, <1>5, <1>6 DEF ConsumerFits

\* A consumer that has not reached its hold moves on without a change of its
\* lease: before the lease, or from one step of its own startup to the next.
LEMMA StartingFits ==
    ASSUME NEW c, NEW r, NEW r2, NEW k, NEW F, NEW S, NEW u,
           ConsumerFits(c, r, k, F, S, u),
           \/ r.pc \in BeforePCs /\ r2.pc \in BeforePCs
           \/ /\ r.pc \in StartPCs /\ r2.pc \in (StartPCs \cup {"finishing"}) \ {"reserved"}
              /\ r2.pc = "finishing" /\ u => r2.answered,
           r2.lease = r.lease, NamesLease(r2.snap)
    PROVE  ConsumerFits(c, r2, k, F, S, u)
<1>1. OwnsLease(c, r2, k)
  BY DEF ConsumerFits, OwnsLease, BeforePCs, StartPCs
<1>2. HasLease(c, r2)
  BY DEF ConsumerFits, HasLease, BeforePCs, StartPCs
<1>3. LeavesClosed(r2, F)
  BY DEF LeavesClosed, BeforePCs, StartPCs
<1>4. JoinsLate(c, r2, S)
  BY DEF ConsumerFits, JoinsLate, HoldPCs, BeforePCs, StartPCs
<1>5. OpenBefore(c, r2, k, F)
  BY DEF ConsumerFits, OpenBefore, BeforePCs, StartPCs
<1>6. TalksOnStream(c, r2, k, F)
  BY DEF ConsumerFits, TalksOnStream, HoldPCs, BeforePCs, StartPCs
<1>7. HearsAnswer(c, r2, k, u)
  BY DEF ConsumerFits, HearsAnswer, OwnsLease, StartPCs, BeforePCs
<1> QED  BY <1>1, <1>2, <1>3, <1>4, <1>5, <1>6, <1>7 DEF ConsumerFits

\* A step that moves one consumer, and perhaps its source, the callback or the
\* projected state, keeps the invariant if the consumer fits afterwards.
LEMMA MoverKeeps ==
    ASSUME StreamInv, NEW c \in Consumers, NEW r2 \in ConsumerSteps,
           con' = [con EXCEPT ![c] = r2],
           ConsumerFits(c, r2, co, fan, startup, Unheard),
           UNCHANGED <<callVars, coordVars, shut, dialled, sessionVars, td, agentVars, told,
                       historyVars>>,
           state' \in States, callback' \in Leases \cup {None},
           src' \in [Leases -> SourceSteps],
           \A s \in shut : src'[s] \in {"asking", "up"} => src[s] \in {"asking", "up"}
    PROVE  StreamInv'
<1> USE DEF callVars, coordVars, sessionVars, agentVars, historyVars
<1>0. /\ TypeOK /\ con \in [Consumers -> ConsumerSteps]
      /\ EveryConsumerFits /\ EveryTeardownFits /\ FieldsAgree /\ AgentsNameLease
  BY Types DEF StreamInv
<1>1. TypeOK'
  <2>1. con' \in [Consumers -> ConsumerSteps]  BY <1>0
  <2>2. CallType'  BY <1>0 DEF TypeOK, CallType
  <2>3. /\ co' \in Fields /\ fan' \in [Leases -> Fan] /\ startup' \in [Leases -> Startups]
        /\ shut' \subseteq Leases /\ dialled' \in Leases \cup {None}
        /\ owns' \subseteq Leases /\ gone' \subseteq Leases /\ td' \in [Leases -> Teardowns]
        /\ drain' \in Drains /\ hanger' \in Hangers
        /\ told' \subseteq Consumers /\ rung' \subseteq Dialogs /\ ended' \subseteq Leases /\ robbed' \subseteq Leases
    BY <1>0, Types
  <2> QED
    BY <2>1, <2>2, <2>3 DEF TypeOK, CoordinatorType, StreamType, AgentType, Fields, Fan,
       Startups, SourceSteps, Teardowns, ConsumerSteps, Drains, Hangers
<1>2. Unheard' = Unheard  BY DEF Unheard
<1>3. EveryConsumerFits'
  <2>1. \A d \in Consumers : ConsumerFits(d, con[d], co', fan', startup', Unheard')
    BY <1>0, <1>2, ConsumersStand
  <2> QED  BY <1>0, <1>2, <2>1, OneConsumerMoves
<1>4. EveryTeardownFits'  BY <1>0, TeardownsStand
<1>5. FieldsAgree' /\ AgentsNameLease'  BY <1>0 DEF FieldsAgree, AgentsNameLease
<1> QED  BY <1>1, <1>3, <1>4, <1>5 DEF StreamInv

\* Goes moves the counter of one consumer and nothing else of it.
LEMMA GoesMoves ==
    ASSUME con \in [Consumers -> ConsumerSteps], NEW c \in Consumers,
           NEW pc \in ConsumerPCs, Goes(c, pc)
    PROVE  LET r2 == [con[c] EXCEPT !.pc = pc]
           IN /\ con' = [con EXCEPT ![c] = r2]
              /\ r2 \in ConsumerSteps /\ r2.pc = pc /\ r2.lease = con[c].lease
              /\ r2.snap = con[c].snap /\ r2.answered = con[c].answered
BY DEF Goes, ConsumerSteps
\* What the invariant says of one consumer.
LEMMA ConsumerFacts ==
    ASSUME StreamInv, NEW c \in Consumers
    PROVE  /\ con \in [Consumers -> ConsumerSteps] /\ con[c] \in ConsumerSteps
           /\ con[c].pc \in ConsumerPCs /\ con[c].lease \in Leases \cup {None}
           /\ ConsumerFits(c, con[c], co, fan, startup, Unheard)
           /\ NamesLease(con[c].snap) /\ con[c].snap \in Snapshots
           /\ state \in States /\ callback \in Leases \cup {None}
           /\ src \in [Leases -> SourceSteps]
           /\ c # None /\ None \notin Leases
<1>1. con[c] \in ConsumerSteps /\ ConsumerFits(c, con[c], co, fan, startup, Unheard)
  BY Types DEF StreamInv, EveryConsumerFits
<1>2. c # None /\ None \notin Leases  BY ConsumersAssumption, NoneAssumption DEF Leases
<1> QED  BY <1>1, <1>2, Types DEF StreamInv, ConsumerFits, ConsumerSteps

\* A consumer is done, or goes from one step of its startup to the next.
LEMMA GoesKeeps ==
    ASSUME StreamInv, NEW c \in Consumers, NEW pc \in ConsumerPCs, Goes(c, pc),
           UNCHANGED <<callVars, coordVars, shut, dialled, sessionVars, td, agentVars, told,
                       state, historyVars>>,
           callback' \in Leases \cup {None}, src' \in [Leases -> SourceSteps],
           \A s \in shut : src'[s] \in {"asking", "up"} => src[s] \in {"asking", "up"},
           \/ /\ pc = "done"
              /\ co.lease = c => co.stopping \/ con[c].pc \in HoldPCs
              /\ co.talker = c => con[c].pc \notin {"untalking", "untalkingLast"}
           \/ con[c].pc \in StartPCs /\ pc \in StartPCs \ {"reserved"}
    PROVE  StreamInv'
<1> DEFINE r2 == [con[c] EXCEPT !.pc = pc]
<1>0. /\ con[c].pc \in ConsumerPCs /\ NamesLease(con[c].snap)
      /\ ConsumerFits(c, con[c], co, fan, startup, Unheard)
      /\ con \in [Consumers -> ConsumerSteps] /\ state' \in States
  BY ConsumerFacts
<1>1. /\ con' = [con EXCEPT ![c] = r2]
      /\ r2 \in ConsumerSteps /\ r2.pc = pc /\ r2.lease = con[c].lease /\ r2.snap = con[c].snap
  BY <1>0, GoesMoves
<1> HIDE DEF r2
<1>2. ConsumerFits(c, r2, co, fan, startup, Unheard)
  <2>1. CASE pc = "done" /\ (co.lease = c => co.stopping \/ con[c].pc \in HoldPCs)
             /\ (co.talker = c => con[c].pc \notin {"untalking", "untalkingLast"})
    BY <1>0, <1>1, <2>1, DoneFits
  <2>2. CASE con[c].pc \in StartPCs /\ pc \in StartPCs \ {"reserved"}
    <3>1. pc # "finishing"  BY <2>2 DEF StartPCs
    <3> QED  BY <1>0, <1>1, <2>2, <3>1, StartingFits
  <2> QED  BY <2>1, <2>2
<1> QED  BY <1>0, <1>1, <1>2, MoverKeeps

\* The probes of the call, before the lease and again after the startup.
LEMMA ProbesKeep ==
    ASSUME StreamInv, NEW c \in Consumers,
           ProbesRinging(c) \/ ProbesAnswered(c) \/ ProbesAnsweredAgain(c)
    PROVE  StreamInv'
<1>0. /\ con[c] \in ConsumerSteps /\ NamesLease(con[c].snap)
      /\ ConsumerFits(c, con[c], co, fan, startup, Unheard)
      /\ con \in [Consumers -> ConsumerSteps] /\ state \in States
      /\ callback \in Leases \cup {None} /\ src \in [Leases -> SourceSteps]
  BY ConsumerFacts
<1>1. /\ UNCHANGED <<callVars, coordVars, shut, dialled, sessionVars, td, agentVars, told,
                     historyVars>>
      /\ state' = state /\ callback' = callback /\ src' = src
  BY DEF ProbesRinging, ProbesAnswered, ProbesAnsweredAgain, sourceVars
<1>2. ASSUME NEW r2 \in ConsumerSteps, con' = [con EXCEPT ![c] = r2],
             ConsumerFits(c, r2, co, fan, startup, Unheard)
      PROVE  StreamInv'
  BY <1>0, <1>1, <1>2, MoverKeeps
<1>3. CASE ProbesRinging(c)
  <2> DEFINE r2 == [con[c] EXCEPT !.pc = "ringProbed", !.ring = ringing]
  <2>1. ringing \in Dialogs \cup {None}  BY Types DEF StreamInv, CallType
  <2>2. /\ con' = [con EXCEPT ![c] = r2] /\ r2 \in ConsumerSteps
        /\ r2.pc = "ringProbed" /\ r2.lease = con[c].lease /\ r2.snap = con[c].snap
    BY <1>0, <1>3, <2>1 DEF ProbesRinging, ConsumerSteps, ConsumerPCs
  <2> HIDE DEF r2
  <2>3. con[c].pc \in BeforePCs /\ r2.pc \in BeforePCs
    BY <1>3, <2>2 DEF ProbesRinging, At, BeforePCs
  <2>4. ConsumerFits(c, r2, co, fan, startup, Unheard)
    BY <1>0, <2>2, <2>3, StartingFits
  <2> QED  BY <1>2, <2>2, <2>4
<1>4. CASE ProbesAnswered(c)
  <2> DEFINE r2 == [con[c] EXCEPT !.pc = "probed", !.answered = answered # None]
  <2>1. (answered # None) \in BOOLEAN  OBVIOUS
  <2>2. /\ con' = [con EXCEPT ![c] = r2] /\ r2 \in ConsumerSteps
        /\ r2.pc = "probed" /\ r2.lease = con[c].lease /\ r2.snap = con[c].snap
    BY <1>0, <1>4, <2>1 DEF ProbesAnswered, ConsumerSteps, ConsumerPCs
  <2> HIDE DEF r2
  <2>3. con[c].pc \in BeforePCs /\ r2.pc \in BeforePCs
    BY <1>4, <2>2 DEF ProbesAnswered, At, BeforePCs
  <2>4. ConsumerFits(c, r2, co, fan, startup, Unheard)
    BY <1>0, <2>2, <2>3, StartingFits
  <2> QED  BY <1>2, <2>2, <2>4
<1>5. CASE ProbesAnsweredAgain(c)
  <2> DEFINE r2 == [con[c] EXCEPT !.pc = "finishing", !.answered = answered # None]
  <2>1. (answered # None) \in BOOLEAN  OBVIOUS
  <2>2. /\ con' = [con EXCEPT ![c] = r2] /\ r2 \in ConsumerSteps
        /\ r2.pc = "finishing" /\ r2.lease = con[c].lease /\ r2.snap = con[c].snap
    BY <1>0, <1>5, <2>1 DEF ProbesAnsweredAgain, ConsumerSteps, ConsumerPCs
  <2>a. r2.answered = (answered # None)  BY <1>0 DEF ConsumerSteps
  <2> HIDE DEF r2
  <2>3. con[c].pc \in StartPCs /\ r2.pc \in (StartPCs \cup {"finishing"}) \ {"reserved"}
    BY <1>5, <2>2 DEF ProbesAnsweredAgain, At, StartPCs
  <2>4. Unheard => r2.answered  BY <2>a DEF Unheard
  <2>5. ConsumerFits(c, r2, co, fan, startup, Unheard)
    BY <1>0, <2>2, <2>3, <2>4, StartingFits
  <2> QED  BY <1>2, <2>2, <2>5
<1> QED  BY <1>3, <1>4, <1>5
\* join that fails, and the steps of a startup between the critical sections.
LEMMA QuietStepsKeep ==
    ASSUME StreamInv, NEW c \in Consumers,
           \/ JoinFails(c) \/ JoinTimesOut(c) \/ MakesSource(c) \/ LaunchSource(c)
           \/ StartReturns(c) \/ StartTimesOut(c)
    PROVE  StreamInv'
<1>0. /\ con[c].pc \in ConsumerPCs /\ ConsumerFits(c, con[c], co, fan, startup, Unheard)
      /\ callback \in Leases \cup {None} /\ src \in [Leases -> SourceSteps]
  BY ConsumerFacts
<1>1. CASE JoinFails(c) \/ JoinTimesOut(c)
  <2>1. Goes(c, "done") /\ con[c].pc = "joining" /\ src' = src /\ callback' = callback
    BY <1>1 DEF JoinFails, JoinTimesOut, At, sourceVars
  <2>2. co.lease # c /\ "done" \in ConsumerPCs
    BY <1>0, <2>1 DEF ConsumerFits, OwnsLease, ConsumerPCs
  <2> QED  BY <1>0, <1>1, <2>1, <2>2, GoesKeeps DEF JoinFails, JoinTimesOut, sourceVars
<1>2. CASE MakesSource(c)
  <2>1. CASE src' = [src EXCEPT ![c] = "made"] /\ callback' = c /\ Goes(c, "made")
    <3>1. callback' \in Leases \cup {None}  BY <2>1 DEF Leases
    <3>2. src' \in [Leases -> SourceSteps]  BY <1>0, <2>1 DEF SourceSteps
    <3>3. \A s \in shut : src'[s] \in {"asking", "up"} => src[s] \in {"asking", "up"}
      <4>1. shut \subseteq Leases  BY Types DEF StreamInv
      <4> QED  BY <1>0, <2>1, <4>1
    <3>4. /\ "made" \in ConsumerPCs /\ con[c].pc \in StartPCs
          /\ "made" \in StartPCs \ {"reserved"}
      BY <1>2 DEF MakesSource, At, StartPCs, ConsumerPCs
    <3> QED  BY <1>2, <2>1, <3>1, <3>2, <3>3, <3>4, GoesKeeps DEF MakesSource
  <2>2. CASE Goes(c, "aborting") /\ UNCHANGED <<src, callback>>
    <3>1. /\ "aborting" \in ConsumerPCs /\ con[c].pc \in StartPCs
          /\ "aborting" \in StartPCs \ {"reserved"}
      BY <1>2 DEF MakesSource, At, StartPCs, ConsumerPCs
    <3> QED  BY <1>0, <1>2, <2>2, <3>1, GoesKeeps DEF MakesSource
  <2> QED  BY <1>2, <2>1, <2>2 DEF MakesSource
<1>3. CASE LaunchSource(c)
  <2>1. src' \in [Leases -> SourceSteps]  BY <1>0, <1>3 DEF SourceSteps, LaunchSource
  <2>2. \A s \in shut : src'[s] \in {"asking", "up"} => src[s] \in {"asking", "up"}
    <3>1. shut \subseteq Leases  BY Types DEF StreamInv
    <3> QED  BY <1>0, <1>3, <3>1 DEF LaunchSource
  <2>3. /\ "starting" \in ConsumerPCs /\ con[c].pc \in StartPCs
        /\ "starting" \in StartPCs \ {"reserved"}
    BY <1>3 DEF LaunchSource, At, StartPCs, ConsumerPCs
  <2> QED  BY <1>0, <1>3, <2>1, <2>2, <2>3, GoesKeeps DEF LaunchSource
<1>4. CASE StartReturns(c) \/ StartTimesOut(c)
  <2>1. PICK pc \in {"started", "failed", "timedOut"} : Goes(c, pc)
    BY <1>4 DEF StartReturns, StartTimesOut
  <2>2. /\ pc \in ConsumerPCs /\ con[c].pc \in StartPCs /\ pc \in StartPCs \ {"reserved"}
    BY <1>4 DEF StartReturns, StartTimesOut, At, StartPCs, ConsumerPCs
  <2>3. /\ src' = src /\ callback' = callback
        /\ UNCHANGED <<callVars, coordVars, shut, dialled, sessionVars, td, agentVars, told,
                       state, historyVars>>
    BY <1>4 DEF StartReturns, StartTimesOut, sourceVars
  <2> QED  BY <1>0, <2>1, <2>2, <2>3, GoesKeeps
<1> QED  BY <1>1, <1>2, <1>3, <1>4

\* A consumer that has finished its startup has a hold, and one that leaves
\* looks first whether its lease is current.
LEMMA HoldStepsKeep ==
    ASSUME StreamInv, NEW c \in Consumers,
           \/ AbortObserved(c) \/ StartObserved(c)
           \/ \E by \in {"released", "left"} : Leave(c, by)
    PROVE  StreamInv'
<1>0. /\ con[c] \in ConsumerSteps /\ con[c].pc \in ConsumerPCs /\ con[c].snap \in Snapshots
      /\ NamesLease(con[c].snap) /\ ConsumerFits(c, con[c], co, fan, startup, Unheard)
      /\ con \in [Consumers -> ConsumerSteps] /\ state \in States
      /\ callback \in Leases \cup {None} /\ src \in [Leases -> SourceSteps]
  BY ConsumerFacts
<1>a. TypeOK /\ FieldsAgree /\ Snapshot(IdleFields) \in Snapshots /\ NamesLease(Snapshot(IdleFields))
  BY SnapshotNames DEF StreamInv
<1>1. CASE AbortObserved(c)
  <2> DEFINE r2 == [con[c] EXCEPT !.pc = "done", !.snap = Snapshot(IdleFields)]
  <2>1. /\ con' = [con EXCEPT ![c] = r2] /\ r2 \in ConsumerSteps
        /\ r2.pc = "done" /\ r2.lease = con[c].lease /\ r2.snap = Snapshot(IdleFields)
    BY <1>0, <1>1, <1>a DEF AbortObserved, ConsumerSteps, ConsumerPCs
  <2> HIDE DEF r2
  <2>2. co.lease # c /\ con[c].pc \notin {"untalking", "untalkingLast"}
    BY <1>0, <1>1 DEF AbortObserved, At, ConsumerFits, OwnsLease
  <2>3. ConsumerFits(c, r2, co, fan, startup, Unheard)
    BY <1>0, <1>a, <2>1, <2>2, DoneFits
  <2>4. state' \in States  BY <1>0, <1>1, <1>a, ObserveType DEF AbortObserved
  <2> QED  BY <1>0, <1>1, <2>1, <2>3, <2>4, MoverKeeps DEF AbortObserved, sourceVars
<1>2. CASE StartObserved(c)
  <2> DEFINE r2 == [con[c] EXCEPT !.pc = "holding", !.snap = Snapshot(IdleFields)]
  <2>1. /\ con' = [con EXCEPT ![c] = r2] /\ r2 \in ConsumerSteps
        /\ r2.pc = "holding" /\ r2.lease = con[c].lease /\ r2.snap = Snapshot(IdleFields)
    BY <1>0, <1>2, <1>a DEF StartObserved, ConsumerSteps, ConsumerPCs
  <2> HIDE DEF r2
  <2>2. con[c].pc = "observing" /\ con[c].lease = c
    BY <1>0, <1>2 DEF StartObserved, At, ConsumerFits, HasLease
  <2>3. ConsumerFits(c, r2, co, fan, startup, Unheard)
    <3>1. c # None  BY ConsumerFacts
    <3>2. /\ OwnsLease(c, r2, co) /\ HasLease(c, r2) /\ JoinsLate(c, r2, startup)
          /\ OpenBefore(c, r2, co, fan) /\ LeavesClosed(r2, fan)
      BY <1>0, <2>1, <2>2, <3>1 DEF ConsumerFits, OwnsLease, HasLease, JoinsLate, OpenBefore,
         LeavesClosed, BeforePCs, StartPCs, HoldPCs
    <3>3. TalksOnStream(c, r2, co, fan) /\ HearsAnswer(c, r2, co, Unheard)
      BY <1>0, <2>1, <2>2 DEF ConsumerFits, TalksOnStream, HearsAnswer, StartPCs, HoldPCs
    <3> QED  BY <1>a, <2>1, <3>2, <3>3 DEF ConsumerFits
  <2>4. state' \in States  BY <1>0, <1>2, <1>a, ObserveType DEF StartObserved
  <2> QED  BY <1>0, <1>2, <2>1, <2>3, <2>4, MoverKeeps DEF StartObserved, sourceVars
<1>3. ASSUME NEW by \in {"released", "left"}, Leave(c, by), co.lease = con[c].lease
      PROVE  StreamInv'
  <2> DEFINE r2 == [con[c] EXCEPT !.pc = "leaving", !.by = by]
  <2>1. /\ con' = [con EXCEPT ![c] = r2] /\ r2 \in ConsumerSteps
        /\ r2.pc = "leaving" /\ r2.lease = con[c].lease /\ r2.snap = con[c].snap
    BY <1>0, <1>3 DEF Leave, ConsumerSteps, ConsumerPCs
  <2> HIDE DEF r2
  <2>2. con[c].pc = "holding"  BY <1>3 DEF Leave, At
  <2>3. ConsumerFits(c, r2, co, fan, startup, Unheard)
    <3>1. /\ OwnsLease(c, r2, co) /\ HasLease(c, r2) /\ JoinsLate(c, r2, startup)
          /\ OpenBefore(c, r2, co, fan) /\ LeavesClosed(r2, fan)
      BY <1>0, <2>1, <2>2 DEF ConsumerFits, OwnsLease, HasLease, JoinsLate, OpenBefore,
         LeavesClosed, BeforePCs, StartPCs, HoldPCs
    <3>2. TalksOnStream(c, r2, co, fan) /\ HearsAnswer(c, r2, co, Unheard)
      BY <1>0, <2>1, <2>2 DEF ConsumerFits, TalksOnStream, HearsAnswer, StartPCs, HoldPCs
    <3> QED  BY <1>0, <2>1, <3>1, <3>2 DEF ConsumerFits
  <2> QED  BY <1>0, <1>3, <2>1, <2>3, MoverKeeps DEF Leave, sourceVars
<1>4. ASSUME NEW by \in {"released", "left"}, Leave(c, by), co.lease # con[c].lease
      PROVE  StreamInv'
  <2>1. Goes(c, "done") /\ con[c].pc = "holding" /\ src' = src /\ callback' = callback
    BY <1>4 DEF Leave, At, sourceVars
  <2>2. con[c].pc \in HoldPCs /\ "done" \in ConsumerPCs
    BY <2>1 DEF HoldPCs, ConsumerPCs
  <2> QED  BY <1>0, <1>4, <2>1, <2>2, GoesKeeps DEF Leave, sourceVars
<1> QED  BY <1>1, <1>2, <1>3, <1>4
-----------------------------------------------------------------------------
(* Steps that change the coordinator, a fan-out or a startup *)

\* A step of a consumer in which no source, call, agent or history moves.
LEMMA CoordinatorKeeps ==
    ASSUME StreamInv,
           UNCHANGED <<callVars, shut, callback, dialled, sessionVars, agentVars, told, state,
                       historyVars>>,
           co' \in Fields, fan' \in [Leases -> Fan], startup' \in [Leases -> Startups],
           src' \in [Leases -> SourceSteps], td' \in [Leases -> Teardowns],
           con' \in [Consumers -> ConsumerSteps],
           FieldsAgree', EveryConsumerFits', EveryTeardownFits'
    PROVE  StreamInv'
<1> USE DEF callVars, sessionVars, agentVars, historyVars
<1>0. TypeOK /\ AgentsNameLease  BY DEF StreamInv
<1>1. TypeOK'
  <2>1. CallType'  BY <1>0 DEF TypeOK, CallType
  <2>2. /\ shut' \subseteq Leases /\ dialled' \in Leases \cup {None}
        /\ callback' \in Leases \cup {None}
        /\ owns' \subseteq Leases /\ gone' \subseteq Leases
        /\ drain' \in Drains /\ hanger' \in Hangers
        /\ told' \subseteq Consumers /\ state' \in States
        /\ rung' \subseteq Dialogs /\ ended' \subseteq Leases /\ robbed' \subseteq Leases
    BY <1>0, Types
  <2> QED
    BY <2>1, <2>2 DEF TypeOK, CoordinatorType, StreamType, AgentType, Fields, Fan,
       Startups, SourceSteps, Teardowns, ConsumerSteps, Drains, Hangers
<1>2. AgentsNameLease'  BY <1>0 DEF AgentsNameLease
<1> QED  BY <1>1, <1>2 DEF StreamInv

\* Somebody is added to a fan-out that is open: no teardown of it has begun, and
\* nobody is leaving it as the last one out.
LEMMA AddKeeps ==
    ASSUME StreamInv, NEW l \in Leases, NEW c \in Consumers, ~fan[l].closed, Adds(l, c),
           UNCHANGED <<co, startup, callVars, td, told, shut, src>>
    PROVE  /\ fan' \in [Leases -> Fan] /\ EveryTeardownFits'
           /\ \A d \in Consumers : ConsumerFits(d, con[d], co', fan', startup', Unheard')
<1>0. /\ fan \in [Leases -> Fan] /\ co \in Fields /\ EveryConsumerFits /\ EveryTeardownFits
      /\ FieldsAgree
  BY Types DEF StreamInv
<1>1. /\ fan' \in [Leases -> Fan]
      /\ \A m \in Leases : m # l => fan'[m] = fan[m]
      /\ fan'[l].closed = fan[l].closed /\ fan[l].members \subseteq fan'[l].members
  BY <1>0 DEF Adds, Fan
<1>2. ASSUME NEW d \in Consumers
      PROVE  ConsumerFits(d, con[d], co', fan', startup', Unheard')
  <2>1. /\ ConsumerFits(d, con[d], co, fan, startup, Unheard)
        /\ con[d].lease \in Leases \cup {None} /\ d # None /\ None \notin Leases
    BY ConsumerFacts
  <2>2. Unheard \in BOOLEAN /\ Unheard' = Unheard  BY DEF Unheard, callVars
  <2>3. fan'[d].closed => fan[d].closed  BY <1>1 DEF Leases
  <2>4. fan[con[d].lease].members = {} /\ fan[con[d].lease].closed =>
            fan'[con[d].lease].members = {} /\ fan'[con[d].lease].closed
    <3>1. CASE con[d].lease = None  BY <1>0, <2>1, <3>1 DEF Adds
    <3>2. CASE con[d].lease \in Leases  BY <1>1, <3>2
    <3> QED  BY <2>1, <3>1, <3>2
  <2>5. co.talker = d /\ d \in fan[co.lease].members => d \in fan'[co.lease].members
    <3>1. ASSUME co.talker = d PROVE co.lease \in Leases
      BY <1>0, <2>1, <3>1 DEF ConsumerFits, TalksOnStream, Fields
    <3> QED  BY <1>1, <3>1
  <2> QED  BY <2>1, <2>2, <2>3, <2>4, <2>5, BystanderFits
<1>3. ASSUME NEW m \in Leases
      PROVE  TeardownFits(m, td'[m], co', fan', told', shut', src')
  <2>1. TeardownFits(m, td[m], co, fan, told, shut, src)  BY <1>0 DEF EveryTeardownFits
  <2>2. fan[m].closed => fan'[m] = fan[m]  BY <1>1
  <2> QED  BY <2>1, <2>2, TeardownKeeps
<1> QED  BY <1>1, <1>2, <1>3 DEF EveryTeardownFits

\* join, once the startup went well
LEMMA JoinAddsKeeps == ASSUME StreamInv, NEW c \in Consumers, JoinAdds(c) PROVE StreamInv'
<1>0. /\ con[c].pc = "joining" /\ con[c].lease \in Leases /\ co.lease # c /\ None # c
      /\ con \in [Consumers -> ConsumerSteps] /\ NamesLease(con[c].snap)
      /\ src \in [Leases -> SourceSteps] /\ callback \in Leases \cup {None}
      /\ ConsumerFits(c, con[c], co, fan, startup, Unheard)
      /\ startup[con[c].lease] = "up"
  <2>1. con[c].pc = "joining" /\ startup[con[c].lease] = "up"  BY DEF JoinAdds, At
  <2> QED  BY <2>1, ConsumerFacts DEF ConsumerFits, HasLease, OwnsLease, BeforePCs
<1>1. CASE fan[con[c].lease].closed
  <2>1. Goes(c, "done") /\ UNCHANGED <<coordVars, src, callback>> /\ "done" \in ConsumerPCs
    BY <1>1 DEF JoinAdds, coordVars, sourceVars, ConsumerPCs
  <2> QED  BY <1>0, <2>1, GoesKeeps DEF JoinAdds, sourceVars
<1>2. CASE ~fan[con[c].lease].closed
  <2> DEFINE r2 == [con[c] EXCEPT !.pc = "holding"]
  <2>1. Goes(c, "holding") /\ Adds(con[c].lease, c) /\ "holding" \in ConsumerPCs
    BY <1>2 DEF JoinAdds, ConsumerPCs
  <2>2. /\ con' = [con EXCEPT ![c] = r2] /\ r2 \in ConsumerSteps
        /\ r2.pc = "holding" /\ r2.lease = con[c].lease /\ r2.snap = con[c].snap
    BY <1>0, <2>1, GoesMoves
  <2> HIDE DEF r2
  <2>3. UNCHANGED <<co, startup, callVars, td, told, shut, src>>  BY DEF JoinAdds, sourceVars
  <2>4. /\ fan' \in [Leases -> Fan] /\ EveryTeardownFits'
        /\ \A d \in Consumers : ConsumerFits(d, con[d], co', fan', startup', Unheard')
    BY <1>0, <1>2, <2>1, <2>3, AddKeeps
  <2>5. ConsumerFits(c, r2, co', fan', startup', Unheard')
    <3>1. ConsumerFits(c, con[c], co', fan', startup', Unheard')  BY <2>4
    <3>2. co'.lease # c /\ startup'[r2.lease] = "up"  BY <1>0, <2>2, <2>3
    <3>3. OwnsLease(c, r2, co') /\ HearsAnswer(c, r2, co', Unheard')
      BY <3>2 DEF OwnsLease, HearsAnswer
    <3>4. /\ HasLease(c, r2) /\ JoinsLate(c, r2, startup')
          /\ OpenBefore(c, r2, co', fan') /\ LeavesClosed(r2, fan')
      BY <1>0, <2>2, <3>1, <3>2 DEF ConsumerFits, HasLease, JoinsLate, OpenBefore,
         LeavesClosed, BeforePCs, StartPCs, HoldPCs
    <3>5. TalksOnStream(c, r2, co', fan')
      BY <1>0, <3>1 DEF ConsumerFits, TalksOnStream, HoldPCs
    <3> QED  BY <1>0, <2>2, <3>3, <3>4, <3>5 DEF ConsumerFits
  <2>6. EveryConsumerFits'  BY <1>0, <2>2, <2>4, <2>5, OneConsumerMoves
  <2>7. FieldsAgree'  BY <2>3 DEF StreamInv, FieldsAgree
  <2>8. con' \in [Consumers -> ConsumerSteps]  BY <1>0, <2>2
  <2>9. co' \in Fields /\ startup' \in [Leases -> Startups] /\ td' \in [Leases -> Teardowns]
        /\ src' \in [Leases -> SourceSteps]
    BY <2>3, Types DEF StreamInv
  <2> QED
    BY <2>4, <2>6, <2>7, <2>8, <2>9, CoordinatorKeeps DEF JoinAdds, sourceVars
<1> QED  BY <1>1, <1>2

\* The owner of a new lease adds itself, unless a teardown was quicker.
LEMMA AddsItselfKeeps == ASSUME StreamInv, NEW c \in Consumers, AddsItself(c) PROVE StreamInv'
<1>0. /\ con[c].pc = "reserved" /\ c \in Leases
      /\ con \in [Consumers -> ConsumerSteps] /\ NamesLease(con[c].snap)
      /\ src \in [Leases -> SourceSteps] /\ callback \in Leases \cup {None}
      /\ ConsumerFits(c, con[c], co, fan, startup, Unheard)
  BY ConsumerFacts DEF AddsItself, At, Leases
<1>1. CASE fan[c].closed
  <2>1. Goes(c, "done") /\ UNCHANGED <<coordVars, src, callback>> /\ "done" \in ConsumerPCs
    BY <1>1 DEF AddsItself, coordVars, sourceVars, ConsumerPCs
  <2>2. co.lease = c => co.stopping  BY <1>0, <1>1 DEF ConsumerFits, OpenBefore
  <2> QED  BY <1>0, <2>1, <2>2, GoesKeeps DEF AddsItself, sourceVars
<1>2. CASE ~fan[c].closed
  <2> DEFINE r2 == [con[c] EXCEPT !.pc = "added"]
  <2>1. Goes(c, "added") /\ Adds(c, c) /\ "added" \in ConsumerPCs
    BY <1>2 DEF AddsItself, ConsumerPCs
  <2>2. /\ con' = [con EXCEPT ![c] = r2] /\ r2 \in ConsumerSteps
        /\ r2.pc = "added" /\ r2.lease = con[c].lease /\ r2.snap = con[c].snap
    BY <1>0, <2>1, GoesMoves
  <2> HIDE DEF r2
  <2>3. UNCHANGED <<co, startup, callVars, td, told, shut, src>>  BY DEF AddsItself, sourceVars
  <2>4. /\ fan' \in [Leases -> Fan] /\ EveryTeardownFits'
        /\ \A d \in Consumers : ConsumerFits(d, con[d], co', fan', startup', Unheard')
    BY <1>0, <1>2, <2>1, <2>3, AddKeeps
  <2>5. ConsumerFits(c, r2, co', fan', startup', Unheard')
    <3>1. ConsumerFits(c, con[c], co', fan', startup', Unheard')  BY <2>4
    <3>2. /\ con[c].pc \in StartPCs /\ r2.pc # "finishing"
          /\ r2.pc \in (StartPCs \cup {"finishing"}) \ {"reserved"}
      BY <1>0, <2>2 DEF StartPCs
    <3> QED  BY <1>0, <2>2, <3>1, <3>2, StartingFits
  <2>6. EveryConsumerFits'  BY <1>0, <2>2, <2>4, <2>5, OneConsumerMoves
  <2>7. FieldsAgree'  BY <2>3 DEF StreamInv, FieldsAgree
  <2>8. con' \in [Consumers -> ConsumerSteps]  BY <1>0, <2>2
  <2>9. co' \in Fields /\ startup' \in [Leases -> Startups] /\ td' \in [Leases -> Teardowns]
        /\ src' \in [Leases -> SourceSteps]
    BY <2>3, Types DEF StreamInv
  <2> QED
    BY <2>4, <2>6, <2>7, <2>8, <2>9, CoordinatorKeeps DEF AddsItself, sourceVars
<1> QED  BY <1>1, <1>2
\* The fields change under a lease that stays, or stays away.
LEMMA FieldsMove ==
    ASSUME StreamInv, co' \in Fields, co'.lease = co.lease, co'.stopping = co.stopping,
           co'.owner = "companion" <=> co.owner = "companion",
           co'.promoting => co'.lease # None,
           co'.starting => co.starting, co'.preview => co.preview,
           co'.preview /\ co.promotePending => co'.promotePending,
           co'.talker \in {co.talker, None},
           UNCHANGED <<fan, startup, callVars, td, told, shut, src>>
    PROVE  /\ FieldsAgree' /\ EveryTeardownFits'
           /\ \A d \in Consumers : ConsumerFits(d, con[d], co', fan', startup', Unheard')
<1>0. EveryConsumerFits /\ EveryTeardownFits /\ FieldsAgree  BY DEF StreamInv
<1>1. FieldsAgree'  BY <1>0 DEF FieldsAgree
<1>2. ASSUME NEW d \in Consumers
      PROVE  ConsumerFits(d, con[d], co', fan', startup', Unheard')
  <2>1. ConsumerFits(d, con[d], co, fan, startup, Unheard) /\ d # None
    BY ConsumerFacts
  <2>2. Unheard \in BOOLEAN /\ Unheard' = Unheard  BY DEF Unheard, callVars
  <2> QED  BY <2>1, <2>2, BystanderFits
<1>3. ASSUME NEW m \in Leases
      PROVE  TeardownFits(m, td'[m], co', fan', told', shut', src')
  <2>1. TeardownFits(m, td[m], co, fan, told, shut, src)  BY <1>0 DEF EveryTeardownFits
  <2> QED  BY <2>1, TeardownKeeps
<1> QED  BY <1>1, <1>2, <1>3 DEF EveryTeardownFits

\* attachSource
LEMMA AttachSourceKeeps == ASSUME StreamInv, NEW c \in Consumers, AttachSource(c) PROVE StreamInv'
<1>0. /\ con[c].pc = "made" /\ c \in Leases /\ co \in Fields
      /\ con \in [Consumers -> ConsumerSteps] /\ NamesLease(con[c].snap)
      /\ src \in [Leases -> SourceSteps] /\ callback \in Leases \cup {None}
      /\ ConsumerFits(c, con[c], co, fan, startup, Unheard)
  BY ConsumerFacts, Types DEF StreamInv, AttachSource, At, Leases
<1>1. CASE co.lease # c
  <2>1. Goes(c, "done") /\ src' = [src EXCEPT ![c] = "closed"] /\ "done" \in ConsumerPCs
        /\ UNCHANGED coordVars
    BY <1>1 DEF AttachSource, ConsumerPCs, coordVars
  <2>2. src' \in [Leases -> SourceSteps]  BY <1>0, <2>1 DEF SourceSteps
  <2>3. \A s \in shut : src'[s] \in {"asking", "up"} => src[s] \in {"asking", "up"}
    <3>1. shut \subseteq Leases  BY Types DEF StreamInv
    <3> QED  BY <1>0, <2>1, <3>1
  <2> QED  BY <1>0, <1>1, <2>1, <2>2, <2>3, GoesKeeps DEF AttachSource
<1>2. CASE co.lease = c
  <2> DEFINE r2 == [con[c] EXCEPT !.pc = "attached"]
  <2>1. Goes(c, "attached") /\ co' = [co EXCEPT !.source = c] /\ "attached" \in ConsumerPCs
    BY <1>2 DEF AttachSource, ConsumerPCs
  <2>2. /\ con' = [con EXCEPT ![c] = r2] /\ r2 \in ConsumerSteps
        /\ r2.pc = "attached" /\ r2.lease = con[c].lease /\ r2.snap = con[c].snap
    BY <1>0, <2>1, GoesMoves
  <2> HIDE DEF r2
  <2>3. UNCHANGED <<fan, startup, callVars, td, told, shut, src>>
    BY <1>2 DEF AttachSource
  <2>4. /\ co' \in Fields /\ co'.lease = co.lease /\ co'.stopping = co.stopping
        /\ co'.owner = co.owner /\ co'.promoting = co.promoting /\ co'.starting = co.starting
        /\ co'.preview = co.preview /\ co'.promotePending = co.promotePending
        /\ co'.talker = co.talker
    BY <1>0, <2>1 DEF Fields
  <2>5. /\ FieldsAgree' /\ EveryTeardownFits'
        /\ \A d \in Consumers : ConsumerFits(d, con[d], co', fan', startup', Unheard')
    <3>1. co'.promoting => co'.lease # None  BY <2>4 DEF StreamInv, FieldsAgree
    <3> QED  BY <2>3, <2>4, <3>1, FieldsMove
  <2>6. ConsumerFits(c, r2, co', fan', startup', Unheard')
    <3>1. ConsumerFits(c, con[c], co', fan', startup', Unheard')  BY <2>5
    <3>2. /\ con[c].pc \in StartPCs /\ r2.pc # "finishing"
          /\ r2.pc \in (StartPCs \cup {"finishing"}) \ {"reserved"}
      BY <1>0, <2>2 DEF StartPCs
    <3> QED  BY <1>0, <2>2, <3>1, <3>2, StartingFits
  <2>7. EveryConsumerFits'  BY <1>0, <2>2, <2>5, <2>6, OneConsumerMoves
  <2>8. con' \in [Consumers -> ConsumerSteps]  BY <1>0, <2>2
  <2>9. fan' \in [Leases -> Fan] /\ startup' \in [Leases -> Startups]
        /\ td' \in [Leases -> Teardowns] /\ src' \in [Leases -> SourceSteps]
    BY <2>3, Types DEF StreamInv
  <2> QED
    BY <2>4, <2>5, <2>7, <2>8, <2>9, CoordinatorKeeps DEF AttachSource
<1> QED  BY <1>1, <1>2

\* takePromotionLocked ends a preview and touches neither the lease nor a stop.
LEMMA TakePromotionFields ==
    ASSUME co \in Fields
    PROVE  /\ TakePromotion \in Fields /\ TakePromotion.lease = co.lease
           /\ TakePromotion.stopping = co.stopping /\ TakePromotion.owner = co.owner
           /\ TakePromotion.starting = co.starting /\ TakePromotion.preview = FALSE
           /\ TakePromotion.talker = co.talker
BY DEF TakePromotion, Fields, Tracks

\* finishStart: a preview that has heard of the answer ends with the startup.
LEMMA FinishStartKeeps == ASSUME StreamInv, NEW c \in Consumers, FinishStart(c) PROVE StreamInv'
<1>0. /\ con[c].pc = "finishing" /\ con[c].lease = c /\ co \in Fields /\ c # None
      /\ con[c] \in ConsumerSteps
      /\ con \in [Consumers -> ConsumerSteps] /\ NamesLease(con[c].snap)
      /\ src \in [Leases -> SourceSteps] /\ callback \in Leases \cup {None}
      /\ ConsumerFits(c, con[c], co, fan, startup, Unheard)
      /\ FieldsAgree /\ Snapshot(co) \in Snapshots /\ NamesLease(Snapshot(co))
  <2>1. con[c].pc = "finishing"  BY DEF FinishStart, At
  <2>2. con[c].lease = c  BY <2>1, ConsumerFacts DEF ConsumerFits, HasLease
  <2> QED  BY <2>1, <2>2, ConsumerFacts, Types, SnapshotNames DEF StreamInv
<1>1. CASE co.lease # c
  <2> DEFINE r2 == [con[c] EXCEPT !.pc = "holding"]
  <2>1. Goes(c, "holding") /\ "holding" \in ConsumerPCs /\ UNCHANGED coordVars
        /\ src' = src /\ callback' = callback /\ state' \in States
    BY <1>1, Types DEF FinishStart, ConsumerPCs, coordVars, sourceVars, StreamInv
  <2>2. /\ con' = [con EXCEPT ![c] = r2] /\ r2 \in ConsumerSteps
        /\ r2.pc = "holding" /\ r2.lease = con[c].lease /\ r2.snap = con[c].snap
    BY <1>0, <2>1, GoesMoves
  <2> HIDE DEF r2
  <2>3. ConsumerFits(c, r2, co, fan, startup, Unheard)
    <3>1. OwnsLease(c, r2, co) /\ HearsAnswer(c, r2, co, Unheard)
      BY <1>1 DEF OwnsLease, HearsAnswer
    <3>2. /\ HasLease(c, r2) /\ JoinsLate(c, r2, startup)
          /\ OpenBefore(c, r2, co, fan) /\ LeavesClosed(r2, fan)
      BY <1>0, <2>2 DEF ConsumerFits, HasLease, JoinsLate, OpenBefore,
         LeavesClosed, BeforePCs, StartPCs, HoldPCs
    <3>3. TalksOnStream(c, r2, co, fan)
      BY <1>0, <2>2 DEF ConsumerFits, TalksOnStream, HoldPCs
    <3> QED  BY <1>0, <2>2, <3>1, <3>2, <3>3 DEF ConsumerFits
  <2> QED  BY <1>0, <2>1, <2>2, <2>3, MoverKeeps DEF FinishStart, sourceVars
<1>2. CASE co.lease = c
  <2> DEFINE r2 == [con[c] EXCEPT !.pc = "announcing", !.answered = FALSE,
                                  !.snap = Snapshot(co)]
             k == IF MustPromote(c) THEN TakePromotion ELSE co
  <2>1. /\ con' = [con EXCEPT ![c] = r2] /\ r2 \in ConsumerSteps
        /\ r2.pc = "announcing" /\ r2.lease = con[c].lease /\ r2.snap = Snapshot(co)
    BY <1>0, <1>2 DEF FinishStart, ConsumerSteps, ConsumerPCs
  <2>2. co' = [k EXCEPT !.starting = FALSE]  BY <1>2 DEF FinishStart
  <2>3. /\ k \in Fields /\ k.lease = co.lease /\ k.stopping = co.stopping
        /\ k.owner = co.owner /\ k.talker = co.talker
        /\ MustPromote(c) => k.preview = FALSE
        /\ ~MustPromote(c) => k = co
    BY <1>0, TakePromotionFields
  <2> HIDE DEF r2, k
  <2>4. /\ co' \in Fields /\ co'.lease = k.lease /\ co'.stopping = k.stopping
        /\ co'.owner = k.owner /\ co'.talker = k.talker /\ co'.preview = k.preview
        /\ co'.starting = FALSE /\ co'.promotePending = k.promotePending
    BY <2>2, <2>3 DEF Fields
  <2>5. UNCHANGED <<fan, startup, callVars, td, told, shut, src>>
    BY DEF FinishStart, sourceVars
  <2>6. /\ FieldsAgree' /\ EveryTeardownFits'
        /\ \A d \in Consumers : ConsumerFits(d, con[d], co', fan', startup', Unheard')
    <3>1. co'.preview => co.preview /\ (co.promotePending => co'.promotePending)
      BY <2>3, <2>4
    <3>2. co'.lease # None /\ co'.lease = co.lease /\ co'.stopping = co.stopping
          /\ co'.owner = co.owner /\ co'.talker = co.talker
      BY <1>0, <1>2, <2>3, <2>4
    <3> QED  BY <2>4, <2>5, <3>1, <3>2, FieldsMove
  <2>7. ConsumerFits(c, r2, co', fan', startup', Unheard')
    <3>1. ConsumerFits(c, con[c], co', fan', startup', Unheard')  BY <2>6
    <3>2. OwnsLease(c, r2, co')
      BY <1>0, <2>1, <2>4, <3>1 DEF ConsumerFits, OwnsLease, BeforePCs
    <3>3. /\ HasLease(c, r2) /\ JoinsLate(c, r2, startup')
          /\ OpenBefore(c, r2, co', fan') /\ LeavesClosed(r2, fan')
      BY <1>0, <2>1, <3>1 DEF ConsumerFits, HasLease, JoinsLate, OpenBefore,
         LeavesClosed, BeforePCs, StartPCs, HoldPCs
    <3>4. TalksOnStream(c, r2, co', fan')
      BY <1>0, <3>1 DEF ConsumerFits, TalksOnStream, HoldPCs
    <3>5. HearsAnswer(c, r2, co', Unheard')
      <4>1. Unheard' = Unheard  BY <2>5 DEF Unheard, callVars
      <4>2. Unheard /\ co.preview /\ ~co.stopping => MustPromote(c)
        BY <1>0, <1>2 DEF ConsumerFits, HearsAnswer, MustPromote, StartPCs
      <4> QED  BY <2>3, <2>4, <4>1, <4>2 DEF HearsAnswer
    <3> QED  BY <1>0, <2>1, <3>2, <3>3, <3>4, <3>5 DEF ConsumerFits
  <2>8. EveryConsumerFits'  BY <1>0, <2>1, <2>6, <2>7, OneConsumerMoves
  <2>9. con' \in [Consumers -> ConsumerSteps]  BY <1>0, <2>1
  <2>10. fan' \in [Leases -> Fan] /\ startup' \in [Leases -> Startups]
         /\ td' \in [Leases -> Teardowns] /\ src' \in [Leases -> SourceSteps]
    BY <2>5, Types DEF StreamInv
  <2> QED
    BY <2>4, <2>6, <2>8, <2>9, <2>10, CoordinatorKeeps DEF FinishStart, sourceVars
<1> QED  BY <1>1, <1>2
\* reserve: refused, or a consumer that is going to join, or a new lease.  Its
\* fan-out is open and its teardown has not begun.
LEMMA ReserveKeeps == ASSUME StreamInv, NEW c \in Consumers, Reserve(c) PROVE StreamInv'
<1>0. /\ con[c].pc = "probed" /\ co \in Fields /\ c # None /\ c \in Leases
      /\ con[c] \in ConsumerSteps /\ con[c].pc \in BeforePCs
      /\ con \in [Consumers -> ConsumerSteps] /\ NamesLease(con[c].snap)
      /\ src \in [Leases -> SourceSteps] /\ callback \in Leases \cup {None}
      /\ ConsumerFits(c, con[c], co, fan, startup, Unheard)
      /\ state \in States /\ FieldsAgree /\ co.lease # c /\ ~fan[c].closed
  <2>1. con[c].pc = "probed" /\ con[c].pc \in BeforePCs  BY DEF Reserve, At, BeforePCs
  <2>2. co.lease # c /\ ~fan[c].closed
    BY <2>1, ConsumerFacts DEF ConsumerFits, OwnsLease, OpenBefore
  <2> QED  BY <2>1, <2>2, ConsumerFacts, Types DEF StreamInv, Leases
<1>a. UNCHANGED <<callVars, fan, startup, sourceVars, td, agentVars, told, state, historyVars>>
  BY DEF Reserve
<1>1. CASE Goes(c, "done") /\ UNCHANGED co
  <2>1. "done" \in ConsumerPCs  BY DEF ConsumerPCs
  <2> QED  BY <1>0, <1>1, <1>a, <2>1, GoesKeeps DEF sourceVars, coordVars
<1>2. CASE /\ Joins(c)
           /\ con' = [con EXCEPT ![c].pc = "joining", ![c].lease = co.lease,
                                 ![c].ring = None, ![c].answered = FALSE]
           /\ UNCHANGED co
  <2> DEFINE r2 == [con[c] EXCEPT !.pc = "joining", !.lease = co.lease,
                                  !.ring = None, !.answered = FALSE]
  <2>1. /\ con' = [con EXCEPT ![c] = r2] /\ r2 \in ConsumerSteps
        /\ r2.pc = "joining" /\ r2.lease = co.lease /\ r2.snap = con[c].snap
    BY <1>0, <1>2 DEF ConsumerSteps, ConsumerPCs, Fields
  <2> HIDE DEF r2
  <2>2. ConsumerFits(c, r2, co, fan, startup, Unheard)
    <3>1. OwnsLease(c, r2, co) /\ HearsAnswer(c, r2, co, Unheard)
      BY <1>0 DEF OwnsLease, HearsAnswer
    <3>2. /\ HasLease(c, r2) /\ JoinsLate(c, r2, startup)
          /\ OpenBefore(c, r2, co, fan) /\ LeavesClosed(r2, fan)
      BY <1>0, <1>2, <2>1 DEF Joins, ConsumerFits, HasLease, JoinsLate, OpenBefore,
         LeavesClosed, BeforePCs, StartPCs, HoldPCs
    <3>3. TalksOnStream(c, r2, co, fan)
      BY <1>0, <2>1 DEF ConsumerFits, TalksOnStream, HoldPCs
    <3> QED  BY <1>0, <2>1, <3>1, <3>2, <3>3 DEF ConsumerFits
  <2> QED  BY <1>0, <1>2, <1>a, <2>1, <2>2, MoverKeeps DEF sourceVars, coordVars
<1>3. CASE /\ co.lease = None
           /\ con' = [con EXCEPT ![c].pc = "reserved", ![c].lease = c, ![c].answered = FALSE]
           /\ co' = NewLease(c)
  <2> DEFINE r2 == [con[c] EXCEPT !.pc = "reserved", !.lease = c, !.answered = FALSE]
  <2>1. /\ con' = [con EXCEPT ![c] = r2] /\ r2 \in ConsumerSteps
        /\ r2.pc = "reserved" /\ r2.lease = c /\ r2.snap = con[c].snap
    BY <1>0, <1>3 DEF ConsumerSteps, ConsumerPCs
  <2> HIDE DEF r2
  <2>2. /\ co' \in Fields /\ co'.lease = c /\ co'.owner = "companion" /\ co'.talker = None
        /\ co'.stopping = FALSE
    <3>1. IdleFields \in Fields /\ IdleFields.talker = None /\ IdleFields.stopping = FALSE
      BY DEF IdleFields, Fields
    <3>2. ASSUME NEW w \in Fields, NEW t \in BOOLEAN
          PROVE  LET k == [w EXCEPT !.lease = c, !.owner = "companion", !.starting = t]
                 IN /\ k \in Fields /\ k.lease = c /\ k.owner = "companion"
                    /\ k.talker = w.talker /\ k.stopping = w.stopping
      BY <1>0 DEF Fields
    <3>3. ASSUME NEW w \in Fields, NEW p \in BOOLEAN, NEW q \in BOOLEAN
          PROVE  LET k == [w EXCEPT !.preview = p, !.shared = q]
                 IN /\ k \in Fields /\ k.lease = w.lease /\ k.owner = w.owner
                    /\ k.talker = w.talker /\ k.stopping = w.stopping
      BY DEF Fields
    <3>4. ASSUME NEW w \in Fields, NEW s \in Leases \cup {None}, NEW o \in BOOLEAN
          PROVE  LET k == [w EXCEPT !.source = s, !.promoting = o]
                 IN /\ k \in Fields /\ k.lease = w.lease /\ k.owner = w.owner
                    /\ k.talker = w.talker /\ k.stopping = w.stopping
      BY DEF Fields
    <3>5. (con[c].ring # None) \in BOOLEAN /\ Shareable(c) \in BOOLEAN /\ TRUE \in BOOLEAN
          /\ co.source \in Leases \cup {None} /\ co.promoting \in BOOLEAN
      BY <1>0 DEF Shareable, Fields
    <3> DEFINE w1 == [IdleFields EXCEPT !.lease = c, !.owner = "companion", !.starting = TRUE]
               w2 == [w1 EXCEPT !.preview = con[c].ring # None, !.shared = Shareable(c)]
               w3 == [w2 EXCEPT !.source = co.source, !.promoting = co.promoting]
    <3>6. NewLease(c) = w3  BY DEF NewLease
    <3>7. w1 \in Fields /\ w1.lease = c /\ w1.owner = "companion" /\ w1.talker = None
          /\ w1.stopping = FALSE
      BY <3>1, <3>2, <3>5
    <3> HIDE DEF w1
    <3>8. w2 \in Fields /\ w2.lease = c /\ w2.owner = "companion" /\ w2.talker = None
          /\ w2.stopping = FALSE
      BY <3>3, <3>5, <3>7
    <3> HIDE DEF w2
    <3>9. w3 \in Fields /\ w3.lease = c /\ w3.owner = "companion" /\ w3.talker = None
          /\ w3.stopping = FALSE
      BY <3>4, <3>5, <3>8
    <3> HIDE DEF w3
    <3> QED  BY <1>3, <3>6, <3>9
  <2>3. FieldsAgree'  BY <1>0, <2>2 DEF FieldsAgree
  <2>4. ASSUME NEW d \in Consumers, d # c
        PROVE  ConsumerFits(d, con[d], co', fan', startup', Unheard')
    <3>1. ConsumerFits(d, con[d], co, fan, startup, Unheard) /\ d # None
      BY ConsumerFacts
    <3>2. Unheard \in BOOLEAN /\ Unheard' = Unheard  BY <1>a DEF Unheard, callVars
    <3>3. co'.lease # d /\ co'.talker # d /\ fan' = fan /\ startup' = startup
      BY <1>a, <2>2, <2>4, <3>1
    <3> QED  BY <3>1, <3>2, <3>3, BystanderFits
  <2>5. ConsumerFits(c, r2, co', fan', startup', Unheard')
    <3>1. OwnsLease(c, r2, co') /\ HearsAnswer(c, r2, co', Unheard')
      BY <2>1 DEF OwnsLease, HearsAnswer, StartPCs, BeforePCs
    <3>2. /\ HasLease(c, r2) /\ JoinsLate(c, r2, startup')
          /\ OpenBefore(c, r2, co', fan') /\ LeavesClosed(r2, fan')
      BY <1>0, <1>a, <2>1 DEF ConsumerFits, HasLease, JoinsLate, OpenBefore,
         LeavesClosed, BeforePCs, StartPCs, HoldPCs
    <3>3. TalksOnStream(c, r2, co', fan')  BY <1>0, <2>2 DEF TalksOnStream
    <3> QED  BY <1>0, <2>1, <3>1, <3>2, <3>3 DEF ConsumerFits
  <2>6. EveryConsumerFits'  BY <1>0, <2>1, <2>4, <2>5, OneConsumerMoves
  <2>7. EveryTeardownFits'
    <3> SUFFICES ASSUME NEW m \in Leases
                 PROVE  TeardownFits(m, td'[m], co', fan', told', shut', src')
      BY DEF EveryTeardownFits
    <3>1. TeardownFits(m, td[m], co, fan, told, shut, src)
      BY DEF StreamInv, EveryTeardownFits
    <3>2. UNCHANGED <<fan, td, told, shut, src>>  BY <1>a DEF sourceVars
    <3>3. co'.lease = m => ~fan[m].closed  BY <1>0, <2>2
    <3> QED  BY <3>1, <3>2, <3>3, TeardownKeeps
  <2>8. con' \in [Consumers -> ConsumerSteps]  BY <1>0, <2>1
  <2>9. fan' \in [Leases -> Fan] /\ startup' \in [Leases -> Startups]
         /\ td' \in [Leases -> Teardowns] /\ src' \in [Leases -> SourceSteps]
    BY <1>a, Types DEF StreamInv, sourceVars
  <2> QED
    BY <1>a, <2>2, <2>3, <2>6, <2>7, <2>8, <2>9, CoordinatorKeeps DEF sourceVars
<1> QED  BY <1>1, <1>2, <1>3 DEF Reserve

\* The acquire that could not make its source frees its lease.
LEMMA AbortResetsKeeps == ASSUME StreamInv, NEW c \in Consumers, AbortResets(c) PROVE StreamInv'
<1>0. /\ con[c].pc = "aborting" /\ con[c].lease = c /\ c # None /\ c \in Leases
      /\ con[c] \in ConsumerSteps /\ con \in [Consumers -> ConsumerSteps]
      /\ ConsumerFits(c, con[c], co, fan, startup, Unheard)
      /\ FieldsAgree /\ SnapshotAfterReset(c) \in Snapshots /\ NamesLease(SnapshotAfterReset(c))
  <2>1. con[c].pc = "aborting"  BY DEF AbortResets, At
  <2>2. con[c].lease = c  BY <2>1, ConsumerFacts DEF ConsumerFits, HasLease, StartPCs
  <2>3. SnapshotAfterReset(c) \in Snapshots /\ NamesLease(SnapshotAfterReset(c))
    BY SnapshotNames DEF SnapshotAfterReset, StreamInv
  <2> QED  BY <2>1, <2>2, <2>3, ConsumerFacts DEF StreamInv, Leases
<1>a. ResetFields(c) /\ UNCHANGED <<callVars, sourceVars, td, agentVars, told, state, historyVars>>
  BY DEF AbortResets
<1> DEFINE r2 == [con[c] EXCEPT !.pc = "abortObserving", !.snap = SnapshotAfterReset(c)]
<1>1. /\ con' = [con EXCEPT ![c] = r2] /\ r2 \in ConsumerSteps
      /\ r2.pc = "abortObserving" /\ r2.lease = con[c].lease /\ r2.snap = SnapshotAfterReset(c)
  BY <1>0 DEF AbortResets, ConsumerSteps, ConsumerPCs
<1> HIDE DEF r2
<1>2. /\ co' \in Fields /\ fan' \in [Leases -> Fan] /\ startup' \in [Leases -> Startups]
      /\ co'.lease # c /\ (co'.lease = None \/ co' = co)
      /\ co'.owner = "companion" <=> co'.lease # None
      /\ co'.promoting => co'.lease # None
      /\ co'.stopping => co'.stopping = co.stopping /\ co'.lease = co.lease
      /\ \A m \in Leases : fan'[m].members = fan[m].members
      /\ \A m \in Leases : fan[m].closed => fan'[m].closed
      /\ \A d \in Consumers : ConsumerFits(d, con[d], co', fan', startup', Unheard')
  BY <1>0, <1>a, ResetKeeps
<1>3. FieldsAgree'  BY <1>0, <1>a, <1>2 DEF FieldsAgree
<1>4. ConsumerFits(c, r2, co', fan', startup', Unheard')
  <2>1. ConsumerFits(c, con[c], co', fan', startup', Unheard')  BY <1>2
  <2>2. OwnsLease(c, r2, co') /\ HearsAnswer(c, r2, co', Unheard')
    BY <1>2 DEF OwnsLease, HearsAnswer
  <2>3. /\ HasLease(c, r2) /\ JoinsLate(c, r2, startup')
        /\ OpenBefore(c, r2, co', fan') /\ LeavesClosed(r2, fan')
    BY <1>0, <1>1, <2>1 DEF ConsumerFits, HasLease, JoinsLate, OpenBefore,
       LeavesClosed, BeforePCs, StartPCs, HoldPCs
  <2>4. TalksOnStream(c, r2, co', fan')
    BY <1>0, <2>1 DEF ConsumerFits, TalksOnStream, HoldPCs
  <2> QED  BY <1>0, <1>1, <2>2, <2>3, <2>4 DEF ConsumerFits
<1>5. EveryConsumerFits'  BY <1>0, <1>1, <1>2, <1>4, OneConsumerMoves
<1>6. EveryTeardownFits'
  <2> SUFFICES ASSUME NEW m \in Leases
               PROVE  TeardownFits(m, td'[m], co', fan', told', shut', src')
    BY DEF EveryTeardownFits
  <2>1. TeardownFits(m, td[m], co, fan, told, shut, src)
    BY DEF StreamInv, EveryTeardownFits
  <2>2. UNCHANGED <<td, told, shut, src>>  BY <1>a DEF sourceVars
  <2>3. co'.lease = m => co' = co
    BY <1>2, ConsumersAssumption, NoneAssumption DEF Leases
  <2> QED  BY <1>2, <2>1, <2>2, <2>3, TeardownKeeps
<1>7. con' \in [Consumers -> ConsumerSteps]  BY <1>0, <1>1
<1>8. td' \in [Leases -> Teardowns] /\ src' \in [Leases -> SourceSteps]
  BY <1>a, Types DEF StreamInv, sourceVars
<1> QED
  BY <1>a, <1>2, <1>3, <1>5, <1>6, <1>7, <1>8, CoordinatorKeeps DEF sourceVars
\* streamStart.finish(nil): the stream is up for those who wait to join it.
LEMMA AnnounceStartKeeps == ASSUME StreamInv, NEW c \in Consumers, AnnounceStart(c) PROVE StreamInv'
<1>0. /\ con[c].pc = "announcing" /\ con[c].lease = c /\ c # None /\ c \in Leases
      /\ con \in [Consumers -> ConsumerSteps] /\ NamesLease(con[c].snap)
      /\ startup \in [Leases -> Startups]
      /\ ConsumerFits(c, con[c], co, fan, startup, Unheard)
  <2>1. con[c].pc = "announcing"  BY DEF AnnounceStart, At
  <2>2. con[c].lease = c  BY <2>1, ConsumerFacts DEF ConsumerFits, HasLease
  <2> QED  BY <2>1, <2>2, ConsumerFacts, Types DEF StreamInv, Leases
<1>a. UNCHANGED <<callVars, co, fan, sourceVars, td, agentVars, told, state, historyVars>>
  BY DEF AnnounceStart
<1> DEFINE r2 == [con[c] EXCEPT !.pc = "observing"]
<1>1. /\ con' = [con EXCEPT ![c] = r2] /\ r2 \in ConsumerSteps
      /\ r2.pc = "observing" /\ r2.lease = c /\ r2.snap = con[c].snap
  <2>1. Goes(c, "observing") /\ "observing" \in ConsumerPCs  BY DEF AnnounceStart, ConsumerPCs
  <2> QED  BY <1>0, <2>1, GoesMoves
<1> HIDE DEF r2
<1>2. /\ startup' \in [Leases -> Startups]
      /\ \A m \in Leases : m # c => startup'[m] = startup[m]
      /\ startup[c] = "up" => startup'[c] = "up"
      /\ startup' = [startup EXCEPT ![c] = IF startup[c] = "pending" THEN "up" ELSE startup[c]]
  BY <1>0 DEF AnnounceStart, Startups
<1>3. Unheard \in BOOLEAN /\ Unheard' = Unheard  BY <1>a DEF Unheard, callVars
<1>4. ASSUME NEW d \in Consumers, d # c
      PROVE  ConsumerFits(d, con[d], co', fan', startup', Unheard')
  <2>1. /\ ConsumerFits(d, con[d], co, fan, startup, Unheard)
        /\ con[d].lease \in Leases \cup {None} /\ None \notin Leases
    BY ConsumerFacts
  <2>2. startup'[d] = startup[d]  BY <1>2, <1>4 DEF Leases
  <2>3. startup[con[d].lease] = "up" => startup'[con[d].lease] = "up"
    BY <1>0, <1>2, <2>1
  <2> QED  BY <1>3, <1>a, <2>1, <2>2, <2>3, BystanderFits
<1>5. ConsumerFits(c, r2, co', fan', startup', Unheard')
  <2>1. /\ OwnsLease(c, r2, co) /\ HasLease(c, r2) /\ JoinsLate(c, r2, startup')
        /\ OpenBefore(c, r2, co, fan) /\ LeavesClosed(r2, fan)
    BY <1>0, <1>1 DEF ConsumerFits, OwnsLease, HasLease, JoinsLate, OpenBefore,
       LeavesClosed, BeforePCs, StartPCs, HoldPCs
  <2>2. TalksOnStream(c, r2, co, fan) /\ HearsAnswer(c, r2, co, Unheard)
    BY <1>0, <1>1 DEF ConsumerFits, TalksOnStream, HearsAnswer, StartPCs, HoldPCs
  <2> QED  BY <1>0, <1>1, <1>3, <1>a, <2>1, <2>2 DEF ConsumerFits
<1>6. EveryConsumerFits'  BY <1>0, <1>1, <1>4, <1>5, OneConsumerMoves
<1>7. EveryTeardownFits'  BY <1>a, TeardownsStand DEF StreamInv, sourceVars
<1>8. FieldsAgree'  BY <1>a DEF StreamInv, FieldsAgree
<1>9. con' \in [Consumers -> ConsumerSteps]  BY <1>0, <1>1
<1>10. /\ co' \in Fields /\ fan' \in [Leases -> Fan]
       /\ td' \in [Leases -> Teardowns] /\ src' \in [Leases -> SourceSteps]
  BY <1>a, Types DEF StreamInv, sourceVars
<1> QED
  BY <1>a, <1>2, <1>6, <1>7, <1>8, <1>9, <1>10, CoordinatorKeeps DEF sourceVars

\* fanout.remove: the last one out closes the fan-out in the same step, and the
\* stream of somebody else that it leaves is up.
LEMMA LeaveRemovesKeeps == ASSUME StreamInv, NEW c \in Consumers, LeaveRemoves(c) PROVE StreamInv'
<1>0. /\ con[c].pc = "leaving" /\ con[c].lease \in Leases /\ c # None /\ c \in Leases
      /\ con \in [Consumers -> ConsumerSteps] /\ NamesLease(con[c].snap)
      /\ fan \in [Leases -> Fan] /\ co \in Fields
      /\ ConsumerFits(c, con[c], co, fan, startup, Unheard)
  <2>1. con[c].pc = "leaving"  BY DEF LeaveRemoves, At
  <2>2. con[c].lease # None  BY <2>1, ConsumerFacts DEF ConsumerFits, HasLease, BeforePCs
  <2> QED  BY <2>1, <2>2, ConsumerFacts, Types DEF StreamInv, Leases
<1>a. UNCHANGED <<callVars, co, startup, sourceVars, td, agentVars, told, state, historyVars>>
  BY DEF LeaveRemoves
<1> DEFINE l == con[c].lease
           rest == fan[l].members \ {c}
           pc2 == IF fan[l].members = {c} THEN "untalkingLast" ELSE "untalking"
           r2 == [con[c] EXCEPT !.pc = pc2]
<1>1. /\ con' = [con EXCEPT ![c] = r2] /\ r2 \in ConsumerSteps
      /\ r2.pc = pc2 /\ r2.lease = l /\ r2.snap = con[c].snap
  <2>1. Goes(c, pc2) /\ pc2 \in ConsumerPCs  BY DEF LeaveRemoves, ConsumerPCs
  <2> QED  BY <1>0, <2>1, GoesMoves
<1>2. /\ fan' \in [Leases -> Fan]
      /\ fan'[l].members = rest /\ fan'[l].closed = (fan[l].closed \/ rest = {})
      /\ \A m \in Leases : m # l => fan'[m] = fan[m]
      /\ fan' = [fan EXCEPT ![l] = [members |-> rest, closed |-> fan[l].closed \/ rest = {}]]
  <2>1. (fan[l].closed \/ rest = {}) \in BOOLEAN  OBVIOUS
  <2>2. [members |-> rest, closed |-> fan[l].closed \/ rest = {}] \in Fan
    BY <1>0, <2>1 DEF Fan
  <2>3. fan' = [fan EXCEPT ![l] = [members |-> rest, closed |-> fan[l].closed \/ rest = {}]]
    BY <1>0 DEF LeaveRemoves, Removes
  <2> QED  BY <1>0, <2>2, <2>3
<1>3. pc2 \in {"untalking", "untalkingLast"} /\ (pc2 = "untalkingLast" => rest = {})
  OBVIOUS
<1> HIDE DEF r2, pc2, l, rest
<1>b. l \in Leases /\ rest = fan[l].members \ {c}  BY <1>0 DEF l, rest
<1>4. Unheard \in BOOLEAN /\ Unheard' = Unheard  BY <1>a DEF Unheard, callVars
<1>5. ASSUME NEW d \in Consumers, d # c
      PROVE  ConsumerFits(d, con[d], co', fan', startup', Unheard')
  <2>1. /\ ConsumerFits(d, con[d], co, fan, startup, Unheard)
        /\ con[d].lease \in Leases \cup {None} /\ None \notin Leases /\ d # None
    BY ConsumerFacts
  <2>2. fan'[d].closed => fan[d].closed \/ con[d].pc \notin BeforePCs \cup {"reserved"}
    <3>1. CASE d = l
      <4>1. startup[d] = "up"  BY <1>0, <1>5, <3>1 DEF ConsumerFits, JoinsLate, l
      <4>2. con[d].pc \in HoldPCs \cup {"observing"}
        BY <2>1, <4>1 DEF ConsumerFits, JoinsLate
      <4> QED  BY <4>2 DEF HoldPCs, BeforePCs
    <3>2. CASE d # l  BY <1>2, <3>2 DEF Leases
    <3> QED  BY <3>1, <3>2
  <2>3. fan[con[d].lease].members = {} /\ fan[con[d].lease].closed =>
            fan'[con[d].lease].members = {} /\ fan'[con[d].lease].closed
    <3>1. CASE con[d].lease = None  BY <1>0, <1>2, <1>b, <2>1, <3>1
    <3>2. CASE con[d].lease = l  BY <1>2, <1>b, <3>2
    <3>3. CASE con[d].lease \in Leases /\ con[d].lease # l  BY <1>2, <3>3
    <3> QED  BY <2>1, <3>1, <3>2, <3>3
  <2>4. co.talker = d /\ d \in fan[co.lease].members => d \in fan'[co.lease].members
    <3>1. ASSUME co.talker = d PROVE co.lease \in Leases
      BY <1>0, <2>1, <3>1 DEF ConsumerFits, TalksOnStream, Fields
    <3> QED  BY <1>2, <1>5, <1>b, <3>1
  <2> QED  BY <1>4, <1>a, <2>1, <2>2, <2>3, <2>4, BystanderFits
<1>6. ConsumerFits(c, r2, co', fan', startup', Unheard')
  <2>1. /\ OwnsLease(c, r2, co) /\ HasLease(c, r2) /\ JoinsLate(c, r2, startup)
        /\ OpenBefore(c, r2, co, fan')
    BY <1>0, <1>1, <1>3 DEF ConsumerFits, OwnsLease, HasLease, JoinsLate, OpenBefore,
       BeforePCs, StartPCs, HoldPCs, l
  <2>2. LeavesClosed(r2, fan')
    BY <1>1, <1>2, <1>3 DEF LeavesClosed
  <2>3. TalksOnStream(c, r2, co, fan') /\ HearsAnswer(c, r2, co, Unheard)
    BY <1>0, <1>1, <1>3 DEF ConsumerFits, TalksOnStream, HearsAnswer, StartPCs, HoldPCs, l
  <2> QED  BY <1>0, <1>1, <1>4, <1>a, <2>1, <2>2, <2>3 DEF ConsumerFits
<1>7. EveryConsumerFits'  BY <1>0, <1>1, <1>5, <1>6, OneConsumerMoves
<1>8. EveryTeardownFits'
  <2> SUFFICES ASSUME NEW m \in Leases
               PROVE  TeardownFits(m, td'[m], co', fan', told', shut', src')
    BY DEF EveryTeardownFits
  <2>1. TeardownFits(m, td[m], co, fan, told, shut, src)
    BY DEF StreamInv, EveryTeardownFits
  <2>2. fan[m].closed => fan'[m].closed /\ fan'[m].members \subseteq fan[m].members
    <3>1. CASE m = l  BY <1>2, <1>b, <3>1
    <3>2. CASE m # l  BY <1>2, <3>2
    <3> QED  BY <3>1, <3>2
  <2> QED  BY <1>a, <2>1, <2>2, TeardownKeeps DEF sourceVars
<1>9. FieldsAgree'  BY <1>a DEF StreamInv, FieldsAgree
<1>10. con' \in [Consumers -> ConsumerSteps]  BY <1>0, <1>1
<1>11. /\ co' \in Fields /\ startup' \in [Leases -> Startups]
       /\ td' \in [Leases -> Teardowns] /\ src' \in [Leases -> SourceSteps]
  BY <1>a, Types DEF StreamInv, sourceVars
<1> QED
  BY <1>a, <1>2, <1>7, <1>8, <1>9, <1>10, <1>11, CoordinatorKeeps DEF sourceVars
\* The uplink frees up with the talker that leaves.
LEMMA LeaveUntalksKeeps == ASSUME StreamInv, NEW c \in Consumers, LeaveUntalks(c) PROVE StreamInv'
<1>0. /\ con[c].pc \in {"untalking", "untalkingLast"} /\ c # None
      /\ con \in [Consumers -> ConsumerSteps] /\ NamesLease(con[c].snap)
      /\ con[c].pc \in ConsumerPCs /\ co \in Fields /\ FieldsAgree
      /\ ConsumerFits(c, con[c], co, fan, startup, Unheard)
  BY ConsumerFacts, Types DEF StreamInv, LeaveUntalks
<1>a. UNCHANGED <<callVars, fan, startup, sourceVars, td, agentVars, told, state, historyVars>>
  BY DEF LeaveUntalks
<1> DEFINE pc2 == IF At(c, "untalkingLast") THEN "lastOut" ELSE "done"
           r2 == [con[c] EXCEPT !.pc = pc2]
<1>1. /\ con' = [con EXCEPT ![c] = r2] /\ r2 \in ConsumerSteps
      /\ r2.pc = pc2 /\ r2.lease = con[c].lease /\ r2.snap = con[c].snap
  <2>1. Goes(c, pc2) /\ pc2 \in ConsumerPCs  BY DEF LeaveUntalks, ConsumerPCs
  <2> QED  BY <1>0, <2>1, GoesMoves
<1>2. pc2 = "done" \/ (pc2 = "lastOut" /\ con[c].pc = "untalkingLast")  BY DEF At
<1> HIDE DEF r2, pc2
<1>3. /\ co' \in Fields /\ co'.lease = co.lease /\ co'.stopping = co.stopping
      /\ co'.owner = co.owner /\ co'.promoting = co.promoting /\ co'.starting = co.starting
      /\ co'.preview = co.preview /\ co'.promotePending = co.promotePending
      /\ co'.talker \in {co.talker, None} /\ co'.talker # c
  <2>1. CASE co.lease = con[c].lease /\ co.talker = c
    BY <1>0, <2>1 DEF LeaveUntalks, Fields
  <2>2. CASE ~(co.lease = con[c].lease /\ co.talker = c)
    <3>1. co.talker # c  BY <1>0, <2>2 DEF ConsumerFits, TalksOnStream
    <3>2. co' = co  BY <2>2 DEF LeaveUntalks
    <3> QED  BY <1>0, <3>1, <3>2
  <2> QED  BY <2>1, <2>2
<1>4. /\ FieldsAgree' /\ EveryTeardownFits'
      /\ \A d \in Consumers : ConsumerFits(d, con[d], co', fan', startup', Unheard')
  <2>1. co'.promoting => co'.lease # None  BY <1>0, <1>3 DEF FieldsAgree
  <2> QED  BY <1>3, <1>a, <2>1, FieldsMove DEF sourceVars
<1>5. ConsumerFits(c, r2, co', fan', startup', Unheard')
  <2>1. ConsumerFits(c, con[c], co', fan', startup', Unheard')  BY <1>4
  <2>2. CASE pc2 = "done"
    <3>1. con[c].pc \in HoldPCs  BY <1>0 DEF HoldPCs
    <3> QED  BY <1>0, <1>1, <1>3, <2>1, <2>2, <3>1, DoneFits
  <2>3. CASE pc2 = "lastOut" /\ con[c].pc = "untalkingLast"
    <3>1. /\ OwnsLease(c, r2, co') /\ HasLease(c, r2) /\ JoinsLate(c, r2, startup')
          /\ OpenBefore(c, r2, co', fan') /\ LeavesClosed(r2, fan')
      BY <1>1, <2>1, <2>3 DEF ConsumerFits, OwnsLease, HasLease, JoinsLate, OpenBefore,
         LeavesClosed, BeforePCs, StartPCs, HoldPCs
    <3>2. TalksOnStream(c, r2, co', fan')  BY <1>3 DEF TalksOnStream
    <3>3. HearsAnswer(c, r2, co', Unheard')
      BY <1>1, <2>1, <2>3 DEF ConsumerFits, HearsAnswer, StartPCs
    <3> QED  BY <1>0, <1>1, <3>1, <3>2, <3>3 DEF ConsumerFits
  <2> QED  BY <1>2, <2>2, <2>3
<1>6. EveryConsumerFits'  BY <1>0, <1>1, <1>4, <1>5, OneConsumerMoves
<1>7. con' \in [Consumers -> ConsumerSteps]  BY <1>0, <1>1
<1>8. /\ fan' \in [Leases -> Fan] /\ startup' \in [Leases -> Startups]
      /\ td' \in [Leases -> Teardowns] /\ src' \in [Leases -> SourceSteps]
  BY <1>a, Types DEF StreamInv, sourceVars
<1> QED
  BY <1>a, <1>3, <1>4, <1>6, <1>7, <1>8, CoordinatorKeeps DEF sourceVars

\* A consumer stops its lease and is done: a failed or late startup, or the last
\* one out, which has left nobody behind.
LEMMA ConsumerStopsKeeps ==
    ASSUME StreamInv, NEW c \in Consumers, StartStopped(c) \/ LastOutStops(c)
    PROVE  StreamInv'
<1>0. /\ con[c].pc \in {"failed", "timedOut", "lastOut"} /\ c # None /\ c \in Leases
      /\ con \in [Consumers -> ConsumerSteps] /\ con[c] \in ConsumerSteps
      /\ NamesLease(con[c].snap)
      /\ con[c].pc \in ConsumerPCs /\ FieldsAgree /\ con[c].lease \in Leases
      /\ ConsumerFits(c, con[c], co, fan, startup, Unheard)
  <2>1. con[c].pc \in {"failed", "timedOut", "lastOut"}  BY DEF StartStopped, LastOutStops, At
  <2>2. con[c].lease # None
    BY <2>1, ConsumerFacts DEF ConsumerFits, HasLease, BeforePCs
  <2> QED  BY <2>1, <2>2, ConsumerFacts DEF StreamInv, Leases
<1>a. UNCHANGED <<callVars, startup, sourceVars, agentVars, told, state, historyVars>>
  BY DEF StartStopped, LastOutStops
<1> DEFINE l == con[c].lease
           r2 == [con[c] EXCEPT !.pc = "done"]
<1>1. /\ con' = [con EXCEPT ![c] = r2] /\ r2 \in ConsumerSteps
      /\ r2.pc = "done" /\ r2.lease = con[c].lease /\ r2.snap = con[c].snap
  <2>1. Goes(c, "done") /\ "done" \in ConsumerPCs
    BY DEF StartStopped, LastOutStops, ConsumerPCs
  <2> QED  BY <1>0, <2>1, GoesMoves
<1>2. \E cause \in Causes \cup {None} :
         /\ Stop(l, cause)
         /\ cause \in {"released", "left"} => fan[l].members = {} /\ fan[l].closed
  <2>1. CASE StartStopped(c)
    <3>1. l = c  BY <1>0, <2>1 DEF StartStopped, ConsumerFits, HasLease, StartPCs
    <3>2. /\ "startupFailed" \in Causes \cup {None} /\ "startupTimedOut" \in Causes \cup {None}
          /\ "startupFailed" \notin {"released", "left"}
          /\ "startupTimedOut" \notin {"released", "left"}
      BY DEF Causes
    <3>3. Stop(c, "startupFailed") \/ Stop(c, "startupTimedOut")
      BY <2>1 DEF StartStopped
    <3> HIDE DEF l
    <3> QED  BY <3>1, <3>2, <3>3
  <2>2. CASE LastOutStops(c)
    <3>1. con[c].by \in Causes \cup {None}  BY <1>0 DEF ConsumerSteps, Causes
    <3>2. fan[l].members = {} /\ fan[l].closed
      BY <1>0, <2>2 DEF LastOutStops, At, ConsumerFits, LeavesClosed
    <3>3. Stop(l, con[c].by)  BY <2>2 DEF LastOutStops
    <3> QED  BY <3>1, <3>2, <3>3
  <2> QED  BY <2>1, <2>2
<1> HIDE DEF r2, l
<1>b. l \in Leases  BY <1>0 DEF l
<1>3. /\ co' \in Fields /\ fan' \in [Leases -> Fan] /\ td' \in [Leases -> Teardowns]
      /\ co'.lease = co.lease /\ (co.lease = l => co'.stopping)
      /\ FieldsAgree'
      /\ \A d \in Consumers : ConsumerFits(d, con[d], co', fan', startup', Unheard')
      /\ EveryTeardownFits'
  BY <1>2, <1>a, <1>b, StopKeeps DEF sourceVars
<1>4. ConsumerFits(c, r2, co', fan', startup', Unheard')
  <2>1. ConsumerFits(c, con[c], co', fan', startup', Unheard')  BY <1>3
  <2>2. co'.lease = c => co'.stopping \/ con[c].pc \in HoldPCs
    <3>1. CASE con[c].pc = "lastOut"  BY <3>1 DEF HoldPCs
    <3>2. CASE con[c].pc # "lastOut"
      <4>1. l = c  BY <1>0, <3>2 DEF ConsumerFits, HasLease, StartPCs, l
      <4> QED  BY <1>3, <4>1
    <3> QED  BY <3>1, <3>2
  <2> QED  BY <1>0, <1>1, <2>1, <2>2, DoneFits
<1>5. EveryConsumerFits'  BY <1>0, <1>1, <1>3, <1>4, OneConsumerMoves
<1>6. con' \in [Consumers -> ConsumerSteps]  BY <1>0, <1>1
<1>7. startup' \in [Leases -> Startups] /\ src' \in [Leases -> SourceSteps]
  BY <1>a, Types DEF StreamInv, sourceVars
<1> QED
  BY <1>a, <1>3, <1>5, <1>6, <1>7, CoordinatorKeeps DEF sourceVars
-----------------------------------------------------------------------------
(* Steps in which no consumer moves *)

\* A step that leaves the coordinator, the teardowns and the consumers alone keeps
\* the invariant unless it makes a source ask for media through shut pipelines or
\* hides an answer.
LEMMA StandingKeeps ==
    ASSUME StreamInv, UNCHANGED <<coordVars, td, con, told, state, shut>>,
           CallType', Unheard' => Unheard,
           src' \in [Leases -> SourceSteps], callback' \in Leases \cup {None},
           dialled' \in Leases \cup {None}, owns' \subseteq Leases, gone' \subseteq Leases,
           drain' \in Drains, hanger' \in Hangers, AgentsNameLease',
           rung' \subseteq Dialogs, ended' \subseteq Leases, robbed' \subseteq Leases,
           \A s \in shut : src'[s] \in {"asking", "up"} => src[s] \in {"asking", "up"}
    PROVE  StreamInv'
<1> USE DEF coordVars
<1>0. TypeOK /\ EveryConsumerFits /\ EveryTeardownFits /\ FieldsAgree  BY DEF StreamInv
<1>1. TypeOK'
  <2>1. /\ co' \in Fields /\ fan' \in [Leases -> Fan] /\ startup' \in [Leases -> Startups]
        /\ shut' \subseteq Leases /\ td' \in [Leases -> Teardowns]
        /\ con' \in [Consumers -> ConsumerSteps]
        /\ told' \subseteq Consumers /\ state' \in States
    BY <1>0, Types
  <2> QED
    BY <2>1 DEF TypeOK, CoordinatorType, StreamType, AgentType, Fields, Fan,
       Startups, SourceSteps, Teardowns, ConsumerSteps, Drains, Hangers
<1>2. EveryConsumerFits'
  <2>1. \A d \in Consumers : ConsumerFits(d, con[d], co', fan', startup', Unheard')
    BY <1>0, ConsumersStand
  <2> QED  BY <2>1 DEF EveryConsumerFits
<1>3. EveryTeardownFits'  BY <1>0, TeardownsStand
<1>4. FieldsAgree'  BY <1>0 DEF FieldsAgree
<1> QED  BY <1>1, <1>2, <1>3, <1>4 DEF StreamInv

\* A dialog dropped by somebody else names the source that had dialled it.
LEMMA RobsKeeps == ASSUME StreamInv, NEW by, Robs(by) PROVE robbed' \subseteq Leases
BY Types DEF StreamInv, Robs

\* A step that changes the coordinator, a fan-out or a teardown, and an agent, and
\* may drop a dialog.
LEMMA FieldsStepKeeps ==
    ASSUME StreamInv, UNCHANGED <<startup, shut, callback, owns, con, state, rung, ended>>,
           robbed' \subseteq Leases, CallType', dialled' \in Leases \cup {None}, gone' \subseteq Leases,
           src' \in [Leases -> SourceSteps], told' \subseteq Consumers,
           co' \in Fields, fan' \in [Leases -> Fan], td' \in [Leases -> Teardowns],
           drain' \in Drains, hanger' \in Hangers, AgentsNameLease', FieldsAgree',
           \A d \in Consumers : ConsumerFits(d, con[d], co', fan', startup', Unheard'),
           EveryTeardownFits'
    PROVE  StreamInv'
<1>0. TypeOK  BY DEF StreamInv
<1>1. TypeOK'
  <2>1. /\ startup' \in [Leases -> Startups] /\ shut' \subseteq Leases
        /\ callback' \in Leases \cup {None} /\ owns' \subseteq Leases
        /\ con' \in [Consumers -> ConsumerSteps] /\ state' \in States
        /\ rung' \subseteq Dialogs /\ ended' \subseteq Leases /\ robbed' \subseteq Leases
    BY <1>0, Types DEF historyVars
  <2> QED
    BY <2>1 DEF TypeOK, CoordinatorType, StreamType, AgentType, Fields, Fan,
       Startups, SourceSteps, Teardowns, ConsumerSteps, Drains, Hangers
<1>2. EveryConsumerFits'  BY DEF EveryConsumerFits
<1> QED  BY <1>1, <1>2 DEF StreamInv

\* What the invariant says of the variables that most of these steps leave alone.
LEMMA StandingFacts ==
    ASSUME StreamInv
    PROVE  /\ CallType /\ co \in Fields /\ fan \in [Leases -> Fan] /\ td \in [Leases -> Teardowns]
           /\ src \in [Leases -> SourceSteps] /\ shut \subseteq Leases
           /\ callback \in Leases \cup {None} /\ dialled \in Leases \cup {None}
           /\ owns \subseteq Leases /\ gone \subseteq Leases
           /\ drain \in Drains /\ hanger \in Hangers /\ AgentsNameLease
           /\ told \subseteq Consumers /\ rung \subseteq Dialogs /\ ended \subseteq Leases /\ robbed \subseteq Leases
           /\ FieldsAgree /\ None \notin Leases /\ NoAgent \in Drains /\ NoAgent \in Hangers
<1>1. None \notin Leases  BY ConsumersAssumption, NoneAssumption DEF Leases
<1>2. NoAgent \in Drains /\ NoAgent \in Hangers  BY DEF NoAgent, Drains, Hangers
<1> QED  BY <1>1, <1>2, Types DEF StreamInv

\* The promotion's audio request comes back, silent tracks and bus frames.
LEMMA CoordinatorStepsKeep ==
    ASSUME StreamInv,
           \/ PromotionEnds \/ ObserveControlStop \/ \E l \in Leases : Reconcile(l)
           \/ \E track \in Tracks : ObserveControlTrack(track)
    PROVE  StreamInv'
<1>0. /\ CallType /\ co \in Fields /\ fan \in [Leases -> Fan] /\ td \in [Leases -> Teardowns]
      /\ src \in [Leases -> SourceSteps] /\ dialled \in Leases \cup {None}
      /\ gone \subseteq Leases /\ drain \in Drains /\ hanger \in Hangers /\ AgentsNameLease
      /\ told \subseteq Consumers /\ FieldsAgree /\ None \notin Leases
  BY StandingFacts
<1>1. UNCHANGED <<callVars, startup, sourceVars, con, agentVars, told, state, historyVars>>
  BY DEF PromotionEnds, ObserveControlStop, Reconcile, ObserveControlTrack
<1>2. ASSUME co' \in Fields, fan' \in [Leases -> Fan], td' \in [Leases -> Teardowns],
             FieldsAgree', EveryTeardownFits',
             \A d \in Consumers : ConsumerFits(d, con[d], co', fan', startup', Unheard')
      PROVE  StreamInv'
  <2>1. CallType'  BY <1>0, <1>1 DEF CallType, callVars
  <2>2. AgentsNameLease'  BY <1>0, <1>1 DEF AgentsNameLease, agentVars
  <2> QED
    BY <1>0, <1>1, <1>2, <2>1, <2>2, StandingFacts, FieldsStepKeeps
       DEF sourceVars, sessionVars, agentVars, historyVars
<1>3. ASSUME NEW l \in Leases, NEW cause \in {"sourceFailure", "tracksStalled", "controlStop"},
             Stop(l, cause)
      PROVE  StreamInv'
  <2>1. cause \in Causes \cup {None} /\ cause \notin {"released", "left"}  BY DEF Causes
  <2> QED  BY <1>1, <1>2, <1>3, <2>1, StopKeeps DEF sourceVars
<1>4. ASSUME co' \in Fields, co'.lease = co.lease, co'.stopping = co.stopping,
             co'.owner = "companion" <=> co.owner = "companion",
             co'.promoting => co'.lease # None,
             co'.starting => co.starting, co'.preview => co.preview,
             co'.preview /\ co.promotePending => co'.promotePending,
             co'.talker \in {co.talker, None}, UNCHANGED <<fan, td>>
      PROVE  StreamInv'
  <2>1. /\ FieldsAgree' /\ EveryTeardownFits'
        /\ \A d \in Consumers : ConsumerFits(d, con[d], co', fan', startup', Unheard')
    BY <1>1, <1>4, FieldsMove DEF sourceVars
  <2> QED  BY <1>0, <1>2, <1>4, <2>1
<1>5. CASE PromotionEnds
  <2>1. CASE co' = [co EXCEPT !.promoting = FALSE] /\ UNCHANGED <<fan, td>>
    <3>1. /\ co' \in Fields /\ co'.lease = co.lease /\ co'.stopping = co.stopping
          /\ co'.owner = co.owner /\ co'.promoting = FALSE /\ co'.starting = co.starting
          /\ co'.preview = co.preview /\ co'.promotePending = co.promotePending
          /\ co'.talker = co.talker
      BY <1>0, <2>1 DEF Fields
    <3> QED  BY <1>4, <2>1, <3>1
  <2>2. CASE Stop(co.lease, "sourceFailure")
    <3>1. co.lease \in Leases  BY <1>0, <1>5 DEF PromotionEnds, FieldsAgree, Fields
    <3> QED  BY <1>3, <2>2, <3>1
  <2> QED  BY <1>5, <2>1, <2>2 DEF PromotionEnds
<1>6. ASSUME NEW l \in Leases, Reconcile(l) PROVE StreamInv'
  BY <1>3, <1>6 DEF Reconcile
<1>7. CASE ObserveControlStop
  <2>1. CASE co.lease # None
    <3>1. co.lease \in Leases  BY <1>0, <2>1 DEF Fields
    <3> QED  BY <1>3, <1>7, <2>1, <3>1 DEF ObserveControlStop
  <2>2. CASE co.lease = None
    <3>1. UNCHANGED <<fan, td>>
          /\ (co' = co \/ co' = [IdleFields EXCEPT !.source = co.source])
      BY <1>7, <2>2 DEF ObserveControlStop
    <3>2. ~co.stopping /\ ~co.promoting /\ co.owner # "companion"
      BY <1>0, <2>2 DEF FieldsAgree
    <3>3. CASE co' = co  BY <1>0, <1>4, <2>2, <3>1, <3>2, <3>3
    <3>4. CASE co' = [IdleFields EXCEPT !.source = co.source]
      <4>1. /\ co' \in Fields /\ co'.lease = None /\ co'.stopping = FALSE
            /\ co'.owner = "idle" /\ co'.promoting = FALSE /\ co'.starting = FALSE
            /\ co'.preview = FALSE /\ co'.talker = None
        BY <1>0, <3>4 DEF IdleFields, Fields
      <4>2. co'.stopping = co.stopping
        <5>1. co.stopping \in BOOLEAN  BY <1>0 DEF Fields
        <5> QED  BY <3>2, <4>1, <5>1
      <4> QED  BY <1>4, <2>2, <3>1, <3>2, <4>1, <4>2
    <3> QED  BY <3>1, <3>3, <3>4
  <2> QED  BY <2>1, <2>2
<1>8. ASSUME NEW track \in Tracks, ObserveControlTrack(track) PROVE StreamInv'
  <2> DEFINE tracks == co.requested \cup {track}
             control == co.lease # None
             owner == IF co.lease = None THEN "external" ELSE co.owner
  <2>1. /\ tracks \in SUBSET Tracks /\ control \in BOOLEAN
        /\ owner \in {"idle", "companion", "external"}
        /\ owner = "companion" <=> co.owner = "companion"
    BY <1>0 DEF Fields, FieldsAgree
  <2>2. co' = [co EXCEPT !.requested = tracks, !.control = control, !.owner = owner]
        /\ UNCHANGED <<fan, td>>
    BY <1>0, <1>8 DEF ObserveControlTrack, Fields
  <2> HIDE DEF tracks, control, owner
  <2>3. /\ co' \in Fields /\ co'.lease = co.lease /\ co'.stopping = co.stopping
        /\ co'.owner = owner /\ co'.promoting = co.promoting /\ co'.starting = co.starting
        /\ co'.preview = co.preview /\ co'.promotePending = co.promotePending
        /\ co'.talker = co.talker
    BY <1>0, <2>1, <2>2 DEF Fields
  <2>4. co'.promoting => co'.lease # None  BY <1>0, <2>3 DEF FieldsAgree
  <2> QED  BY <1>4, <2>1, <2>2, <2>3, <2>4
<1> QED  BY <1>5, <1>6, <1>7, <1>8
\* WriteBackchannelRTP: only a consumer of the current stream takes the uplink.
LEMMA TalkKeeps == ASSUME StreamInv, NEW c \in Consumers, Talk(c) PROVE StreamInv'
<1>0. /\ CallType /\ co \in Fields /\ fan \in [Leases -> Fan] /\ td \in [Leases -> Teardowns]
      /\ src \in [Leases -> SourceSteps] /\ dialled \in Leases \cup {None}
      /\ gone \subseteq Leases /\ drain \in Drains /\ hanger \in Hangers /\ AgentsNameLease
      /\ told \subseteq Consumers /\ FieldsAgree
  BY StandingFacts
<1>1. UNCHANGED <<callVars, fan, startup, sourceVars, td, con, agentVars, told, state, historyVars>>
  BY DEF Talk
<1>2. /\ co' \in Fields /\ co'.lease = co.lease /\ co'.stopping = co.stopping
      /\ co'.owner = co.owner /\ co'.promoting = co.promoting /\ co'.starting = co.starting
      /\ co'.preview = co.preview /\ co'.promotePending = co.promotePending
      /\ co'.talker = c
  BY <1>0 DEF Talk, Fields
<1>3. FieldsAgree'  BY <1>0, <1>1, <1>2 DEF FieldsAgree
<1>4. Unheard \in BOOLEAN /\ Unheard' = Unheard  BY <1>1 DEF Unheard, callVars
<1>5. ASSUME NEW d \in Consumers
      PROVE  ConsumerFits(d, con[d], co', fan', startup', Unheard')
  <2>1. ConsumerFits(d, con[d], co, fan, startup, Unheard)  BY ConsumerFacts
  <2>2. CASE d # c  BY <1>1, <1>2, <1>4, <2>1, <2>2, BystanderFits
  <2>3. CASE d = c
    <3>1. /\ OwnsLease(c, con[c], co') /\ HasLease(c, con[c]) /\ JoinsLate(c, con[c], startup)
          /\ OpenBefore(c, con[c], co', fan) /\ LeavesClosed(con[c], fan)
      BY <1>2, <2>1, <2>3 DEF ConsumerFits, OwnsLease, OpenBefore
    <3>2. TalksOnStream(c, con[c], co', fan)
      BY <1>2 DEF Talk, MayTalk, TalksOnStream, HoldPCs
    <3>3. HearsAnswer(c, con[c], co', Unheard) /\ NamesLease(con[c].snap)
      BY <1>2, <2>1, <2>3 DEF ConsumerFits, HearsAnswer
    <3> QED  BY <1>1, <1>4, <2>3, <3>1, <3>2, <3>3 DEF ConsumerFits
  <2> QED  BY <2>2, <2>3
<1>6. EveryTeardownFits'
  <2> SUFFICES ASSUME NEW m \in Leases
               PROVE  TeardownFits(m, td'[m], co', fan', told', shut', src')
    BY DEF EveryTeardownFits
  <2>1. TeardownFits(m, td[m], co, fan, told, shut, src)
    BY DEF StreamInv, EveryTeardownFits
  <2> QED  BY <1>1, <1>2, <2>1, TeardownKeeps DEF sourceVars
<1>7. CallType' /\ AgentsNameLease'
  BY <1>0, <1>1 DEF CallType, callVars, AgentsNameLease, agentVars
<1> QED
  BY <1>0, <1>1, <1>2, <1>3, <1>5, <1>6, <1>7, StandingFacts, FieldsStepKeeps
     DEF sourceVars, sessionVars, agentVars, historyVars

\* The drain and the API's hangup stop the lease that they have read, whatever
\* it has become, and wait for the teardown if they began it.
LEMMA AgentStopsKeep == ASSUME StreamInv, DrainStops \/ EndCallStops PROVE StreamInv'
<1>0. /\ CallType /\ src \in [Leases -> SourceSteps] /\ dialled \in Leases \cup {None}
      /\ gone \subseteq Leases /\ drain \in Drains /\ hanger \in Hangers /\ AgentsNameLease
      /\ told \subseteq Consumers /\ NoAgent \in Drains /\ NoAgent \in Hangers
  BY StandingFacts
<1>1. UNCHANGED <<callVars, startup, sourceVars, con, told, state, historyVars>>
  BY DEF DrainStops, EndCallStops
<1>2. PICK l \in Leases, cause \in Causes \cup {None} :
         Stop(l, cause) /\ cause \notin {"released", "left"}
  <2>1. CASE DrainStops
    <3>1. Stop(drain.lease, drain.cause)  BY <2>1 DEF DrainStops
    <3>2. drain.lease \in Leases  BY <1>0, <2>1 DEF DrainStops, AgentsNameLease, Drains
    <3>3. drain.cause \in Causes \cup {None} /\ drain.cause \notin {"released", "left"}
      BY <1>0, <2>1 DEF Drains, DrainStops, AgentsNameLease
    <3> QED  BY <3>1, <3>2, <3>3
  <2>2. CASE EndCallStops
    <3>1. Stop(hanger.lease, hanger.cause)  BY <2>2 DEF EndCallStops
    <3>2. hanger.lease \in Leases  BY <1>0, <2>2 DEF EndCallStops, AgentsNameLease, Hangers
    <3>3. hanger.cause \in Causes \cup {None} /\ hanger.cause \notin {"released", "left"}
      BY <1>0, <2>2 DEF Hangers, EndCallStops, AgentsNameLease
    <3> QED  BY <3>1, <3>2, <3>3
  <2> QED  BY <2>1, <2>2
<1>3. /\ co' \in Fields /\ fan' \in [Leases -> Fan] /\ td' \in [Leases -> Teardowns]
      /\ FieldsAgree' /\ EveryTeardownFits'
      /\ \A d \in Consumers : ConsumerFits(d, con[d], co', fan', startup', Unheard')
  BY <1>1, <1>2, StopKeeps DEF sourceVars
<1>4. drain' \in Drains /\ hanger' \in Hangers /\ AgentsNameLease'
  <2>1. CASE DrainStops
    <3>1. hanger' = hanger /\ (drain' = NoAgent \/ drain' = [drain EXCEPT !.pc = "wait"])
      BY <2>1 DEF DrainStops
    <3>2. /\ drain' \in Drains
          /\ drain'.pc = "idle" \/ (drain'.lease = drain.lease /\ drain'.cause = drain.cause)
      BY <1>0, <3>1 DEF Drains, NoAgent
    <3>3. drain.lease # None /\ drain.cause \notin {"released", "left"}
      BY <1>0, <2>1 DEF DrainStops, AgentsNameLease
    <3> QED  BY <1>0, <3>1, <3>2, <3>3 DEF AgentsNameLease
  <2>2. CASE EndCallStops
    <3>1. drain' = drain /\ (hanger' = NoAgent \/ hanger' = [hanger EXCEPT !.pc = "wait"])
      BY <2>2 DEF EndCallStops
    <3>2. /\ hanger' \in Hangers
          /\ hanger'.pc = "idle" \/ (hanger'.lease = hanger.lease /\ hanger'.cause = hanger.cause)
      BY <1>0, <3>1 DEF Hangers, NoAgent
    <3>3. hanger.lease # None /\ hanger.cause \notin {"released", "left"}
      BY <1>0, <2>2 DEF EndCallStops, AgentsNameLease
    <3> QED  BY <1>0, <3>1, <3>2, <3>3 DEF AgentsNameLease
  <2> QED  BY <2>1, <2>2
<1>5. CallType'  BY <1>0, <1>1 DEF CallType, callVars
<1> QED
  BY <1>0, <1>1, <1>3, <1>4, <1>5, StandingFacts, FieldsStepKeeps
     DEF sourceVars, sessionVars, historyVars

\* The steps of the agents between two critical sections, and the API's hangup.
LEMMA AgentStepsKeep ==
    ASSUME StreamInv, DrainWaits \/ EndCall \/ EndCallWaits \/ Hangup
    PROVE  StreamInv'
<1>0. /\ CallType /\ co \in Fields /\ src \in [Leases -> SourceSteps]
      /\ callback \in Leases \cup {None} /\ dialled \in Leases \cup {None}
      /\ owns \subseteq Leases /\ gone \subseteq Leases /\ drain \in Drains
      /\ hanger \in Hangers /\ AgentsNameLease /\ rung \subseteq Dialogs
      /\ ended \subseteq Leases /\ robbed \subseteq Leases /\ NoAgent \in Drains /\ NoAgent \in Hangers
  BY StandingFacts
<1>1. /\ UNCHANGED <<coordVars, td, con, told, state, shut>>
      /\ src' = src /\ callback' = callback /\ owns' = owns /\ gone' = gone /\ rung' = rung
  BY DEF DrainWaits, EndCall, EndCallWaits, Hangup, sourceVars, sessionVars, historyVars
<1>2. CallType' /\ (Unheard' => Unheard) /\ dialled' \in Leases \cup {None}
  <2>1. CASE UNCHANGED <<callVars, dialled>>
    BY <1>0, <2>1 DEF CallType, callVars, Unheard
  <2>2. CASE RingHungUp /\ UNCHANGED dialled  BY <1>0, <2>2, LineCommits
  <2>3. CASE HangupCall  BY <2>3, HangupCallKeeps DEF StreamInv
  <2> QED
    BY <2>1, <2>2, <2>3 DEF DrainWaits, EndCall, EndCallWaits, Hangup, sourceVars
<1>3. ended' \subseteq Leases /\ robbed' \subseteq Leases
  BY <1>0, RobsKeeps DEF DrainWaits, EndCall, EndCallWaits, Hangup, historyVars
<1>4. drain' \in Drains /\ hanger' \in Hangers /\ AgentsNameLease'
  <2>1. CASE DrainWaits
    <3>1. drain' = NoAgent /\ hanger' = hanger  BY <2>1 DEF DrainWaits
    <3> QED  BY <1>0, <3>1 DEF AgentsNameLease, NoAgent
  <2>2. CASE EndCallWaits
    <3>1. hanger' = NoAgent /\ drain' = drain  BY <2>2 DEF EndCallWaits
    <3> QED  BY <1>0, <3>1 DEF AgentsNameLease, NoAgent
  <2>3. CASE Hangup
    <3>1. hanger' = [NoAgent EXCEPT !.pc = "bye"] /\ drain' = drain  BY <2>3 DEF Hangup
    <3>2. hanger' \in Hangers /\ hanger'.pc = "bye"  BY <3>1 DEF NoAgent, Hangers
    <3> QED  BY <1>0, <3>1, <3>2 DEF AgentsNameLease
  <2>4. CASE EndCall
    <3>1. CASE co.lease = None
      <4>1. hanger' = NoAgent /\ drain' = drain  BY <2>4, <3>1 DEF EndCall
      <4> QED  BY <1>0, <4>1 DEF AgentsNameLease, NoAgent
    <3>2. CASE co.lease # None
      <4>1. PICK cause \in {"ringingEnded", "callEnded"} :
               hanger' = [pc |-> "stop", lease |-> co.lease, cause |-> cause] /\ drain' = drain
        BY <2>4, <3>2 DEF EndCall
      <4>2. co.lease \in Leases \cup {None} /\ cause \in Causes  BY <1>0 DEF Fields, Causes
      <4>3. hanger' \in Hangers /\ hanger'.lease = co.lease /\ hanger'.cause = cause
        BY <4>1, <4>2 DEF Hangers
      <4> QED  BY <1>0, <3>2, <4>1, <4>3 DEF AgentsNameLease
    <3> QED  BY <3>1, <3>2
  <2> QED  BY <2>1, <2>2, <2>3, <2>4
<1> QED  BY <1>0, <1>1, <1>2, <1>3, <1>4, StandingKeeps

\* The far end and the user move the call.
LEMMA LineMovesKeeps == ASSUME StreamInv, LineMoves PROVE StreamInv'
<1>0. /\ CallType /\ src \in [Leases -> SourceSteps]
      /\ callback \in Leases \cup {None} /\ dialled \in Leases \cup {None}
      /\ owns \subseteq Leases /\ gone \subseteq Leases /\ drain \in Drains
      /\ hanger \in Hangers /\ AgentsNameLease /\ rung \subseteq Dialogs
      /\ ended \subseteq Leases /\ robbed \subseteq Leases
  BY StandingFacts
<1>1. UNCHANGED <<coordVars, sourceVars, td, con, agentVars, told, state, ended, robbed>>
  BY DEF LineMoves
<1>2. CallType' /\ (Unheard' => Unheard) /\ rung' \subseteq Dialogs
  <2>1. ASSUME NEW d \in Dialogs \ rung, Rings(d, Door), rung' = rung \cup {d}
        PROVE  CallType' /\ (Unheard' => Unheard) /\ rung' \subseteq Dialogs
    <3>1. Door \in Entrypoints  BY EntryAssumption
    <3> QED  BY <1>0, <2>1, <3>1, LineCommits
  <2>2. CASE RingEnded("cancelled") /\ UNCHANGED rung
    <3>1. "cancelled" \in Reasons  BY DEF Reasons
    <3> QED  BY <1>0, <2>2, <3>1, LineCommits
  <2>3. CASE (Declined \/ Answered \/ HungUp) /\ UNCHANGED rung
    BY <1>0, <2>3, LineCommits
  <2> QED  BY <2>1, <2>2, <2>3 DEF LineMoves
<1>3. AgentsNameLease'  BY <1>0, <1>1 DEF AgentsNameLease, agentVars
<1> QED
  BY <1>0, <1>1, <1>2, <1>3, StandingKeeps DEF sourceVars, sessionVars, agentVars

\* bridgeSource.Start: a source whose pipelines are shut does not ask for media.
LEMMA SourceStepKeeps == ASSUME StreamInv, NEW l \in Leases, SourceStep(l) PROVE StreamInv'
<1>0. /\ CallType /\ src \in [Leases -> SourceSteps] /\ shut \subseteq Leases
      /\ callback \in Leases \cup {None} /\ dialled \in Leases \cup {None}
      /\ owns \subseteq Leases /\ gone \subseteq Leases /\ drain \in Drains
      /\ hanger \in Hangers /\ AgentsNameLease /\ rung \subseteq Dialogs
      /\ ended \subseteq Leases /\ robbed \subseteq Leases
  BY StandingFacts
<1>1. UNCHANGED <<coordVars, shut, callback, td, con, agentVars, told, state, rung, ended>>
  BY DEF SourceStep, SourceStarts, SourceJoinsCall, SourceAsks, SourceUp, SourceFails, sessionVars,
     historyVars
<1>8. robbed' \subseteq Leases
  BY <1>0, RobsKeeps DEF SourceStep, SourceStarts, SourceJoinsCall, SourceAsks, SourceUp,
     SourceFails, historyVars
<1>2. CallType' /\ (Unheard' => Unheard) /\ dialled' \in Leases \cup {None}
  <2>1. CASE UNCHANGED callVars /\ dialled' \in {dialled, l}
    BY <1>0, <2>1 DEF CallType, callVars, Unheard
  <2>2. CASE HangupCall  BY <2>2, HangupCallKeeps DEF StreamInv
  <2> QED
    BY <2>1, <2>2 DEF SourceStep, SourceStarts, SourceJoinsCall, SourceAsks, SourceUp, SourceFails
<1>3. PICK s \in SourceSteps :
         src' = [src EXCEPT ![l] = s] /\ (s \in {"asking", "up"} => l \notin shut \/ src[l] = "asking")
  BY DEF SourceStep, SourceStarts, SourceJoinsCall, SourceAsks, SourceUp, SourceFails, SourceSteps
<1>4. src' \in [Leases -> SourceSteps]  BY <1>0, <1>3
<1>5. \A m \in shut : src'[m] \in {"asking", "up"} => src[m] \in {"asking", "up"}
  BY <1>0, <1>3
<1>6. owns' \subseteq Leases /\ gone' \subseteq Leases
  BY <1>0 DEF SourceStep, SourceStarts, SourceJoinsCall, SourceAsks, SourceUp, SourceFails,
     sessionVars
<1>7. AgentsNameLease'  BY <1>0, <1>1 DEF AgentsNameLease, agentVars
<1> QED
  BY <1>0, <1>1, <1>2, <1>4, <1>5, <1>6, <1>7, <1>8, StandingKeeps DEF agentVars
\* An event of a source, wrapped by sourceEvents: the far end's BYE, which may end
\* the call and close the source first, or the failure of the bridge.
LEMMA SourceEventsKeep ==
    ASSUME StreamInv, NEW l \in Leases, RemoteBYE(l) \/ SourceFailure(l)
    PROVE  StreamInv'
<1>0. /\ CallType /\ co \in Fields /\ fan \in [Leases -> Fan] /\ td \in [Leases -> Teardowns]
      /\ src \in [Leases -> SourceSteps] /\ shut \subseteq Leases
      /\ dialled \in Leases \cup {None} /\ gone \subseteq Leases
      /\ drain \in Drains /\ hanger \in Hangers /\ AgentsNameLease
      /\ told \subseteq Consumers /\ FieldsAgree
  BY StandingFacts
<1>1. UNCHANGED <<startup, shut, callback, owns, con, agentVars, state, rung, ended>>
  BY DEF RemoteBYE, SourceFailure, sourceVars, sessionVars, historyVars
<1>8. robbed' \subseteq Leases
  BY RobsKeeps, Types DEF RemoteBYE, SourceFailure, historyVars, StreamInv
<1>2. CallType' /\ (Unheard' => Unheard) /\ dialled' \in Leases \cup {None}
  <2>1. CASE UNCHANGED <<callVars, dialled>>
    BY <1>0, <2>1 DEF CallType, callVars, Unheard
  <2>2. CASE HangupCall  BY <2>2, HangupCallKeeps DEF StreamInv
  <2> QED  BY <2>1, <2>2 DEF RemoteBYE, SourceFailure, sourceVars
<1>3. gone' \subseteq Leases  BY <1>0 DEF RemoteBYE, SourceFailure, sourceVars, sessionVars
<1>4. /\ src' \in [Leases -> SourceSteps]
      /\ \A s \in shut : src'[s] \in {"asking", "up"} => src[s] \in {"asking", "up"}
  BY <1>0 DEF RemoteBYE, SourceFailure, sourceVars, SourceSteps
<1>5. PICK cause \in {"remoteBye", "sourceFailure"} : SourceEvent(l, cause)
  BY DEF RemoteBYE, SourceFailure
<1>6. /\ co' \in Fields /\ fan' \in [Leases -> Fan] /\ td' \in [Leases -> Teardowns]
      /\ told' \subseteq Consumers /\ FieldsAgree' /\ EveryTeardownFits'
      /\ \A d \in Consumers : ConsumerFits(d, con[d], co', fan', startup', Unheard')
  <2>1. CASE CanStop(l)
    <3>1. BeginStop(l, cause) /\ told' = told  BY <1>5, <2>1 DEF SourceEvent
    <3>2. cause \in Causes \cup {None} /\ cause \notin {"released", "left"}  BY DEF Causes
    <3> QED  BY <1>0, <1>1, <1>2, <1>4, <2>1, <3>1, <3>2, BeginStopKeeps
  <2>2. CASE ~CanStop(l)
    <3>1. told' = told \cup fan[l].members /\ UNCHANGED <<co, fan, td>>
      BY <1>5, <2>2 DEF SourceEvent, Tells
    <3>2. fan[l].members \subseteq Consumers  BY <1>0 DEF Fan
    <3>3. EveryTeardownFits'
      BY <1>1, <1>4, <3>1, TeardownsStand DEF StreamInv
    <3>4. \A d \in Consumers : ConsumerFits(d, con[d], co', fan', startup', Unheard')
      BY <1>1, <1>2, <3>1, ConsumersStand DEF StreamInv, coordVars
    <3>5. FieldsAgree'  BY <1>0, <3>1 DEF FieldsAgree
    <3> QED  BY <1>0, <3>1, <3>2, <3>3, <3>4, <3>5
  <2> QED  BY <2>1, <2>2
<1>7. AgentsNameLease'  BY <1>0, <1>1 DEF AgentsNameLease, agentVars
<1> QED
  BY <1>0, <1>1, <1>2, <1>3, <1>4, <1>6, <1>7, <1>8, FieldsStepKeeps DEF agentVars

\* routeRingingPreview: the event of the answer promotes a preview, or leaves it
\* to the end of its startup; the end of a ring stops the preview it reads.
LEMMA DeliverKeeps == ASSUME StreamInv, Deliver PROVE StreamInv'
<1>0. /\ CallType /\ co \in Fields /\ fan \in [Leases -> Fan] /\ td \in [Leases -> Teardowns]
      /\ src \in [Leases -> SourceSteps] /\ dialled \in Leases \cup {None}
      /\ gone \subseteq Leases /\ drain \in Drains /\ hanger \in Hangers /\ AgentsNameLease
      /\ told \subseteq Consumers /\ FieldsAgree /\ NoAgent \in Drains
  BY StandingFacts
<1>1. UNCHANGED <<fan, startup, sourceVars, td, con, hanger, told, state, historyVars>>
  BY DEF Deliver
<1> DEFINE e == Head(queue)
<1>2. /\ CallType' /\ answered' = answered
      /\ Unheard' /\ e.type # "call.answered" => Unheard
  <2>1. /\ queue \in Seq(CallEvents) /\ queue # <<>> /\ queue' = Tail(queue)
        /\ ringing' = ringing /\ answered' = answered
    BY <1>0 DEF Deliver, Delivered, CallType
  <2>2. queue' \in Seq(CallEvents)  BY <2>1
  <2>3. ASSUME Unheard', e.type # "call.answered"
        PROVE  Unheard
    <3>1. \A i \in DOMAIN queue' : queue'[i].type # "call.answered"  BY <2>3 DEF Unheard
    <3>2. ASSUME NEW i \in DOMAIN queue PROVE queue[i].type # "call.answered"
      <4>1. CASE i = 1  BY <2>1, <2>3, <4>1
      <4>2. CASE i # 1
        <5>1. i - 1 \in DOMAIN queue' /\ queue'[i - 1] = queue[i]  BY <2>1, <4>2
        <5> QED  BY <3>1, <5>1
      <4> QED  BY <4>1, <4>2
    <3> QED  BY <2>1, <2>3, <3>2 DEF Unheard
  <2> QED  BY <1>0, <2>1, <2>2, <2>3 DEF CallType
<1>3. drain' \in Drains /\ AgentsNameLease'
  <2>1. CASE drain' = NoAgent
    BY <1>0, <1>1, <2>1 DEF AgentsNameLease, NoAgent
  <2>2. CASE /\ RingingLease # None
             /\ drain' = [pc |-> "stop", lease |-> RingingLease, cause |-> "ringingEnded"]
    <3>1. RingingLease \in Leases \cup {None}  BY <1>0 DEF RingingLease, Fields
    <3>2. "ringingEnded" \in Causes  BY DEF Causes
    <3>3. drain' \in Drains /\ drain'.lease # None /\ drain'.cause = "ringingEnded"
      BY <2>2, <3>1, <3>2 DEF Drains
    <3> QED  BY <1>0, <1>1, <3>3 DEF AgentsNameLease
  <2> QED  BY <2>1, <2>2 DEF Deliver
<1> HIDE DEF e
<1>4. ASSUME co' \in Fields, FieldsAgree', EveryTeardownFits',
             \A d \in Consumers : ConsumerFits(d, con[d], co', fan', startup', Unheard')
      PROVE  StreamInv'
  BY <1>0, <1>1, <1>2, <1>3, <1>4, StandingFacts, FieldsStepKeeps
     DEF sourceVars, sessionVars, historyVars
<1>5. CASE e.type # "call.answered"
  <2>1. co' = co  BY <1>5 DEF Deliver, e
  <2>2. \A d \in Consumers : ConsumerFits(d, con[d], co', fan', startup', Unheard')
    BY <1>1, <1>2, <1>5, <2>1, ConsumersStand DEF StreamInv, coordVars
  <2>3. EveryTeardownFits'  BY <1>1, <2>1, TeardownsStand DEF StreamInv, sourceVars
  <2>4. FieldsAgree'  BY <1>0, <1>1, <2>1 DEF FieldsAgree
  <2> QED  BY <1>0, <1>4, <2>1, <2>2, <2>3, <2>4
<1>6. CASE e.type = "call.answered"
  <2>1. PromoteRinging  BY <1>6 DEF Deliver, e
  <2>2. /\ co' \in Fields /\ co'.lease = co.lease /\ co'.stopping = co.stopping
        /\ co'.owner = co.owner /\ co'.starting = co.starting /\ co'.talker = co.talker
        /\ co'.promoting => co.lease # None
        /\ co'.lease # None /\ co'.preview /\ ~co'.stopping => co'.starting /\ co'.promotePending
    <3>1. CASE co.lease = None \/ ~co.preview \/ co.stopping
      <4>1. co' = co  BY <2>1, <3>1 DEF PromoteRinging
      <4> QED  BY <1>0, <3>1, <4>1 DEF FieldsAgree
    <3>2. CASE ~(co.lease = None \/ ~co.preview \/ co.stopping) /\ co.starting
      <4>1. co' = [co EXCEPT !.promotePending = TRUE]  BY <2>1, <3>2 DEF PromoteRinging
      <4>2. ASSUME NEW t \in BOOLEAN, t, NEW k, k = [co EXCEPT !.promotePending = t]
            PROVE  /\ k \in Fields /\ k.lease = co.lease /\ k.stopping = co.stopping
                   /\ k.owner = co.owner /\ k.starting = co.starting /\ k.talker = co.talker
                   /\ k.promotePending
        BY <1>0, <4>2 DEF Fields
      <4> QED  BY <3>2, <4>1, <4>2
    <3>3. CASE ~(co.lease = None \/ ~co.preview \/ co.stopping) /\ ~co.starting
      <4>1. co' = TakePromotion  BY <2>1, <3>3 DEF PromoteRinging
      <4> QED  BY <1>0, <3>3, <4>1, TakePromotionFields
    <3> QED  BY <3>1, <3>2, <3>3
  <2>3. FieldsAgree'  BY <1>0, <1>1, <2>2 DEF FieldsAgree
  <2>4. EveryTeardownFits'
    <3> SUFFICES ASSUME NEW m \in Leases
                 PROVE  TeardownFits(m, td'[m], co', fan', told', shut', src')
      BY DEF EveryTeardownFits
    <3>1. TeardownFits(m, td[m], co, fan, told, shut, src)
      BY DEF StreamInv, EveryTeardownFits
    <3> QED  BY <1>1, <2>2, <3>1, TeardownKeeps DEF sourceVars
  <2>5. ASSUME NEW d \in Consumers
        PROVE  ConsumerFits(d, con[d], co', fan', startup', Unheard')
    <3>1. ConsumerFits(d, con[d], co, fan, startup, Unheard) /\ d # None  BY ConsumerFacts
    <3>2. Unheard \in BOOLEAN  BY DEF Unheard
    <3>3. /\ OwnsLease(d, con[d], co') /\ HasLease(d, con[d]) /\ JoinsLate(d, con[d], startup')
          /\ OpenBefore(d, con[d], co', fan') /\ LeavesClosed(con[d], fan')
          /\ TalksOnStream(d, con[d], co', fan') /\ NamesLease(con[d].snap)
      <4>1. ASSUME NEW u \in BOOLEAN, ~u
            PROVE  ConsumerFits(d, con[d], co', fan', startup', u)
        BY <1>1, <2>2, <3>1, <3>2, <4>1, BystanderFits
      <4> QED  BY <4>1 DEF ConsumerFits
    <3>4. HearsAnswer(d, con[d], co', Unheard')
      BY <2>2, <3>1, <3>3 DEF OwnsLease, HearsAnswer
    <3> QED  BY <3>3, <3>4 DEF ConsumerFits
  <2> QED  BY <1>4, <2>2, <2>3, <2>4, <2>5
<1> QED  BY <1>5, <1>6
-----------------------------------------------------------------------------
(* The teardown *)

\* The teardown of l moves to t2 and every other one stands by.
LEMMA OneTeardownMoves ==
    ASSUME td \in [Leases -> Teardowns], NEW l \in Leases, NEW t2 \in Teardowns,
           td' = [td EXCEPT ![l] = t2],
           TeardownFits(l, t2, co', fan', told', shut', src'),
           \A m \in Leases : m # l => TeardownFits(m, td[m], co', fan', told', shut', src')
    PROVE  td' \in [Leases -> Teardowns] /\ EveryTeardownFits'
<1>1. td' \in [Leases -> Teardowns]  OBVIOUS
<1>2. ASSUME NEW m \in Leases
      PROVE  TeardownFits(m, td'[m], co', fan', told', shut', src')
  <2>1. CASE m = l  BY <2>1
  <2>2. CASE m # l  BY <2>2
  <2> QED  BY <2>1, <2>2
<1> QED  BY <1>1, <1>2 DEF EveryTeardownFits

\* A step of a teardown that keeps the coordinator stopping as long as the
\* teardown is on its way, and moves no consumer.
LEMMA TeardownMoves ==
    ASSUME StreamInv, NEW l \in Leases, NEW t2 \in Teardowns, td' = [td EXCEPT ![l] = t2],
           t2.pc \in {"close", "await", "reset"},
           UNCHANGED <<coordVars, callback, sessionVars, con, agentVars, told, state, rung, ended>>,
           robbed' \subseteq Leases, CallType', Unheard' => Unheard, dialled' \in Leases \cup {None},
           src' \in [Leases -> SourceSteps], shut \subseteq shut', shut' \subseteq Leases,
           \A s \in shut : src'[s] \in {"asking", "up"} => src[s] \in {"asking", "up"},
           TeardownFits(l, t2, co', fan', told', shut', src')
    PROVE  StreamInv'
<1> USE DEF coordVars, sessionVars, agentVars
<1>0. /\ TypeOK /\ EveryConsumerFits /\ EveryTeardownFits /\ FieldsAgree /\ AgentsNameLease
      /\ td \in [Leases -> Teardowns]
  BY Types DEF StreamInv
<1>1. td' \in [Leases -> Teardowns] /\ EveryTeardownFits'
  <2>1. ASSUME NEW m \in Leases, m # l
        PROVE  TeardownFits(m, td[m], co', fan', told', shut', src')
    <3>1. TeardownFits(m, td[m], co, fan, told, shut, src)  BY <1>0 DEF EveryTeardownFits
    <3> QED  BY <3>1, TeardownKeeps
  <2> QED  BY <1>0, <2>1, OneTeardownMoves
<1>2. TypeOK'
  <2>1. /\ co' \in Fields /\ fan' \in [Leases -> Fan] /\ startup' \in [Leases -> Startups]
        /\ callback' \in Leases \cup {None} /\ owns' \subseteq Leases /\ gone' \subseteq Leases
        /\ con' \in [Consumers -> ConsumerSteps] /\ drain' \in Drains /\ hanger' \in Hangers
        /\ told' \subseteq Consumers /\ state' \in States
        /\ rung' \subseteq Dialogs /\ ended' \subseteq Leases /\ robbed' \subseteq Leases
    BY <1>0, Types
  <2> QED
    BY <1>1, <2>1 DEF TypeOK, CoordinatorType, StreamType, AgentType, Fields, Fan,
       Startups, SourceSteps, Teardowns, ConsumerSteps, Drains, Hangers
<1>3. EveryConsumerFits'
  <2>1. \A d \in Consumers : ConsumerFits(d, con[d], co', fan', startup', Unheard')
    BY <1>0, ConsumersStand
  <2> QED  BY <2>1 DEF EveryConsumerFits
<1>4. FieldsAgree' /\ AgentsNameLease'
  <2>1. co.stopping => co.lease \in Leases
    BY <1>0, Types DEF FieldsAgree, Fields
  <2> QED  BY <1>0, <2>1 DEF FieldsAgree, AgentsNameLease
<1> QED  BY <1>1, <1>2, <1>3, <1>4 DEF StreamInv

\* What the invariant says of one teardown.
LEMMA TeardownFacts ==
    ASSUME StreamInv, NEW l \in Leases
    PROVE  /\ td \in [Leases -> Teardowns] /\ td[l] \in Teardowns
           /\ TeardownFits(l, td[l], co, fan, told, shut, src)
           /\ td[l].source \in Leases \cup {None} /\ td[l].snap \in Snapshots
           /\ l # None /\ None \notin Leases
<1>1. td[l] \in Teardowns /\ TeardownFits(l, td[l], co, fan, told, shut, src)
  BY Types DEF StreamInv, EveryTeardownFits
<1>2. None \notin Leases  BY ConsumersAssumption, NoneAssumption DEF Leases
<1> QED  BY <1>1, <1>2, Types DEF StreamInv, Teardowns

\* bridgeSource.Close shuts the pipelines before the source is waited for.
LEMMA CloseSourceKeeps == ASSUME StreamInv, NEW l \in Leases, CloseSource(l) PROVE StreamInv'
<1>0. /\ td \in [Leases -> Teardowns] /\ td[l] \in Teardowns /\ td[l].pc = "close"
      /\ TeardownFits(l, td[l], co, fan, told, shut, src) /\ td[l].source \in Leases
  <2>1. td[l].pc = "close"  BY DEF CloseSource
  <2>2. td[l].source # None  BY <2>1, TeardownFacts DEF TeardownFits, ShutsSource
  <2> QED  BY <2>1, <2>2, TeardownFacts
<1>1. /\ CallType /\ src \in [Leases -> SourceSteps] /\ shut \subseteq Leases
      /\ dialled \in Leases \cup {None}
  BY StandingFacts
<1>2. /\ shut' = shut \cup {td[l].source}
      /\ UNCHANGED <<callVars, coordVars, src, callback, dialled, sessionVars, con, agentVars,
                     told, state, historyVars>>
  BY DEF CloseSource
<1> DEFINE t2 == [td[l] EXCEPT !.pc = "await"]
<1>3. /\ td' = [td EXCEPT ![l] = t2] /\ t2 \in Teardowns /\ t2.pc = "await"
      /\ t2.cause = td[l].cause /\ t2.source = td[l].source /\ t2.snap = td[l].snap
  BY <1>0 DEF CloseSource, Teardowns
<1> HIDE DEF t2
<1>4. TeardownFits(l, t2, co', fan', told', shut', src')
  <2>1. ClosesFirst(l, t2, co, fan, told)
    BY <1>0, <1>3 DEF TeardownFits, ClosesFirst
  <2>2. ShutsSource(t2, shut', src)
    BY <1>0, <1>2, <1>3, TeardownFacts DEF ShutsSource
  <2> QED  BY <1>0, <1>2, <1>3, <2>1, <2>2 DEF TeardownFits, coordVars
<1>5. CallType' /\ (Unheard' => Unheard)  BY <1>1, <1>2 DEF CallType, callVars, Unheard
<1> QED
  BY <1>0, <1>1, <1>2, <1>3, <1>4, <1>5, StandingFacts, TeardownMoves DEF historyVars

\* The source is closed once it is neither starting nor asking for media.
LEMMA SourceClosedKeeps == ASSUME StreamInv, NEW l \in Leases, SourceClosed(l) PROVE StreamInv'
<1>0. /\ td \in [Leases -> Teardowns] /\ td[l] \in Teardowns /\ td[l].pc = "await"
      /\ TeardownFits(l, td[l], co, fan, told, shut, src) /\ td[l].source \in Leases
  <2>1. td[l].pc = "await"  BY DEF SourceClosed
  <2>2. td[l].source # None  BY <2>1, TeardownFacts DEF TeardownFits, ShutsSource
  <2> QED  BY <2>1, <2>2, TeardownFacts
<1>1. /\ CallType /\ src \in [Leases -> SourceSteps] /\ shut \subseteq Leases
      /\ dialled \in Leases \cup {None}
  BY StandingFacts
<1>2. /\ UNCHANGED <<coordVars, shut, callback, sessionVars, con, agentVars, told, state, rung, ended>>
      /\ robbed' \subseteq Leases
  BY RobsKeeps DEF SourceClosed
<1> DEFINE t2 == [td[l] EXCEPT !.pc = "reset"]
           s == td[l].source
<1>3. /\ td' = [td EXCEPT ![l] = t2] /\ t2 \in Teardowns /\ t2.pc = "reset"
      /\ t2.cause = td[l].cause /\ t2.source = s /\ t2.snap = td[l].snap
  BY <1>0 DEF SourceClosed, Teardowns
<1> HIDE DEF t2
<1>4. /\ src' \in [Leases -> SourceSteps] /\ src'[s] \notin {"asking", "up"}
      /\ \A m \in shut : src'[m] \in {"asking", "up"} => src[m] \in {"asking", "up"}
  <2>1. /\ src[s] \notin {"starting", "inCall", "asking"}
        /\ src' = [src EXCEPT ![s] = IF src[s] = "up" THEN "closed" ELSE src[s]]
    BY <1>0, <1>1 DEF SourceClosed
  <2> QED  BY <1>0, <1>1, <2>1 DEF SourceSteps
<1>5. TeardownFits(l, t2, co', fan', told', shut', src')
  <2>1. ClosesFirst(l, t2, co, fan, told)
    BY <1>0, <1>3 DEF TeardownFits, ClosesFirst
  <2>2. ShutsSource(t2, shut, src')
    BY <1>0, <1>3, <1>4 DEF TeardownFits, ShutsSource
  <2> QED  BY <1>0, <1>2, <1>3, <2>1, <2>2 DEF TeardownFits, coordVars
<1>6. CallType' /\ (Unheard' => Unheard) /\ dialled' \in Leases \cup {None}
  <2>1. CASE UNCHANGED <<callVars, dialled>>
    BY <1>1, <2>1 DEF CallType, callVars, Unheard
  <2>2. CASE HangupCall  BY <2>2, HangupCallKeeps DEF StreamInv
  <2> QED  BY <2>1, <2>2 DEF SourceClosed
<1> QED  BY <1>0, <1>1, <1>2, <1>3, <1>4, <1>5, <1>6, TeardownMoves
\* finishStop frees the lease, so that it is not stopping any more.
LEMMA TeardownResetsKeeps ==
    ASSUME StreamInv, NEW l \in Leases, TeardownResets(l) PROVE StreamInv'
<1>0. /\ td \in [Leases -> Teardowns] /\ td[l] \in Teardowns /\ td[l].pc = "reset"
      /\ TeardownFits(l, td[l], co, fan, told, shut, src) /\ FieldsAgree
      /\ SnapshotAfterReset(l) \in Snapshots /\ NamesLease(SnapshotAfterReset(l))
  <2>1. SnapshotAfterReset(l) \in Snapshots /\ NamesLease(SnapshotAfterReset(l))
    BY SnapshotNames DEF SnapshotAfterReset, StreamInv
  <2> QED  BY <2>1, TeardownFacts DEF TeardownResets, StreamInv
<1>1. ResetFields(l) /\ UNCHANGED <<callVars, sourceVars, con, agentVars, told, state, historyVars>>
  BY DEF TeardownResets
<1> DEFINE t2 == [td[l] EXCEPT !.pc = "observe", !.snap = SnapshotAfterReset(l)]
<1>2. /\ td' = [td EXCEPT ![l] = t2] /\ t2 \in Teardowns /\ t2.pc = "observe"
      /\ t2.cause = td[l].cause /\ t2.source = td[l].source /\ t2.snap = SnapshotAfterReset(l)
  BY <1>0 DEF TeardownResets, Teardowns
<1> HIDE DEF t2
<1>3. /\ co' \in Fields /\ fan' \in [Leases -> Fan] /\ startup' \in [Leases -> Startups]
      /\ co'.lease # l /\ (co'.lease = None \/ co' = co)
      /\ co'.owner = "companion" <=> co'.lease # None
      /\ co'.promoting => co'.lease # None
      /\ co'.stopping => co'.stopping = co.stopping /\ co'.lease = co.lease
      /\ \A m \in Leases : fan'[m].members = fan[m].members
      /\ \A m \in Leases : fan[m].closed => fan'[m].closed
      /\ \A d \in Consumers : ConsumerFits(d, con[d], co', fan', startup', Unheard')
  BY <1>1, ResetKeeps
<1>4. FieldsAgree'
  <2>1. ASSUME co'.stopping
        PROVE  co'.lease # None /\ td'[co'.lease].pc \in {"close", "await", "reset"}
    <3>1. co'.lease = co.lease /\ co.stopping  BY <1>3, <2>1
    <3>2. /\ co.lease \in Leases /\ td[co.lease].pc \in {"close", "await", "reset"}
          /\ co.lease # None
      BY <1>0, <3>1, StandingFacts DEF FieldsAgree, Fields
    <3>3. td'[co.lease] = td[co.lease]  BY <1>0, <1>2, <1>3, <3>1, <3>2
    <3> QED  BY <3>1, <3>2, <3>3
  <2> QED  BY <1>3, <2>1 DEF FieldsAgree
<1>5. td' \in [Leases -> Teardowns] /\ EveryTeardownFits'
  <2>0. UNCHANGED <<told, shut, src>>  BY <1>1 DEF sourceVars
  <2>1. ASSUME NEW m \in Leases, m # l
        PROVE  TeardownFits(m, td[m], co', fan', told', shut', src')
    <3>1. TeardownFits(m, td[m], co, fan, told, shut, src) /\ m # None  BY TeardownFacts
    <3> QED  BY <1>3, <2>0, <3>1, TeardownKeeps
  <2>2. TeardownFits(l, t2, co', fan', told', shut', src')
    <3>1. ClosesFirst(l, t2, co', fan', told')
      BY <1>0, <1>2, <1>3 DEF TeardownFits, ClosesFirst
    <3>2. ShutsSource(t2, shut', src')
      BY <1>0, <1>2, <2>0 DEF TeardownFits, ShutsSource
    <3> QED  BY <1>0, <1>2, <3>1, <3>2 DEF TeardownFits
  <2> QED  BY <1>0, <1>2, <2>1, <2>2, OneTeardownMoves
<1>6. con' \in [Consumers -> ConsumerSteps] /\ src' \in [Leases -> SourceSteps]
  BY <1>1, Types DEF StreamInv, sourceVars
<1>7. EveryConsumerFits'  BY <1>1, <1>3 DEF EveryConsumerFits
<1> QED
  BY <1>1, <1>3, <1>4, <1>5, <1>6, <1>7, CoordinatorKeeps DEF sourceVars

\* After finishStop the teardown calls the observer and tells the consumers who
\* are left; nobody joins meanwhile.
LEMMA TeardownEndsKeep ==
    ASSUME StreamInv, NEW l \in Leases, TeardownObserved(l) \/ TeardownTells(l)
    PROVE  StreamInv'
<1>0. /\ td \in [Leases -> Teardowns] /\ td[l] \in Teardowns /\ td[l].pc \in {"observe", "tell"}
      /\ TeardownFits(l, td[l], co, fan, told, shut, src) /\ FieldsAgree /\ TypeOK
      /\ td[l].snap \in Snapshots /\ fan \in [Leases -> Fan] /\ told \subseteq Consumers
      /\ Snapshot(IdleFields) \in Snapshots /\ NamesLease(Snapshot(IdleFields))
  BY TeardownFacts, StandingFacts, SnapshotNames
     DEF TeardownObserved, TeardownTells, StreamInv
<1>1. UNCHANGED <<callVars, coordVars, sourceVars, con, agentVars, historyVars>>
  BY DEF TeardownObserved, TeardownTells
<1>2. co.lease # l
  BY <1>0 DEF TeardownFits, ClosesFirst, FieldsAgree
<1>3. /\ state' \in States /\ told \subseteq told' /\ told' \subseteq Consumers
      /\ \E t2 \in Teardowns :
            td' = [td EXCEPT ![l] = t2] /\ TeardownFits(l, t2, co, fan, told', shut, src)
  <2>1. CASE TeardownObserved(l)
    <3> DEFINE t2 == [td[l] EXCEPT !.pc = "tell", !.snap = Snapshot(IdleFields)]
    <3>1. /\ td' = [td EXCEPT ![l] = t2] /\ t2 \in Teardowns /\ t2.pc = "tell"
          /\ t2.cause = td[l].cause /\ t2.source = td[l].source
          /\ t2.snap = Snapshot(IdleFields)
      BY <1>0, <2>1 DEF TeardownObserved, Teardowns
    <3> HIDE DEF t2
    <3>2. state' \in States
      BY <1>0, <2>1, ObserveType DEF TeardownObserved, TeardownFits
    <3>3. ClosesFirst(l, t2, co, fan, told)
      BY <1>0, <3>1 DEF TeardownFits, ClosesFirst
    <3>4. ShutsSource(t2, shut, src)
      BY <1>0, <2>1, <3>1 DEF TeardownFits, ShutsSource, TeardownObserved
    <3>5. told' = told  BY <2>1 DEF TeardownObserved
    <3> QED  BY <1>0, <3>1, <3>2, <3>3, <3>4, <3>5 DEF TeardownFits
  <2>2. CASE TeardownTells(l)
    <3> DEFINE t2 == [td[l] EXCEPT !.pc = "done"]
    <3>1. /\ td' = [td EXCEPT ![l] = t2] /\ t2 \in Teardowns /\ t2.pc = "done"
          /\ t2.cause = td[l].cause /\ t2.source = td[l].source
          /\ t2.snap = td[l].snap /\ t2.tells = td[l].tells
      BY <1>0, <2>2 DEF TeardownTells, Teardowns
    <3> HIDE DEF t2
    <3>2. state' \in States  BY <2>2, Types DEF TeardownTells, StreamInv
    <3>3. /\ told \subseteq told' /\ told' \subseteq Consumers
          /\ td[l].tells => fan[l].members \subseteq told'
      <4>1. fan[l].members \subseteq Consumers  BY <1>0 DEF Fan
      <4> QED  BY <1>0, <2>2, <4>1 DEF TeardownTells, Tells
    <3>4. ClosesFirst(l, t2, co, fan, told')
      BY <1>0, <3>1, <3>3 DEF TeardownFits, ClosesFirst
    <3>5. ShutsSource(t2, shut, src)
      BY <1>0, <2>2, <3>1 DEF TeardownFits, ShutsSource, TeardownTells
    <3> QED  BY <1>0, <3>1, <3>2, <3>3, <3>4, <3>5 DEF TeardownFits
  <2> QED  BY <2>1, <2>2
<1>4. PICK t2 \in Teardowns :
         td' = [td EXCEPT ![l] = t2] /\ TeardownFits(l, t2, co, fan, told', shut, src)
  BY <1>3
<1>5. UNCHANGED <<co, fan, startup, shut, src>>  BY <1>1 DEF coordVars, sourceVars
<1>6. td' \in [Leases -> Teardowns] /\ EveryTeardownFits'
  <2>1. ASSUME NEW m \in Leases, m # l
        PROVE  TeardownFits(m, td[m], co', fan', told', shut', src')
    <3>1. TeardownFits(m, td[m], co, fan, told, shut, src)  BY TeardownFacts
    <3> QED  BY <1>3, <1>5, <3>1, TeardownKeeps
  <2> QED  BY <1>0, <1>4, <1>5, <2>1, OneTeardownMoves
<1>7. TypeOK'
  <2>1. CallType'  BY <1>0, <1>1 DEF TypeOK, CallType, callVars
  <2>2. /\ co' \in Fields /\ fan' \in [Leases -> Fan] /\ startup' \in [Leases -> Startups]
        /\ src' \in [Leases -> SourceSteps] /\ shut' \subseteq Leases
        /\ callback' \in Leases \cup {None} /\ dialled' \in Leases \cup {None}
        /\ owns' \subseteq Leases /\ gone' \subseteq Leases
        /\ con' \in [Consumers -> ConsumerSteps] /\ drain' \in Drains /\ hanger' \in Hangers
        /\ rung' \subseteq Dialogs /\ ended' \subseteq Leases /\ robbed' \subseteq Leases
    BY <1>0, <1>1, Types DEF coordVars, sourceVars, sessionVars, agentVars,
       historyVars
  <2> QED
    BY <1>3, <1>6, <2>1, <2>2 DEF TypeOK, CoordinatorType, StreamType, AgentType, Fields, Fan,
       Startups, SourceSteps, Teardowns, ConsumerSteps, Drains, Hangers
<1>8. FieldsAgree' /\ AgentsNameLease'
  <2>1. co.stopping => co.lease \in Leases /\ co.lease # None
    BY <1>0, StandingFacts DEF FieldsAgree, Fields
  <2>2. co.stopping => td'[co.lease] = td[co.lease]  BY <1>0, <1>2, <1>4, <2>1
  <2>3. FieldsAgree'  BY <1>0, <1>5, <2>1, <2>2 DEF FieldsAgree
  <2>4. AgentsNameLease'  BY <1>1, StandingFacts DEF AgentsNameLease, agentVars
  <2> QED  BY <2>3, <2>4
<1>9. EveryConsumerFits'
  <2>1. Unheard' => Unheard  BY <1>1 DEF callVars, Unheard
  <2>2. \A d \in Consumers : ConsumerFits(d, con[d], co', fan', startup', Unheard')
    BY <1>1, <2>1, ConsumersStand DEF StreamInv
  <2> QED  BY <1>1, <2>2 DEF EveryConsumerFits
<1> QED  BY <1>6, <1>7, <1>8, <1>9 DEF StreamInv
-----------------------------------------------------------------------------
(* The invariant, and what it says. *)

\* Nothing is held, nobody has asked and no call rings.
LEMMA StreamInitInv == Init => StreamInv
<1> SUFFICES ASSUME Init PROVE StreamInv  OBVIOUS
<1>0. None \notin Leases /\ None \notin Consumers
  BY ConsumersAssumption, NoneAssumption DEF Leases
<1>1. CallType  BY DEF Init, CallInit, CallType
<1>2. Snapshot(IdleFields) \in Snapshots /\ NamesLease(Snapshot(IdleFields))
      /\ Snapshot(IdleFields).owner = "idle"
  BY DEF Snapshot, IdleFields, Snapshots, NamesLease
<1>3. co \in Fields /\ co.lease = None /\ co.owner = "idle" /\ co.talker = None
      /\ co.promoting = FALSE /\ co.stopping = FALSE
  BY DEF Init, IdleFields, Fields
<1>4. NoTeardown \in Teardowns /\ NewConsumer \in ConsumerSteps
  <2> HIDE DEF Snapshot
  <2> QED  BY <1>2 DEF NoTeardown, Teardowns, NewConsumer, ConsumerSteps, ConsumerPCs
<1>5. drain \in Drains /\ hanger \in Hangers  BY DEF Init, NoAgent, Drains, Hangers
<1>6. state \in States
  BY RevisionAssumption DEF Init, InitialState, States, CallStates
<1>7. TypeOK
  <2>1. fan \in [Leases -> Fan]  BY DEF Init, Fan
  <2>2. startup \in [Leases -> Startups] /\ src \in [Leases -> SourceSteps]
    BY DEF Init, Startups, SourceSteps
  <2>3. td \in [Leases -> Teardowns] /\ con \in [Consumers -> ConsumerSteps]
    BY <1>4 DEF Init
  <2>4. /\ shut \subseteq Leases /\ callback \in Leases \cup {None}
        /\ dialled \in Leases \cup {None} /\ owns \subseteq Leases /\ gone \subseteq Leases
        /\ told \subseteq Consumers /\ rung \subseteq Dialogs /\ ended \subseteq Leases /\ robbed \subseteq Leases
    BY DEF Init
  <2> QED  BY <1>1, <1>3, <1>5, <1>6, <2>1, <2>2, <2>3, <2>4, Types
<1>8. FieldsAgree  BY <1>3 DEF FieldsAgree
<1>9. AgentsNameLease  BY DEF Init, NoAgent, AgentsNameLease
<1>10. EveryConsumerFits
  <2> SUFFICES ASSUME NEW c \in Consumers
               PROVE  ConsumerFits(c, con[c], co, fan, startup, Unheard)
    BY DEF EveryConsumerFits
  <2>1. /\ con[c].pc = "idle" /\ con[c].snap = Snapshot(IdleFields)
        /\ ~fan[c].closed /\ startup[c] = "pending" /\ co.lease # c /\ co.talker # c
    BY <1>0, <1>3 DEF Init, NewConsumer, Leases
  <2>2. OwnsLease(c, con[c], co) /\ TalksOnStream(c, con[c], co, fan)
        /\ HearsAnswer(c, con[c], co, Unheard)
    BY <2>1 DEF OwnsLease, TalksOnStream, HearsAnswer
  <2>3. /\ HasLease(c, con[c]) /\ JoinsLate(c, con[c], startup)
        /\ OpenBefore(c, con[c], co, fan) /\ LeavesClosed(con[c], fan)
    BY <2>1 DEF HasLease, JoinsLate, OpenBefore, LeavesClosed, BeforePCs, StartPCs, HoldPCs
  <2> QED  BY <1>2, <2>1, <2>2, <2>3 DEF ConsumerFits
<1>11. EveryTeardownFits
  <2> SUFFICES ASSUME NEW l \in Leases
               PROVE  TeardownFits(l, td[l], co, fan, told, shut, src)
    BY DEF EveryTeardownFits
  <2>1. /\ td[l].pc = "none" /\ td[l].cause = None /\ td[l].snap = Snapshot(IdleFields)
        /\ fan[l].members = {}
    BY DEF Init, NoTeardown
  <2>2. None \notin {"released", "left"}  BY CausesAssumption DEF Causes
  <2> QED  BY <1>2, <2>1, <2>2 DEF TeardownFits, ClosesFirst, ShutsSource
<1> QED  BY <1>7, <1>8, <1>9, <1>10, <1>11 DEF StreamInv

\* Every step of the system, one lemma per kind.
LEMMA StreamNextInv == StreamInv /\ [Next]_vars => StreamInv'
<1> SUFFICES ASSUME StreamInv, [Next]_vars PROVE StreamInv'  OBVIOUS
<1>1. ASSUME NEW c \in Consumers, ConsumerStep(c) PROVE StreamInv'
  BY <1>1, ProbesKeep, ReserveKeeps, JoinAddsKeeps, QuietStepsKeep, AddsItselfKeeps,
     AbortResetsKeeps, HoldStepsKeep, AttachSourceKeeps, ConsumerStopsKeeps,
     FinishStartKeeps, AnnounceStartKeeps, LeaveRemovesKeeps, LeaveUntalksKeeps
     DEF ConsumerStep
<1>2. ASSUME NEW l \in Leases, TeardownStep(l) PROVE StreamInv'
  BY <1>2, CloseSourceKeeps, SourceClosedKeeps, TeardownResetsKeeps, TeardownEndsKeep
     DEF TeardownStep
<1>3. ASSUME NEW l \in Leases, SourceStep(l) PROVE StreamInv'
  BY <1>3, SourceStepKeeps
<1>4. CASE Environment
  <2>1. ASSUME NEW c \in Consumers,
               \/ ProbesRinging(c) \/ JoinTimesOut(c) \/ StartTimesOut(c) \/ Talk(c)
               \/ \E by \in {"released", "left"} : Leave(c, by)
        PROVE  StreamInv'
    BY <2>1, ProbesKeep, QuietStepsKeep, TalkKeeps, HoldStepsKeep
  <2>2. ASSUME NEW l \in Leases, RemoteBYE(l) \/ SourceFailure(l) \/ Reconcile(l)
        PROVE  StreamInv'
    BY <2>2, SourceEventsKeep, CoordinatorStepsKeep
  <2>3. ASSUME ObserveControlStop \/ \E track \in Tracks : ObserveControlTrack(track)
        PROVE  StreamInv'
    BY <2>3, CoordinatorStepsKeep
  <2>4. ASSUME Hangup \/ LineMoves PROVE StreamInv'
    BY <2>4, AgentStepsKeep, LineMovesKeeps
  <2> QED  BY <1>4, <2>1, <2>2, <2>3, <2>4 DEF Environment
<1>5. CASE PromotionEnds  BY <1>5, CoordinatorStepsKeep
<1>6. CASE DrainStep  BY <1>6, DeliverKeeps, AgentStopsKeep, AgentStepsKeep DEF DrainStep
<1>7. CASE HangupStep  BY <1>7, AgentStopsKeep, AgentStepsKeep DEF HangupStep
<1>8. CASE UNCHANGED vars
  <2>1. /\ CallType' /\ (Unheard' => Unheard)
        /\ UNCHANGED <<coordVars, td, con, told, state, shut>>
        /\ UNCHANGED <<src, callback, dialled, owns, gone, drain, hanger, rung, ended, robbed>>
    BY <1>8, StandingFacts DEF vars, callVars, CallType, Unheard, sourceVars, sessionVars,
       agentVars, historyVars
  <2>2. AgentsNameLease'  BY <2>1, StandingFacts DEF AgentsNameLease
  <2> QED  BY <2>1, <2>2, StandingFacts, StandingKeeps
<1> QED  BY <1>1, <1>2, <1>3, <1>4, <1>5, <1>6, <1>7, <1>8 DEF Next, Rest

\* The stream coordinator, whoever shares the stream and whatever stops it: the
\* uplink is never left with a consumer that is gone (leave, WriteBackchannelRTP),
\* nobody slips into a stream that the last one out ends (fanout.remove, stop),
\* everybody left on a stream that ends from outside is told (stop, fanout.failed),
\* a source that a teardown has closed does not come up again (bridgeSource.Close,
\* streamPipelines.close), and no preview outlasts the answer of its call once
\* nothing is under way (PromoteRinging, finishStart).
THEOREM StreamIsShared ==
    Spec => [](/\ TypeOK /\ NoStaleTalker /\ NobodyLeftBehind /\ EveryoneTold
               /\ ClosedForGood /\ AnsweredIsPromoted)
<1>1. StreamInv => NoStaleTalker
  <2> SUFFICES ASSUME StreamInv, co.talker # None
               PROVE  \/ co.lease # None /\ co.talker \in fan[co.lease].members
                      \/ con[co.talker].pc \in {"untalking", "untalkingLast"}
    BY DEF NoStaleTalker
  <2>1. co.talker \in Consumers  BY StandingFacts DEF Fields
  <2>2. TalksOnStream(co.talker, con[co.talker], co, fan)
    BY <2>1 DEF StreamInv, EveryConsumerFits, ConsumerFits
  <2> QED  BY <2>2 DEF TalksOnStream
<1>2. StreamInv => NobodyLeftBehind /\ EveryoneTold
  BY DEF StreamInv, EveryTeardownFits, TeardownFits, ClosesFirst, NobodyLeftBehind,
     EveryoneTold
<1>3. StreamInv => ClosedForGood
  BY DEF StreamInv, EveryTeardownFits, TeardownFits, ShutsSource, ClosedForGood
<1>4. StreamInv => AnsweredIsPromoted
  <2> SUFFICES ASSUME StreamInv, Quiet, co.lease # None, co.preview, answered # None
               PROVE  FALSE
    BY DEF AnsweredIsPromoted
  <2>1. co.lease \in Consumers /\ co.lease \in Leases  BY StandingFacts DEF Fields, Leases
  <2>2. HearsAnswer(co.lease, con[co.lease], co, Unheard)
    BY <2>1 DEF StreamInv, EveryConsumerFits, ConsumerFits
  <2>3. Unheard  BY DEF Quiet, Unheard
  <2>4. ~co.stopping  BY <2>1 DEF Quiet, StreamInv, FieldsAgree
  <2>5. con[co.lease].pc \in {"idle", "holding", "done"}  BY <2>1 DEF Quiet
  <2> QED  BY <2>2, <2>3, <2>4, <2>5 DEF HearsAnswer, StartPCs
<1>5. StreamInv => TypeOK  BY DEF StreamInv
<1> QED
  BY <1>1, <1>2, <1>3, <1>4, <1>5, StreamInitInv, StreamNextInv, PTL DEF Spec
=============================================================================
