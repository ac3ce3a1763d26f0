# A TLA+ verification project for the BTicino GO Companion

The companion runs on a BTicino door-entry unit.  It takes the doorbell's SIP
calls, opens the intercom's video and audio, and offers both to Home Assistant
(HTTP and WebSocket API), WebRTC cards, RTSP clients and HomeKit.  There is one
physical line and one video stream, and almost everything runs on its own
goroutine: this project models who may use them, in which order events reach
the clients, and what happens when two goroutines meet.

Paths below are relative to `src/internal/` unless they start with `src/`.

## 1. Inventory

| Part | State it keeps | Operations | What is hard |
| --- | --- | --- | --- |
| State projector, `core/state.go`, `events.go` | one `State`: ring, incoming and active call, last end, preview, audio, voicemail | `Apply` | events of independent goroutines in any order |
| Call manager, `signaling/manager.go` | the pending inbound dialog and its expiry, the active dialog, the event queue and its drain | `OnInvite`, `Answer`, `Decline`, `Hangup`, `HangupCall`, `RemoteDialogEnded`, `EndIncoming`, `StartStream` | the lock is released while a response is on the wire; commit order against delivery order; the lock is held across a dial |
| SIP dialer, `signaling/dialer.go` | inbound dialogs, one adapter each; registration | `onInvite`, `onBye`, the CANCEL hook, `Respond`, `Bye`, `Register`, `Close` | CANCEL, BYE, 180, 200 and the expiry race on one dialog |
| Stream coordinator, `media/stream_coordinator.go`, `fanout.go` | the one lease, its source, its consumers, the ringing preview, the talker | `Acquire*`, `Release`, `Leave`, `PromoteRinging`, `StopRinging`, `EndCall`, `ObserveControl*`, `Reconcile` | probes sampled before the lock, joiners of a dying stream, a start that ends after its teardown, the observer called after the unlock |
| Source session, `media/source_session.go` | whether it owns the SIP dialog | `Start`, `Answered`, `Close`, `RemoteDialogEnded` | which teardown may send a BYE |
| Ring holder, ring watch, bus call, pipelines, `app/` | one generation or handle each | started and stopped by call events | late events against a newer ring |
| OpenWebNet mapper, listener, client, AV, `openwebnet/` | ring context, time windows, one command session per caller | `Map`, `Run`, commands, the unlock press | duplicates, stop bursts, stale stops; one deadline for a whole session |
| WebRTC, RTSP, snapshots, ring clips, audio bridge, `media/` | session tables, captures, recordings, child processes | open, close, capture, record, restart | a close that crosses a start; a late writer; timestamps that wrap |
| HomeKit, `homekit/` | accessory server, pairings, camera sessions, lock timers | camera commands, unlock, sync | a session ended while its stream is acquired; a timer that fired too late to be stopped |
| API and WebSocket hub, `api/`, web interface, `webui/` | clients, login sessions | broadcast, signalling, requests | a client that joins during a change; a socket lost during an offer |
| Authentication, configuration, storage, `auth/`, `config/`, `storage/` | the configuration in memory and on disk, codes, tokens | claim, repair, rotate, revoke, save, load | a snapshot read before a hash and used after it; a power loss between two system calls |
| Updater and system, `system/`, ringer sync, `ringersync/` | update state, release files | check, install, roll back | partial failure |
| Diagnostics, discovery, logging, `src/cmd`, `src/scripts` | none worth a model | I/O | |

How they interact: the dialer calls the manager (`InboundHandler`); the manager
commits a transition under its lock and queues an event; one drain goroutine
hands each event to the sink, which promotes or stops the ringing preview,
applies the event to the projector and broadcasts the new state.  The media
source calls the manager to dial (`StartStream`) and to hang up (`HangupCall`);
the coordinator asks it through two probes whether a call rings or is answered.
The OpenWebNet listener applies ring frames to the same projector.

What makes the parts correct: the projector shows at most one call and never a
ring that is not there; the manager uses the line once, leaves no answered call
without somebody able to end it, concludes every INVITE exactly once, and its
view and the projector's converge; the coordinator owns at most one running
source and every source it starts is closed; a media teardown never ends a call
that is not its own; whoever reserves the stream or starts a child process lets it
go, however late the reservation arrives; every client is given the newest state;
and what the configuration store acknowledged survives.  `PROJECT.json` lists the
hazards line by line.

## 2. Modules

| Module | Models | State and actions |
| --- | --- | --- |
| `CoreState` | `core/state.go`, `events.go` | no state: `States`, the event constructors, `Accepts` (which events `apply` refuses), `Effect`, `Apply` |
| `Projector` | `core.Projector` | `state`; one action `ApplyEvent` for every event, in any order; `ringSinceAnswer` is a history variable for one property |
| `SipManager` | `signaling/manager.go`, the inbound half of `signaling/dialer.go`, the resolver and the event applier of `app/run.go` | see below |
| `CallLine` | what `signaling.Manager` promises the rest | `ringing`, `answered`, `queue`; one action per transition the manager commits and `Delivered` for its drain |
| `StreamCoordinator` | `media/stream_coordinator.go`, `fanout.go`, the parts of `source_session.go`, `app/pipelines.go` and `app/run.go` a lease runs through; extends `CallLine` | see below |
| `SharedStream` | what `media.StreamCoordinator` promises its consumers | per stream `life` (none, starting, live, ending, over) and `members`, and who was `told`; one action per thing that can happen to a stream |
| `SipEndpoint` | the rest of `signaling/dialer.go`: registration, tracked inbound goroutines, `Close` | `loop` is the registration loop, `known`/`link` what Flexisip and the transport have, `closeAt` how far `Close` is |
| `Mapper` | `openwebnet/mapper.go`, fed by `listener.go` | the three timestamps as ages in ticks; `MapRing`, `MapStop`, `MapSetting`; the door and the unit's stop bursts are the environment |
| `BusObservers` | `app/ringwatch.go`, `app/buscall.go` | the `streamUp` channel and its waiters; the call open on the bus and who closes it |
| `BusControl` | `openwebnet/client.go`, the unlock handler of `api/handlers.go` | one session per caller with the ticks left to its deadline |
| `RingHolder` | `app/ringholder.go`; extends `CallLine` | generation, lease, clip, one acquire goroutine per generation |
| `Fanout` | `media/fanout.go` | the key-frame cache and what each consumer received |
| `WebRTC` | `media/webrtc.go` | session table, offer lock, candidates, each session's lease from start to drop |
| `Rtsp` | `media/rtsp_server.go` | readers, starting readers, the one lease |
| `Snapshots` | `media/snapshot.go` | captures, published pictures, files, the writer that holds `writeMu` |
| `RingClip` | `media/ringclip.go` | clips with their samples, the file, temporary files, a crash |
| `AudioBridge` | `media/audiobridge.go`, `app/pipelines.go`, `bridgeSource` | child processes and the start, restart or stop that holds each |
| `HomeKit` | `homekit/camera.go`, the lock of `homekit/lifecycle.go` | camera sessions and the leases they hold; the shown lock and its timers |
| `Clients` | `api/websocket.go`, `newEventApplier`, `Manager.Sync` | the hub and its appliers; the signalling sockets and the sessions they hold |
| `ConfigStore` | `config/config.go`, `storage/file.go` | the configuration in memory, on disk, and what may be left of it after a power loss |
| `Accounts` | `auth/`, the account routes of `webui/server.go`, `pair/local`; extends `ConfigStore` | one stage per request, web sessions, the repair code |
| `MCSipManager`, `MCSipLive`, `MCStreamCoordinator`, `MCStreamCases`, `MCParts` | | the TLC instances and the cases a run's first state chooses from; symmetry sets |
| `CoreStateProofs` | | lemmas about the operators of `CoreState` |
| `SipManagerProofs` | | theorems about `SipManager`, its refinement of `CallLine` included |
| `StreamProofs`, `StreamShareProofs` | | theorems about `StreamCoordinator`; its refinement of `SharedStream`, and which teardown ends the call |
| `BusProofs` | | theorems about `Mapper`, `BusObservers`, `BusControl`, `RingHolder` |
| `MediaProofs` | | theorems about `Fanout`, `WebRTC`, `Rtsp`, `Snapshots`, `AudioBridge`, `RingClip` |
| `ClientProofs` | | theorems about `Projector`, `HomeKit`, `Clients`, `Accounts` over `ConfigStore` |
| `PartsProofs` | | the type theorem of the run of the parts, from theirs |

How they compose: `SipManager` applies its events to a `CoreState` state and
implements `CallLine`; `StreamCoordinator` and `RingHolder` run over `CallLine`,
and `StreamCoordinator` implements `SharedStream`; `Accounts` runs over `ConfigStore`.  `WebRTC`, `Rtsp` and `HomeKit` meet the
coordinator through a lease that is granted, refused, released or lost, which is
what `StreamCoordinator` shows of it, and are otherwise independent.

`SipManager` has one action per critical section of `Manager.mu` and one per
step a goroutine takes between two of them.  `mu` is a variable only because
`StartStream` keeps the lock while it dials; every other critical section is one
atomic action with the guard `mu = "free"`.  `incoming` and `active` are the
manager's two slots (`activeID` and `activeIncoming` follow from `active`);
`expiry` is the timer of a reservation and its callback; `pending`, `draining`
and `delivering` are the event queue, the drain and the event it has in hand;
`projector` is a `CoreState` state to which `Deliver` applies events and the bus
its ring frames.  Per inbound dialog, `invite`, `cancel` and `bye` say where the
goroutines of the dialer are, `adapter` is `incomingDialog`'s
`ringing`/`concluded`/`withdrawn`, `session` the SIP session underneath it and
`finals` counts the final responses written.  `caller` is the program counter of
each goroutine that called `Answer`, `Decline`, `Hangup` or `HangupCall` and the
dialog it holds.  `misdirected` is a history variable: which operations ended
another dialog than the one they were called for.

`SipManager` also states what it implements: `Line` is `CallLine` with the
pending dialog for `ringing`, the answered inbound dialog for `answered` and the
events not yet applied (`Undelivered`) for `queue`; `ImplementsLine` is its
specification.  The media side then composes with the three variables of
`CallLine` instead of the manager's twenty.

`StreamCoordinator` has one action per critical section of
`StreamCoordinator.mu`, and one per step between two of them.  `co` holds the
coordinator's fields; `fan` and `startup` are each lease's `fanout` and
`streamStart`; `src`, `shut`, `owns` and `gone` are each source's progress
through `SourceSession.Start` and `Close`, the pipelines' closed flag,
`ownsDialog` and `remoteEnded`; `callback` is the one source whose BYE callback
the dialer holds and `dialled` the one whose dialog the manager holds; `td` is
the program counter of each lease's teardown (close, await the startup, reset,
call the observer, tell the consumers), `con` of each consumer from its probes
to its leave, `drain` of the event drain in `StopRinging` and `hanger` of an API
request in `Manager.Hangup` and `EndCall`.  `told` records who heard that the
stream is over, `state` is the projected state the observer moves; `rung`,
`ended` and `robbed` (sources whose dialled dialog somebody else dropped) are
history variables.  `Happens` says which parts of the environment a
run lets loose: BYEs, source failures, stalls, bus frames, API hangups,
timeouts, microphones.

`Share` is `SharedStream` over these variables.  A stream's life (`Life`) is read
off the coordinator's lease, its `starting` flag and the fan-out: a stream is over
when the coordinator has let go of its lease, and ends when its fan-out is closed,
which is earlier than `stopping` is cleared and is what a joiner meets; its members
are the fan-out's.  `ImplementsShare` is the abstract specification.

Abstracted in `StreamCoordinator`: a lease, its fan-out and its source are named
after the consumer that reserved it, as the code never reuses a number.  Time is
abstract: a stall may be found whenever both tracks were requested, a startup
budget may run out whenever it is waited on.  A cancelled startup is taken to
return before the two 10 s `Close` deadlines, as its context is cancelled at
once.  The dial of a source is one step (its lock is `SipManager`'s subject).
`bridgeSource.Close` and the cleanup's second `Close` are `SourceClosed`, and the
observer's read of the projector and its event are one step.  A failed promotion
checks that the lease is current and stops it in one step.  The BYE callback's two
calls, the session's and the coordinator's (run.go:854-860), are one step.  Packets
are left out; the key-frame cache and its replay are `Fanout`.

Abstracted in `SipManager`: SDP, addresses, headers, logging, contexts (a timeout is a step that
may happen at any time the code would accept it), `time` (the expiry and the
grace may run out at any moment), the sip library (a session is none, early,
established, ended, or unsent: a 200 OK
that could not be written, after which sipgo still has the session established).  A
provisional response and a 200 OK fail or succeed; a rejection is taken to reach the
wire.  `cloneState` is the identity
on values.  `Revision` wraps at `RevisionLimit` instead of 2^64.

Abstracted in the other modules:

* `Mapper`, `BusControl`: time is a tick; an age saturates one past the window
  that reads it.  `MapperAssumption` is what the constants of the code were chosen
  for: the last stop before a ring inside a burst is at most a pause and a tail
  ago, each short of its bound, which the burst window must cover, and the tail
  is no longer than the stale-stop window.  Frames are records, not text.
* `Fanout`: a packet is its number, picture and size.  A key frame is assumed to
  fit the cache limit (`FanoutAssumption`); beyond it the cache is emptied, and a
  later slice of the same key frame would start it again inside the picture.
* `WebRTC`: pion's peer connection may fail at any call; SDP is left out.  A
  client may use a session id again; closing it then closes the newer session.
* `Rtsp`: a stream lost to a BYE tells the server nothing, so a new reader can
  acquire a second lease beside a reader of the dead one.  `mixed` records that
  this happened, and `StreamHasReader` is about the runs without it (section 3).
* `Snapshots`, `RingClip`: access units are records; a crash drops whatever is
  not in a file.  Two clips of one entrypoint finish on goroutines of their own,
  so the older may be published last; the property is about a file that plays.
* `AudioBridge`: packets are left out; a child may die whenever it runs.
* `HomeKit`: `closeSession`'s compare-and-swap and its read of the lease are one
  step, as the session was taken out of `active` before.  The shown streaming status is set outside the lock (camera.go:445)
  and may be stale; no property is stated about it.
* `Clients`: a state is its revision.  `synced` and `sentTo` are what HomeKit and
  each client were given last, overwritten by every write as in the code; `given`
  and `reached` are histories of the newest they were ever given.  `crossed` and
  `late` record what was under way when the newest event was applied: other
  appliers, and sockets whose first state had been read.
* `ConfigStore`: only the fields the properties tell apart.  The write, its sync and
  the rename are one step, since the file is synced before it is renamed; the sync of
  the directory is its own.  A process that dies leaves the file as it is and an
  unsynced rename unsynced; a power loss keeps either side of it.  The main unit need
  not be an entrypoint, and then an edit gets no default doorbell.
* `Accounts`: hashing is a step between two reads of the configuration; the
  attempt limit only refuses.  `StartInitialClaim` has no caller and is left out.
  A rotation that was asked for before a revocation may be saved after it.

## 3. Runs

Deadlock is checked in `sip_calls` and `stream`.  In `SipManager` and
`StreamCoordinator` the action `Rest` lets the companion stop only when nothing
is under way.  In `parts` and in the endpoint of `sip_live` a bounded part ends
when its bound is used up or it is closed, so these runs do not check it; their
properties say what must not be left behind.

| Run | Instance | Shows |
| --- | --- | --- |
| `sip_calls` | the first state chooses: 2 inbound dialogs, one caller at a time, CANCELs; or 1 inbound and 1 outbound dialog, 2 callers at once, CANCELs, BYEs, failing 180s, 1 sink panic.  2 entrypoints without a doorbell, bus rings | `TypeOK`, `OneLine`, `Converged`, `OneFinalResponse`, `NoOrphanedCall`, `ImplementsLine` |
| `sip_live` | calls: 1 inbound and 1 outbound dialog, 1 caller, 1 sink panic; endpoint: 2 inbound requests, 2 Flexisip restarts, 1 refused registration; fairness | `RingEnds`, `QueueDrains`, `InviteConcluded`; `RegistrationRestored`, `CloseEnds` |
| `parts` | every other part, see below | 20 properties, see below |
| `sip_crossing` | 2 inbound dialogs, 1 outbound, 1 caller | `EndsOnlyItsCall` is violated |
| `sip_bye_before_promotion` | 1 inbound dialog, 1 caller | `NoDeadCall` is violated |
| `sip_answer_fails` | 1 inbound dialog, 1 caller, no BYE | `InviteAnswered` is violated |
| `stream` | the first state chooses: 1 call and 1 consumer with timeouts against BYEs, failures and stalls, against stalls and bus frames, or against failures and API hangups; or 2 consumers with microphones, and hangups or timeouts; fairness | `TypeOK`, `ClosedForGood`, `AnsweredIsPromoted`, `NoStaleTalker`, `EveryoneTold`, `EndsOnlyItsOwnDialog`, `ImplementsShare`; `JoinersWake`, `LastOutEnds` |
| `stream_sole_owner` | 1 call, 1 consumer, API hangups | `SoleOwner` is violated |
| `stream_preview_shown` | 1 consumer, source failures | `PreviewShown` is violated |
| `stream_hangup_tells` | 1 call, 1 consumer, bus frames, API hangups | `EndCallReachesAll` is violated |
| `stream_late_end` | 2 calls, 1 consumer, nothing else happens | `StopsRingThatIsOver` is violated |
| `stream_hangup_ends_call` | 1 call, 1 consumer, API hangups | `OnlyReleaseEndsTheCall` is violated |

`sip_live` and `parts` each check several parts that are not composed: the first
state chooses one and only that part moves, so that the state spaces add up
instead of multiplying.  `PartsTypes` is the type invariant of the part that runs.

| Part | Instance | Property: what it says |
| --- | --- | --- |
| projector | 2 entrypoints, 2 dialogs, 2 streams, every event in every state | `OneCall`; `NoPhantomRing`: hanging up never falls back to a ring nobody rang since the answer |
| mapper | 2 ring frames, one with two addresses; windows of 1, 2 and 3 ticks | `AnnouncedRingStays`: left-over stop frames never clear a ring that was announced |
| ring holder | 4 generations, 2 undelivered events | `NothingForgotten`: every lease and clip opened is held, being left, or in the hands of its goroutine; nothing is held once nothing rings |
| bus observers | 2 video requests, 2 calls on the bus, 3 channels | `NextStreamReachesWaiters`: a waiter is always on the channel the next stream closes, and none is closed twice |
| bus control | 1 caller, a budget of 3 ticks | `PressFitsBudget`: a door is left pressed only if the caller left, the intercom refused, or it was slow |
| accounts | 2 requests, 2 owners, 2 tokens, 1 update in doubt, process deaths and power losses anywhere | `AckedSurvives`: memory, disk and what a power loss leaves are the last acknowledged configuration or a later one in doubt; `OwnerKept`: only a signed-in owner replaces the owner |
| fan-out | 2 consumers, 4 packets, a limit of 3 | `WholePicture`: a consumer's packets have no gap, no overlap, and begin at a key frame when replayed |
| WebRTC | 1 session id, 2 offers, 1 candidate | `LeaseFollowsItsSession`, `NoCandidateStranded` |
| RTSP | 2 sessions, 2 entrypoints, 3 leases | `StreamHasReader` |
| snapshots | 2 captures, 2 decoders | `FileEndsNewest`: the file ends with the newest picture whatever order the writers get the lock in |
| ring clips | 2 clips, timestamps modulo 8, 4 access units, a crash | `SavedClipPlays`: a file starts with a key frame, is ordered across a wrap, has one format |
| audio bridge | 3 restarts | `EveryPipelineOwned`: no child runs that nobody will reap |
| HomeKit | 2 camera sessions, 3 unlocks | `CameraLeaseReleased`, `LockFollowsLastUnlock` |
| hub | 2 appliers, 1 client, 3 revisions | `NewestStateReached`: once the appliers are done, everybody was given the newest state, and was given it last unless another applier or the client's own first state crossed it |
| signalling | 2 sockets, 2 session ids | `SessionHasSocket`: a session always has a socket that will close it |

Bounds of `parts`.  Each instance holds the smallest number of actors that can
meet (an old and a new session, generation, clip or timer; a writer and a late
writer), and one more of what they compete for where a third step matters:
leases, channels, revisions, unlocks.  Two requests meet in every pair of account
handlers.  `MaxGeneration`, `MaxOffers`, `MaxClips`, `MaxCaptures`,
`MaxCameraSessions`, `MaxUnlocks`, `MaxRevisions`, `MaxLeases`, `MaxChannels`,
`MaxPackets`, `MaxOwners`, `MaxTokens` and `MaxDoubts` are the named bounds.

Bounds.  Two dialogs are what the one-slot manager can confuse; a third only
repeats the second.  Two callers meet at every pair of locks (two Answers, an
Answer and a Hangup).  Every dialog calls once and every preview is dialled once,
which bounds the runs without a counter; `MaxPanics` bounds the sink's panics.
Two calls meet in the first instance of `sip_calls`, two callers at once, BYEs and a
dial in the second; together they are out of TLC's reach, and the theorems of section
4 need no such split.  An operation that ends another call than its own is a finding,
and `NoOrphanedCall` and `InviteConcluded` exclude it explicitly through `misdirected`.

In `StreamCoordinator` a consumer acquires once and a call rings once, which
bounds the runs: every lease is new, and what one lease leaves behind for the
next (a source, a callback, a late event) needs two consumers or two calls.  One
consumer already meets its own teardown from every other goroutine, so three
instances of `stream` let everything happen to one, split by where it comes from;
two consumers meet at the fan-out, the startup and the uplink, which need no call, so
the other two instances have none and lose the stream to an API hangup or to a
timeout.  BYEs and failures with two consumers make the graph too large for the
liveness properties; what the run checks besides those is proved whatever happens
(section 4).  A consumer beyond the second would only be one more member of the same
set.

Fairness (`sip_live`).  Goroutines run, timers fire, a dial and a response end
(each has a deadline in the code).  Steps that wait for `Manager.mu` get strong
fairness, because `sync.Mutex` hands the lock to a waiter that starves, while
`StartStream` may take it again and again.  Nothing is assumed of the far end,
the bus or the users.  The endpoint adds weak fairness for the registration loop,
its timers, `Close`, the handlers it waits for, and the firmware that starts
Flexisip again; a dial, a restart of Flexisip and `Close` come when they please.

Fairness (`stream`).  Weak fairness for every goroutine of the companion:
acquires, teardowns, source startups, promotions (each with a
deadline in the code), the drain and `EndCall`.  Consumers, calls, frames and
timeouts come as they please, or never: a joiner must wake although its own
budget never runs out.

### What the violations show

* **A CANCEL can clear another call.**  `endPendingIncoming` claims dialog d1,
  then `Manager.EndIncoming` clears whatever is pending.  A `Hangup` that takes
  d1 out of its slot and closes it on the bus waits up to two seconds for exactly
  this CANCEL; a second INVITE can take the slot meanwhile and is then cleared,
  its dialog neither answered nor refused.  The run's shortest trace has a
  `Decline` in place of the `Hangup`.  `RemoteDialogEnded` in `onInboundBye` has
  the same shape: it clears whatever dialog is active, and the property covers
  it; the comment there admits the window for the second, asynchronous
  notification only.
* **A BYE between the 200 OK and the promotion leaves a dead call active.**
* **A 200 OK that fails is the end of all responses.**  `Respond` claims the dialog
  and then writes.  When the write fails, `Answer` returns the error and the call
  rings on, but the claim stays: a second answer, a decline and the expiry's 480 are
  all refused, and the caller gets no final response.  `InviteConcluded` exempts this
  case by the session it leaves (`unsent`).
* **A source can start with no lease.**  The factory runs outside the lock.  A
  stop that comes meanwhile marks the lease stopping and takes no source;
  `attachSource` then stores one, `finishStop` frees the lease without looking
  at it, and `startSource` starts it.  Only a start whose source was taken by a
  teardown is safe, which is what `ClosedForGood` says.
* **A preview can be shown that nobody holds.**  `finishStart` and `finishStop`
  call the observer after the unlock, so the start can be applied after the stop.
* **A hangup can tell nobody.**  The bus frames that the BYE causes stop the
  stream before `EndCall` does, with a cause that is silent on an answered call.
* **A late end event stops the preview of the next call.**  `StopRinging` is driven
  by the manager's event queue and takes no call.  A call ends, the next one rings
  and its preview is acquired before the drain has delivered the end of the first:
  the preview that is stopped is the one whose call still rings.  The comment on
  `EndCall` warns of exactly this of a bare "stop what is current".

* **A hangup can end the call after the one it hung up.**  The API's hangup of a
  dialled preview drops the dialog in the manager at once and stops its stream later.
  `ownsDialog` outlives the dialog, so if a call rings and is answered in between, the
  preview's `Close` sends its BYE to that call.  `EndsOnlyItsOwnDialog` says that a
  dialog dropped behind its source's back (`robbed`) is the only way this happens.

Five behaviours of the model have no run of their own:

* `PromoteRinging` takes no call either: a late answer event promotes the preview
  of a call that rings since.
* The second way to rob a source needs no hangup but two consumers: a source whose
  start goroutine runs only after its startup budget and its teardown are over borrows
  the answered call, a BYE marks it `remoteEnded`, a second source dials meanwhile,
  and the late one's cleanup calls `RemoteDialogEnded`, which drops the dialog of the
  second.
* A BYE in the last instant of a startup finds the session starting and sets
  `remoteEnded`; the session starts all the same, and its `Close` then tells
  nobody, so the manager keeps a dialog that is gone.
* An RTSP stream that was lost tells the server nothing.  A reader that plays then
  acquires a second lease, and the readers of the dead one keep counting: the last
  reader of the live stream may leave without releasing it (`mixed`).
* Two appliers that overlap may write in the other order than they read, and a
  socket's first state may be written after a newer broadcast.  HomeKit or the client
  is then left with the older state until the next event, where
  `src/docs/architecture.md:187` says "then HomeKit is synced and every API WebSocket
  client gets the new state".  `NewestStateReached` says who is exempt (`crossed`,
  `late`) and that even they were given the newest.

## 4. Proofs

Every theorem holds for every value of the constants that satisfies the modules'
assumptions: any number of dialogs, callers, consumers, sessions, observers,
accounts, any buffer size, any set of things that can happen.  All are proofs by
an inductive invariant, one step per action, with lemmas for what several
actions do alike.

**Projector** (`CoreStateProofs`, `ClientProofs`).  `Effect` and `Apply` keep a
state a state, and each event touches the fields its type says.  From that, for
any event order, `ProjectorInvariant` (`TypeOK`, `OneCall`,
`EndShownOnlyAfterTheCall`) and `ProjectorNoPhantomRing`.  The inductive
invariant adds to the three that a ring shown next to an answered call at the
same entrypoint was started after the answer.

**Call manager and dialer** (`SipManagerProofs`).

* `SipTypeCorrect`, `SipOneLine`, `SipConverged`, `SipNeverRefused`.  `Converged`
  says nothing while the queue is not empty, so it is not inductive.  The
  strengthening `SipInv` makes the queue a chain of views: every event fits the
  view (ringing dialog, answered dialog) that the event before it leads to, the
  first one fits the projector's view and the last one leads to the manager's.  A
  critical section that commits an event makes the chain longer at one end
  (`ChainGrows`), the drain shortens it at the other (`ChainTaken`,
  `ChainDelivered`), and everything else leaves it alone (`ChainStable`).
  `FitsAccepted` is where the manager meets the projector: an event that fits a
  view is one `apply` accepts.
* `SipOneFinalResponse`.  The number of final responses says nothing of who may
  send the next one.  `AnswerInv` adds, per dialog, that nothing final is sent
  before the dialog is claimed, and, per caller, that one who is about to write a
  200 OK has claimed the dialog, that nothing is written on it yet and that no
  other caller is about to: claim and response are two steps, and a CANCEL, a
  timeout or another caller may come between them.
* `SipNoOrphanedCall`.  A dialog that is up at the far end has someone who will
  end it: the manager, or a caller that will promote it or send its BYE, unless an
  operation hit another call than its own (the runs on `misdirected`).  Inductive with `SipInv` and
  `FarEndInv`: a BYE that was received ended the session first.  The cases that
  matter are the ones that take a dialog from its holder while another step on it
  is under way (`HoldersStay`, `OthersHold`, `RemoteKeeps`).

**Refinement of the line** (`SipManagerProofs`).  `SipImplementsLine`, the refinement of
`CallLine`, by simulation.  An initial state maps to `CallInit`; then, one step
per action, `SipInv` and the action give a step of `CallLine` or leave its three
variables alone.  An action that commits appends one event to the mapped queue
whatever the drain is doing (`pending` may be growing while an event is in hand),
and `Deliver` takes the first one.  `SipInv` is needed for two facts: an answered
dialog is an inbound one and no other call rings beside it, and the queue is a
sequence of call events, so that `Tail` of the mapped queue is the mapped queue
without the event in hand.

**Stream coordinator** (`StreamProofs`).  `StreamIsShared`: `TypeOK`,
`NoStaleTalker`, `NobodyLeftBehind`, `EveryoneTold`, `ClosedForGood` and
`AnsweredIsPromoted`, for any consumers and whatever happens to them (`Happens`).
None is inductive alone: each needs to know how far the others are.  `StreamInv`
says where every actor stands relative to the one lease:

* `FieldsAgree`: `stopping` only while the teardown of that lease is on its way to
  `finishStop`;
* `AgentsNameLease`: the event drain and the API's hangup stop a lease they read;
* `ConsumerFits`, per consumer: who reserved the lease has it (`OwnsLease`,
  `HasLease`), nobody joins before the stream is up (`JoinsLate`), a fan-out is
  open until its lease exists (`OpenBefore`), the last one out leaves an empty
  closed one (`LeavesClosed`), the talker is a consumer of this lease or about to
  free the talk (`TalksOnStream`), and a preview of an answered call has yet to
  look at the call again, has seen the answer or was told (`HearsAnswer`);
* `TeardownFits`, per lease: the fan-out is closed before the teardown begins
  (`ClosesFirst`), and the source's pipelines are shut before it is waited for
  (`ShutsSource`).

The two are predicates of a consumer's or a teardown's record and the fields it
depends on, so one lemma per kind of change serves all bystanders
(`BystanderFits`, `TeardownKeeps`) and one per operation that several actions share
(`BeginStopKeeps`, `StopKeeps`, `ResetKeeps`).

**What the coordinator promises** (`StreamShareProofs`).  `StreamImplementsShare`,
the refinement of `SharedStream`, by simulation, for any consumers, any calls and
whatever happens.  `StreamInv` does not say who is on which stream: `LifeInv` adds
that a lease somebody has was reserved (`LeasesReserved`), and per consumer that the
fan-out of a lease that is over is closed (`LeaseOver`), that its own stream is
starting until its startup is over (`StillStarts`), that it is on the stream of its
lease and no other, and on another's only once that is up (`OnItsStream`), and that
fan-outs are closed and sources made only for reserved leases (`MadeForLease`).
Under both, each action is one abstract step or none: `Reserve` reserves; adding
oneself and `JoinAdds` enter; `FinishStart` goes live; a leave leaves and, by the last one
out, ends in the same step (why the fan-out's closing and not `stopping` defines the
end); every way to begin a stop ends (`StopShares`); `finishStop` frees
(`ResetShares`); an abort without a source aborts; and telling the members lets
them hear (`TellShares`).  A stop of a stream whose fan-out is closed already is no
step at all, which is where `StreamInv` is needed.

`StreamEndsOnlyItsOwnDialog` is `EndsOnlyItsOwnDialog`, for any consumers, any calls
and whatever happens, shared streams and API hangups included.  `DialInv` is what it
needs: a source that owns its dialog, is in the call and got no BYE is the one whose
dialog the manager holds, unless it was robbed of it (`DialFits`); and the manager
holds no dialled preview beside a call (`LineFree`), so what such a source hangs up
is its preview and not the answered call.

**Bus** (`BusProofs`).

| Theorem | Property | What the invariant adds |
|---|---|---|
| `MapperCorrect`, `AnnouncedRingKept` | `AnnouncedRingStays` | `BurstCovered`: how long ago the last stop frame of a burst was, and that the window in which stops are ignored lasts as long as the burst |
| `WaitersReached` | `NextStreamReachesWaiters` | that no channel later than the current one is closed (`ObserverInv`); the property itself is nearly inductive |
| `PressFitsDeadline` | `PressFitsBudget` | what is left of the deadline against what the press still needs, step by step (`PressFits`) |
| `HolderForgetsNothing` | `NothingForgotten` | `GoroutinesAgree`: only the newest ring's goroutine can store a lease, and what the drain took is nobody else's; `EndOfRingDelivered`: what is still queued ends the ring if the line does not ring |

**Media** (`MediaProofs`).

| Theorem | Property | What the invariant adds |
|---|---|---|
| `FanoutKeepsPictures` | `WholePicture` | `CacheFollows`: the cache is the end of the stream from its last key frame on; `ConsumersFollow`: what a consumer has ends at the newest packet, or just before it while that one is being delivered |
| `WebRTCSessionsKeep` | `LeaseFollowsItsSession`, `NoCandidateStranded` | `SessionFits`: the close that marks a session takes its lease; `Placed`, `Registered`: a session not removed is the one under its id; `ServiceStops`: offers end before sessions do |
| `RtspStreamRead` | `StreamHasReader` | `SessionsApart`: a session that is starting has no reader and a closed one starts nothing; `OneLease` |
| `SnapshotFilesNewest` | `FileEndsNewest` | `PicturesOnTheWay`: a published picture is in its file or on its way; `WriterInOrder`: a writer with an older one has a writer after it |
| `BridgeOwnsPipelines` | `EveryPipelineOwned` | `HandsHold`, `HandsInOrder`: who has a pipeline in hand at each step of Start, restart and stop; `AttemptsTo`: numbered attempts bounded by the restarts |
| `SavedClipsPlay` | `SavedClipPlays` | `SamplesFit`, `ClipFits`: what holds of the samples from the first packet to the file |

**Clients** (`ClientProofs`).

| Theorem | Property | What the invariant adds |
|---|---|---|
| `HomeKitKeepsItsWord` | `CameraLeaseReleased`, `LockFollowsLastUnlock` | `StartsOnce`, `LeasesAccounted`: the coordinator holds a lease for a session that has it or is about to look; `CurrentTimer`: one timer runs, the current one |
| `ClientsServed` | `NewestStateReached`, `SessionHasSocket` | `HomeKitTold`, `ClientTold`: who has an old state has somebody on the way with the newest; `ShownInv`, a second layer over them: with nothing crossing, what anybody has in hand is the newest, and who shows an older one has somebody on the way; `CardsHeld`: an open session is held by a socket or by an offer under way |
| `SavedUpdateSurvives`, `OwnerIsKept` | `AckedSurvives`, `OwnerKept` | `OwnedIsSetUp`: no configuration loaded, on the disk or able to come back has an owner and waits for setup; `SavesAfterSetup` |

Each theorem of the three tables includes the type of its module.

**The parts side by side** (`PartsProofs`).  `PartsStayTyped` is `PartsTypes`, the type
invariant of the run `parts`: its initial states are initial states of every part,
and each of its steps is a step of one part that leaves the others' variables alone,
so the inductive invariants of the three tables carry over.

**Assumptions.**  The modules' and no others: absent values (`None`,
`NoBusCall`, `NoCard`, ...) are no identifiers; counters and limits are natural
numbers, positive where the code's constant is and the model needs one
(`RevisionLimit`, `Budget`, `MaxChannels`, `MaxDecoders`, `MaxTokens`); outbound and
inbound dialogs differ; the doorbell is an entrypoint or none; every consumer is a
stream with an entrypoint; the environment's parameters are of their types; and
two that carry content: `MapperAssumption` bounds the burst by the stop window
(section 2), and `ClipAssumption` says that a unit with a key frame is not empty
(`ringclip.go:397-399`) and that a clip is shorter than half the timestamps' range.

**What the proofs changed.**

* The mapper's assumption used to be `BurstGap <= StopBurstBeforeRing`.  The proof
  did not go through and TLC found the counterexample with `BurstGap = 2`: the ring
  that follows a burst may come a gap after its last frame, and the frames after
  the ring a tail later, so it is their sum that has to fit the window.
* `ResolveEntrypoint`, `Remember` and `AddUnit` were `CASE`s with guards that
  overlap.  TLC takes the first that holds, TLA+ does not say which; the code's
  returns are ordered, and so are the `IF`s that replace them.
* `None` is no cause of a teardown, `SessionIds` and `ClipEntrypoints` are not empty
  and the mapper's doorbell is typed: true of every instance before, written down
  since.

**Only model-checked.**  Liveness (`RingEnds`, `QueueDrains`, `InviteConcluded`,
`RegistrationRestored`, `CloseEnds`, `JoinersWake`, `LastOutEnds`), which is out of the
prover's reach.  Every other property a passing run checks is stated by a theorem.

`NeverRefused`, `EndShownOnlyAfterTheCall` and `NobodyLeftBehind` are proved and no
longer checked by a run: the proofs cover every instance.

## 5. Plan

Done: the projector, the manager with the dialer, `CallLine` and its refinement,
the stream coordinator, `SharedStream` and its refinement, the parts around them, and
a theorem for every safety property a passing run checks.  From here:

1. `SourceSession` in detail: receivers, the AV request sequence of
   `openwebnet/av.go`, `Answered`.  A BYE in the last instant of a startup should
   not leave the manager with a dead dialog.
2. Ringer synchronisation: an unmute is followed by a reload of the firmware or by
   a mute.

## 6. Not modelled

* The AV request sequence, the receivers, the distributor and the backchannel:
  packet copying and retries inside one start of a source, which is one step here.
* The listener's reconnects and the parser: frames that are lost never reach the
  mapper, which is a behaviour of the model already.
* SIP keepalive: one timer that sends a fixed packet until its context ends.
* SDP, HomeKit's accessory server and its pairing files, mDNS, HTML pages,
  diagnostics, logging: text and I/O with no state worth a model.
* The updater: it unpacks a release beside the running one and asks for a restart;
  the switch is made by the init scripts, which are shell.
* The installation scripts.
