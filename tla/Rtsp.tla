-------------------------------- MODULE Rtsp --------------------------------
(***************************************************************************)
(* media.RTSPServer: the readers of the RTSP server and the stream lease   *)
(* they share.  The coordinator behind Acquire and Release is the one of   *)
(* module StreamCoordinator, abstracted here to its one slot: Acquire asks *)
(* for an exclusive stream, and a stream lost to a BYE or a failure frees  *)
(* the slot without a word to the server, which subscribes to media only.  *)
(***************************************************************************)
EXTENDS Integers, FiniteSets

CONSTANTS
    Sessions,           \* RTSP sessions
    RtspEntrypoints,    \* entrypoints with the stream capability
    MaxLeases           \* bound on the leases handed out

ASSUME RtspAssumption == MaxLeases \in Nat

VARIABLES
    readers,    \* session -> [ep, lease], NoReader outside the map
    starting,   \* the sessions in s.starting
    plays,      \* session -> its OnPlay that waits for Acquire
    gone,       \* sessions that were closed
    slot,       \* the coordinator's lease, 0 for none
    leasesMade, \* leases handed out so far
    mixed       \* history: readers held two leases at once

rtspVars == <<readers, starting, plays, gone, slot, leasesMade, mixed>>

NoReader == [ep |-> "none", lease |-> 0]
NoPlay == [at |-> "none", ep |-> "none", lease |-> 0]

Held == {s \in Sessions : readers[s] # NoReader}

RtspType ==
    /\ readers \in [Sessions ->
           [ep : RtspEntrypoints \cup {"none"}, lease : 0 .. MaxLeases]]
    /\ starting \subseteq Sessions /\ gone \subseteq Sessions
    /\ plays \in [Sessions ->
           [at : {"none", "asks", "starts", "failed", "has"},
            ep : RtspEntrypoints \cup {"none"}, lease : 0 .. MaxLeases]]
    /\ slot \in 0 .. MaxLeases /\ leasesMade \in 0 .. MaxLeases
    /\ mixed \in BOOLEAN

RtspInit ==
    /\ readers = [s \in Sessions |-> NoReader]
    /\ starting = {} /\ gone = {}
    /\ plays = [s \in Sessions |-> NoPlay]
    /\ slot = 0 /\ leasesMade = 0 /\ mixed = FALSE

\* s.readers after a step, and whether it now mixes leases.
Reads(rs) ==
    /\ readers' = rs
    /\ mixed' = \/ mixed
                \/ \E s, t \in Sessions : /\ NoReader \notin {rs[s], rs[t]}
                                          /\ rs[s].lease # rs[t].lease

(***************************************************************************)
(* OnPlay.                                                                 *)
(***************************************************************************)

SameEntrypoint(e) == {r \in Held : readers[r].ep = e}

\* A second reader of an entrypoint shares the lease of one that is there; the
\* map is walked in any order.  A reader that plays again changes nothing.
JoinReader(s, e) ==
    /\ s \notin gone /\ plays[s] = NoPlay /\ readers[s] = NoReader
    /\ \E r \in SameEntrypoint(e) : Reads([readers EXCEPT ![s] = readers[r]])
    /\ UNCHANGED <<starting, plays, gone, slot, leasesMade>>

StartReader(s, e) ==
    /\ s \notin gone /\ plays[s] = NoPlay /\ readers[s] = NoReader
    /\ SameEntrypoint(e) = {} /\ s \notin starting
    /\ starting' = starting \cup {s}
    /\ plays' = [plays EXCEPT ![s] = [at |-> "asks", ep |-> e, lease |-> 0]]
    /\ UNCHANGED <<readers, gone, slot, leasesMade, mixed>>

\* Acquire reserves the slot, or is refused: busy, ringing, or another stream.
Acquires(s) ==
    /\ plays[s].at = "asks"
    /\ \/ /\ slot = 0 /\ leasesMade < MaxLeases
          /\ leasesMade' = leasesMade + 1 /\ slot' = leasesMade + 1
          /\ plays' = [plays EXCEPT ![s].at = "starts", ![s].lease = leasesMade + 1]
       \/ /\ plays' = [plays EXCEPT ![s].at = "failed"]
          /\ UNCHANGED <<slot, leasesMade>>
    /\ UNCHANGED <<readers, starting, gone, mixed>>

\* The source's start ends one way or the other; a failed one frees the slot.
Starts(s) ==
    /\ plays[s].at = "starts"
    /\ \/ /\ slot = plays[s].lease
          /\ plays' = [plays EXCEPT ![s].at = "has"]
          /\ UNCHANGED slot
       \/ /\ plays' = [plays EXCEPT ![s].at = "failed", ![s].lease = 0]
          /\ slot' = IF slot = plays[s].lease THEN 0 ELSE slot
    /\ UNCHANGED <<readers, starting, gone, leasesMade, mixed>>

\* Release is a no-op for a lease that is not the coordinator's any more.
SlotWithout(l) == IF slot = l THEN 0 ELSE slot

\* MUTANT of StillStarting: the answer is installed although the session closed.
StillStarting_Always(s) == TRUE

\* _, active := s.starting[ctx.Session], read after Acquire returned.
StillStarting(s) == s \in starting

\* The rest of OnPlay: the reader is installed, or the lease given back.
PlayReturns(s) ==
    /\ plays[s].at \in {"failed", "has"}
    /\ starting' = starting \ {s}
    /\ plays' = [plays EXCEPT ![s] = NoPlay]
    /\ CASE plays[s].at = "failed" -> UNCHANGED <<readers, slot, mixed>>
         [] plays[s].at = "has" /\ StillStarting(s) ->
              /\ Reads([readers EXCEPT ![s] = [ep |-> plays[s].ep, lease |-> plays[s].lease]])
              /\ UNCHANGED slot
         [] OTHER -> slot' = SlotWithout(plays[s].lease) /\ UNCHANGED <<readers, mixed>>
    /\ UNCHANGED <<gone, leasesMade>>

(***************************************************************************)
(* OnSessionClose, Close, and the stream behind the server.                *)
(***************************************************************************)

\* len(s.readers) == 0 once the session is deleted.
LastReader(s) == Held = {s}

SessionCloses(s) ==
    /\ s \notin gone
    /\ gone' = gone \cup {s}
    /\ starting' = starting \ {s}
    /\ Reads([readers EXCEPT ![s] = NoReader])
    /\ slot' = IF readers[s] # NoReader /\ LastReader(s)
               THEN SlotWithout(readers[s].lease) ELSE slot
    /\ UNCHANGED <<plays, leasesMade>>

\* Close: the maps are emptied and every reader's lease is released.
CloseServer ==
    /\ Held \cup starting # {}
    /\ Reads([s \in Sessions |-> NoReader])
    /\ starting' = {}
    /\ slot' = IF slot \in {readers[s].lease : s \in Held} THEN 0 ELSE slot
    /\ UNCHANGED <<plays, gone, leasesMade>>

\* A remote BYE, a dead bridge or the coordinator's watch ends the stream.
StreamIsLost ==
    /\ slot # 0
    /\ slot' = 0
    /\ UNCHANGED <<readers, starting, plays, gone, leasesMade, mixed>>

RtspNext ==
    \/ \E s \in Sessions :
        \/ \E e \in RtspEntrypoints : JoinReader(s, e) \/ StartReader(s, e)
        \/ Acquires(s) \/ Starts(s) \/ PlayReturns(s) \/ SessionCloses(s)
    \/ CloseServer
    \/ StreamIsLost

RtspSpec == RtspInit /\ [][RtspNext]_rtspVars

(***************************************************************************)
(* Properties.                                                             *)
(***************************************************************************)

\* A live stream is held by the reader of an open session or by an OnPlay that will install or
\* release it, so the intercom is never left streaming to nobody, for as long
\* as the readers hold one lease between them: OnSessionClose releases the
\* lease of the last reader only.
StreamHasReader ==
    ~mixed /\ slot # 0 =>
        \/ \E s \in Held \ gone : readers[s].lease = slot
        \/ \E s \in Sessions : plays[s].at \in {"starts", "has"} /\ plays[s].lease = slot
=============================================================================
