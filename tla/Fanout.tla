------------------------------- MODULE Fanout -------------------------------
(***************************************************************************)
(* media.fanout: the key-frame cache of a shared stream and what a         *)
(* consumer that joins it is sent.  A packet is its number in the stream,  *)
(* the time stamp of its picture, whether it starts a key frame, and its   *)
(* size; the H.264 payload is abstracted to what startsKeyframe tells      *)
(* apart.  deliveryMu is held from remember to the last delivery.          *)
(***************************************************************************)
EXTENDS Integers, Sequences

CONSTANTS
    Watchers,       \* consumers that may join
    MaxPackets,     \* bound on the packets of the stream
    CacheLimit,     \* keyframeCacheLimit
    KeyPackets      \* the packets of one key frame: SPS, PPS and slices

\* The key frame of a low-resolution intercom stays far below the limit.
ASSUME FanoutAssumption ==
    /\ MaxPackets \in Nat
    /\ CacheLimit \in Nat /\ KeyPackets \in 1 .. CacheLimit

VARIABLES
    sent,       \* the packets of the stream so far
    cache,      \* the cached packets
    cacheBytes,
    watching,   \* the consumers on the list
    closed,     \* close, or the last consumer left
    delivering, \* the consumers the packet in hand has still to reach
    received,   \* history: consumer -> the packets it got since its last replay
    gop         \* history: the first packet of the last key frame, 0 for none

fanoutVars == <<sent, cache, cacheBytes, watching, closed, delivering, received, gop>>

Packet == [n : 1 .. MaxPackets, time : 1 .. MaxPackets, key : BOOLEAN, size : 1 .. 2]
Numbers(ps) == [i \in DOMAIN ps |-> ps[i].n]

FanoutType ==
    /\ sent \in Seq(Packet) /\ Len(sent) <= MaxPackets
    /\ cache \in Seq(Packet) /\ cacheBytes \in 0 .. CacheLimit
    /\ watching \subseteq Watchers /\ delivering \subseteq Watchers
    /\ closed \in BOOLEAN
    /\ received \in [Watchers -> Seq(1 .. MaxPackets)]
    /\ gop \in 0 .. MaxPackets

FanoutInit ==
    /\ sent = <<>> /\ cache = <<>> /\ cacheBytes = 0
    /\ watching = {} /\ closed = FALSE /\ delivering = {}
    /\ received = [w \in Watchers |-> <<>>]
    /\ gop = 0

(***************************************************************************)
(* remember.                                                               *)
(***************************************************************************)

\* MUTANT of Restarts: any key-frame start restarts the cache, also one inside
\* the key frame it holds.
Restarts_Always(p) == p.key

\* A key-frame start of the picture at the head of the cache continues it.
Restarts(p) == p.key /\ (cache = <<>> \/ cache[1].time # p.time)

Remember(p) ==
    LET kept == IF Restarts(p) THEN <<>> ELSE cache
        bytes == IF Restarts(p) THEN 0 ELSE cacheBytes
    IN  IF kept = <<>> /\ ~p.key
          THEN cache' = kept /\ cacheBytes' = bytes
          ELSE IF bytes + p.size > CacheLimit
                 THEN cache' = <<>> /\ cacheBytes' = 0
                 ELSE cache' = Append(kept, p) /\ cacheBytes' = bytes + p.size

\* The stream the intercom sends: a key frame is up to KeyPackets small packets
\* of one time stamp, the first of them a key-frame start; any other picture is
\* one packet.
NextPackets ==
    LET n == Len(sent) + 1
    IN  [n : {n}, time : {n}, key : {TRUE}, size : {1}]
        \cup [n : {n}, time : {n}, key : {FALSE}, size : 1 .. 2]
        \cup IF gop # 0 /\ sent[n - 1].time = sent[gop].time /\ n - gop < KeyPackets
             THEN [n : {n}, time : {sent[gop].time}, key : BOOLEAN, size : {1}]
             ELSE {}

\* video: the cache, then every consumer of the list as it is now.
Video(p) ==
    /\ delivering = {} /\ Len(sent) < MaxPackets
    /\ sent' = Append(sent, p)
    /\ gop' = IF p.key /\ p.time = p.n THEN p.n ELSE gop
    /\ Remember(p)
    /\ delivering' = watching
    /\ UNCHANGED <<watching, closed, received>>

Deliver(w) ==
    /\ w \in delivering
    /\ delivering' = delivering \ {w}
    /\ received' = [received EXCEPT ![w] = Append(@, Len(sent))]
    /\ UNCHANGED <<sent, cache, cacheBytes, watching, closed, gop>>

(***************************************************************************)
(* add, replay, remove, close.                                             *)
(***************************************************************************)

\* deliveryMu: a join waits for the packet in hand to reach everyone.
Undisturbed == delivering = {}

Add(w) ==
    /\ w \notin watching /\ ~closed /\ Undisturbed
    /\ watching' = watching \cup {w}
    /\ received' = [received EXCEPT ![w] = Numbers(cache)]
    /\ UNCHANGED <<sent, cache, cacheBytes, closed, delivering, gop>>

\* ReplayKeyframe, once the peer connection is up: what was written before it
\* is lost.
Replay(w) ==
    /\ w \in watching /\ Undisturbed
    /\ received' = [received EXCEPT ![w] = Numbers(cache)]
    /\ UNCHANGED <<sent, cache, cacheBytes, watching, closed, delivering, gop>>

\* remove takes only listMu: the packet in hand still reaches the consumer.
Remove(w) ==
    /\ w \in watching
    /\ watching' = watching \ {w}
    /\ closed' = (closed \/ watching' = {})
    /\ UNCHANGED <<sent, cache, cacheBytes, delivering, received, gop>>

CloseFanout ==
    /\ ~closed
    /\ closed' = TRUE
    /\ UNCHANGED <<sent, cache, cacheBytes, watching, delivering, received, gop>>

FanoutNext ==
    \/ \E p \in NextPackets : Video(p)
    \/ \E w \in Watchers : Deliver(w) \/ Add(w) \/ Replay(w) \/ Remove(w)
    \/ CloseFanout

FanoutSpec == FanoutInit /\ [][FanoutNext]_fanoutVars

(***************************************************************************)
(* Property.                                                               *)
(***************************************************************************)

\* What a consumer on the stream was sent has no gap and no overlap and ends at
\* the newest packet, and a replay begins at the first packet of the last key
\* frame, so that the decoder has a whole picture to start from: the promise in
\* fanout's comment, across remember, add, replay and the live packets.
WholePicture ==
    /\ \A w \in watching \ delivering :
           \A i \in DOMAIN received[w] :
               received[w][i] = Len(sent) - Len(received[w]) + i
    /\ cache # <<>> => cache[1].n = gop /\ Len(cache) = Len(sent) - gop + 1

=============================================================================
