---------------------------- MODULE MediaProofs ----------------------------
(***************************************************************************)
(* What consumes the intercom's stream, for every number of consumers,     *)
(* packets, sessions and attempts: the fan-out, the WebRTC sessions, the   *)
(* RTSP readers, the snapshots, the ring clips and the audio bridge.       *)
(***************************************************************************)
EXTENDS Fanout, WebRTC, Rtsp, Snapshots, RingClip, AudioBridge, TLAPS

-----------------------------------------------------------------------------
(* The fan-out *)

\* The stream numbers its packets, and no picture is dated after its packet.
StreamNumbered ==
    /\ \A i \in 1 .. Len(sent) : sent[i].n = i /\ sent[i].time <= i
    /\ gop <= Len(sent)
    /\ delivering # {} => Len(sent) > 0

\* The cache is the end of the stream from the last key frame on, and it is not
\* dropped inside that key frame, which fits it.
CacheFollows ==
    /\ \A i \in 1 .. Len(cache) : cache[i].n = Len(sent) - Len(cache) + i
    /\ Len(cache) > 0 => /\ gop > 0 /\ cache[1] = sent[gop]
                         /\ Len(cache) = Len(sent) - gop + 1
    /\ (gop > 0 /\ sent[Len(sent)].time = sent[gop].time) =>
           /\ Len(cache) > 0
           /\ cacheBytes = Len(sent) - gop + 1 /\ cacheBytes <= KeyPackets

\* What a consumer has got ends at the newest packet, or at the one before it
\* while the newest is still to be delivered.
Reaches(w, last) ==
    \A i \in 1 .. Len(received[w]) : received[w][i] = last - Len(received[w]) + i

ConsumersFollow ==
    \A w \in watching :
        Reaches(w, IF w \in delivering THEN Len(sent) - 1 ELSE Len(sent))

FanoutInv == FanoutType /\ StreamNumbered /\ CacheFollows /\ ConsumersFollow

\* The invariant gives the promise of the fan-out.
LEMMA FanoutPromise == FanoutInv => WholePicture
<1> SUFFICES ASSUME FanoutInv PROVE WholePicture  OBVIOUS
<1>0. /\ sent \in Seq(Packet) /\ cache \in Seq(Packet)
      /\ received \in [Watchers -> Seq(1 .. MaxPackets)] /\ watching \subseteq Watchers
      /\ gop \in Nat
  BY FanoutAssumption DEF FanoutInv, FanoutType
<1>1. ASSUME NEW w \in watching \ delivering, NEW i \in DOMAIN received[w]
      PROVE  received[w][i] = Len(sent) - Len(received[w]) + i
  <2>1. i \in 1 .. Len(received[w])  BY <1>0, <1>1
  <2> QED  BY <2>1 DEF FanoutInv, ConsumersFollow, Reaches
<1>2. ASSUME cache # <<>> PROVE cache[1].n = gop /\ Len(cache) = Len(sent) - gop + 1
  <2>1. Len(cache) > 0  BY <1>0, <1>2
  <2>2. gop > 0 /\ gop <= Len(sent) /\ cache[1] = sent[gop]
    BY <2>1 DEF FanoutInv, CacheFollows, StreamNumbered
  <2>3. sent[gop].n = gop
    BY <1>0, <2>2 DEF FanoutInv, StreamNumbered
  <2> QED  BY <2>1, <2>2, <2>3 DEF FanoutInv, CacheFollows
<1> QED  BY <1>1, <1>2 DEF WholePicture

\* Nothing has been sent at the start.
LEMMA FanoutInitInv == FanoutInit => FanoutInv
<1> SUFFICES ASSUME FanoutInit PROVE FanoutInv  OBVIOUS
<1>1. FanoutType
  <2>1. /\ sent \in Seq(Packet) /\ Len(sent) <= MaxPackets
        /\ cache \in Seq(Packet) /\ cacheBytes \in 0 .. CacheLimit
        /\ gop \in 0 .. MaxPackets
        /\ received \in [Watchers -> Seq(1 .. MaxPackets)]
    BY FanoutAssumption DEF FanoutInit
  <2> QED  BY <2>1 DEF FanoutInit, FanoutType
<1>2. StreamNumbered /\ CacheFollows /\ ConsumersFollow
  BY DEF FanoutInit, StreamNumbered, CacheFollows, ConsumersFollow
<1> QED  BY <1>1, <1>2 DEF FanoutInv

\* What the intercom may send next, by the three kinds of packets.
LEMMA NextPacketKinds ==
    ASSUME FanoutInv, NEW p \in NextPackets, Len(sent) < MaxPackets
    PROVE  /\ p \in Packet /\ p.n = Len(sent) + 1
           /\ \/ p.key /\ p.time = p.n /\ p.size = 1
              \/ ~p.key /\ p.time = p.n
              \/ /\ gop > 0 /\ Len(sent) > 0
                 /\ sent[Len(sent)].time = sent[gop].time
                 /\ p.time = sent[gop].time /\ p.size = 1
                 /\ p.n - gop < KeyPackets
<1> DEFINE n == Len(sent) + 1
<1>0. /\ sent \in Seq(Packet) /\ Len(sent) \in Nat /\ n \in 1 .. MaxPackets
      /\ gop \in 0 .. MaxPackets /\ MaxPackets \in Nat /\ gop <= Len(sent)
  BY FanoutAssumption DEF FanoutInv, FanoutType, StreamNumbered
<1>1. CASE p \in [n : {n}, time : {n}, key : {TRUE}, size : {1}]
  <2>1. p.n = n /\ p.time = n /\ p.size = 1 /\ p.key = TRUE  BY <1>1
  <2>2. ASSUME NEW K, K \subseteq BOOLEAN,
               p \in [n : {n}, time : {n}, key : K, size : {1}]
        PROVE  p \in Packet
    BY <1>0, <2>2 DEF Packet
  <2>3. {TRUE} \subseteq BOOLEAN  BY Zenon
  <2>4. p \in Packet  BY <1>1, <2>2, <2>3
  <2> QED  BY <2>1, <2>4
<1>2. CASE p \in [n : {n}, time : {n}, key : {FALSE}, size : 1 .. 2]
  BY <1>0, <1>2 DEF Packet
<1>3. CASE /\ gop # 0 /\ sent[n - 1].time = sent[gop].time /\ n - gop < KeyPackets
           /\ p \in [n : {n}, time : {sent[gop].time}, key : BOOLEAN, size : {1}]
  <2>1. sent[gop] \in Packet  BY <1>0, <1>3
  <2>2. sent[gop].time \in 1 .. MaxPackets  BY <2>1 DEF Packet
  <2>3. p \in Packet  BY <1>0, <1>3, <2>2 DEF Packet
  <2>4. p.n = n /\ p.time = sent[gop].time /\ p.size = 1  BY <1>3
  <2> QED  BY <1>0, <1>3, <2>3, <2>4
<1> QED  BY <1>1, <1>2, <1>3 DEF NextPackets

\* remember after one packet of the stream: the three ways the cache goes.
LEMMA RememberCases ==
    ASSUME FanoutInv, NEW p \in Packet, Remember(p)
    PROVE  \/ /\ Len(cache) = 0 /\ ~p.key
              /\ cache' = <<>> /\ cacheBytes' = cacheBytes
           \/ /\ cache' = <<>> /\ cacheBytes' = 0
              /\ IF Restarts(p) THEN p.size > CacheLimit
                                ELSE cacheBytes + p.size > CacheLimit
           \/ /\ Restarts(p) /\ cache' = <<p>> /\ cacheBytes' = p.size
              /\ p.size <= CacheLimit
           \/ /\ ~Restarts(p) /\ Len(cache) > 0
              /\ cache' = Append(cache, p) /\ cacheBytes' = cacheBytes + p.size
              /\ cacheBytes + p.size <= CacheLimit
<1>0. /\ cache \in Seq(Packet) /\ cacheBytes \in Nat /\ CacheLimit \in Nat
      /\ p.size \in Nat /\ p.key \in BOOLEAN
  BY FanoutAssumption DEF FanoutInv, FanoutType, Packet
<1>1. CASE Restarts(p)
  <2>1. p.key  BY <1>1 DEF Restarts
  <2>2. CASE p.size > CacheLimit
    BY <1>0, <1>1, <2>1, <2>2 DEF Remember
  <2>3. CASE ~(p.size > CacheLimit)
    <3>1. cache' = Append(<<>>, p) /\ cacheBytes' = 0 + p.size
      BY <1>0, <1>1, <2>1, <2>3 DEF Remember
    <3> QED  BY <1>0, <1>1, <2>3, <3>1
  <2> QED  BY <2>2, <2>3
<1>2. CASE ~Restarts(p)
  <2>1. CASE cache = <<>> /\ ~p.key
    BY <1>0, <1>2, <2>1 DEF Remember
  <2>2. CASE cache = <<>> /\ p.key
    BY <1>2, <2>2 DEF Restarts
  <2>3. CASE cache # <<>>
    <3>1. Len(cache) > 0  BY <1>0, <2>3
    <3>2. CASE cacheBytes + p.size > CacheLimit
      BY <1>2, <2>3, <3>2 DEF Remember
    <3>3. CASE ~(cacheBytes + p.size > CacheLimit)
      BY <1>0, <1>2, <2>3, <3>1, <3>3 DEF Remember
    <3> QED  BY <3>2, <3>3
  <2> QED  BY <2>1, <2>2, <2>3
<1> QED  BY <1>1, <1>2

\* A packet of the stream is remembered before it is delivered: the cache still
\* is the end of the stream from the last key frame on.
LEMMA VideoStep ==
    ASSUME FanoutInv, NEW p \in NextPackets, Video(p)
    PROVE  FanoutInv'
<1> DEFINE n == Len(sent) + 1
<1>0. /\ sent \in Seq(Packet) /\ Len(sent) \in Nat /\ gop \in 0 .. MaxPackets
      /\ cache \in Seq(Packet) /\ Len(cache) \in Nat /\ cacheBytes \in 0 .. CacheLimit
      /\ MaxPackets \in Nat /\ CacheLimit \in Nat /\ KeyPackets \in 1 .. CacheLimit
      /\ Len(sent) < MaxPackets /\ gop <= Len(sent) /\ delivering = {}
  BY FanoutAssumption DEF FanoutInv, FanoutType, StreamNumbered, Video
<1>1. /\ p \in Packet /\ p.n = n
      /\ \/ p.key /\ p.time = p.n /\ p.size = 1
         \/ ~p.key /\ p.time = p.n
         \/ /\ gop > 0 /\ Len(sent) > 0
            /\ sent[Len(sent)].time = sent[gop].time
            /\ p.time = sent[gop].time /\ p.size = 1
            /\ p.n - gop < KeyPackets
  BY <1>0, NextPacketKinds
<1>2. p.size \in Nat /\ p.time \in Nat /\ p.n \in 1 .. MaxPackets /\ p.size >= 1
  BY <1>1 DEF Packet
<1>3. /\ sent' \in Seq(Packet) /\ Len(sent') = n /\ sent'[n] = p
      /\ \A i \in 1 .. Len(sent) : sent'[i] = sent[i]
  BY <1>0, <1>1 DEF Video
<1>4. gop > 0 => sent[gop].time \in Nat /\ sent[gop].time <= gop
  <2>1. gop > 0 => sent[gop] \in Packet /\ sent[gop].time <= gop
    BY <1>0 DEF FanoutInv, StreamNumbered
  <2> QED  BY <2>1 DEF Packet
<1>5. gop' = IF p.key /\ p.time = p.n THEN n ELSE gop
  BY <1>1 DEF Video
<1>6. StreamNumbered'
  <2>1. p.time <= n  BY <1>0, <1>1, <1>2, <1>4
  <2>2. \A i \in 1 .. n : sent'[i].n = i /\ sent'[i].time <= i
    BY <1>0, <1>1, <1>3, <2>1 DEF FanoutInv, StreamNumbered
  <2> QED  BY <1>0, <1>3, <1>5, <2>2 DEF StreamNumbered
<1>7. Remember(p)  BY DEF Video
<1>a. /\ \A i \in 1 .. Len(cache) : cache[i].n = Len(sent) - Len(cache) + i
      /\ Len(cache) > 0 => gop > 0 /\ cache[1] = sent[gop] /\ Len(cache) = Len(sent) - gop + 1
  BY DEF FanoutInv, CacheFollows
<1>b. p.n = n  BY <1>1
\* A key frame begins: the cache is restarted with its first packet.
<1>8. ASSUME p.key, p.time = p.n, p.size = 1
      PROVE  cache' \in Seq(Packet) /\ cacheBytes' \in 0 .. CacheLimit /\ CacheFollows'
  <2>1. Restarts(p)
    <3>1. Len(cache) > 0 => cache[1].time # p.time
      BY <1>0, <1>4, <1>8, <1>a, <1>b
    <3> QED  BY <1>0, <1>8, <3>1 DEF Restarts
  <2>2. cache' = <<p>> /\ cacheBytes' = 1
    BY <1>0, <1>1, <1>7, <1>8, <2>1, RememberCases
  <2>3. gop' = n  BY <1>5, <1>8
  <2>4. cache' \in Seq(Packet) /\ Len(cache') = 1 /\ cache'[1] = p
    BY <1>1, <2>2
  <2>5. CacheFollows'
    BY <1>0, <1>1, <1>3, <2>2, <2>3, <2>4 DEF CacheFollows
  <2> QED  BY <1>0, <2>2, <2>4, <2>5
\* Another picture: it is appended, or the cache is dropped or stays empty.
<1>9. ASSUME ~p.key, p.time = p.n
      PROVE  cache' \in Seq(Packet) /\ cacheBytes' \in 0 .. CacheLimit /\ CacheFollows'
  <2>1. ~Restarts(p)  BY <1>9 DEF Restarts
  <2>2. gop' = gop  BY <1>5, <1>9
  <2>3. gop > 0 => sent'[n].time # sent'[gop].time
    BY <1>0, <1>1, <1>2, <1>3, <1>4, <1>9
  <2>4. CASE cache' = <<>> /\ cacheBytes' \in {0, cacheBytes}
    <3>1. Len(cache') = 0  BY <2>4
    <3> QED  BY <1>0, <1>3, <2>2, <2>3, <2>4, <3>1 DEF CacheFollows
  <2>5. CASE /\ Len(cache) > 0 /\ cache' = Append(cache, p)
             /\ cacheBytes' = cacheBytes + p.size /\ cacheBytes + p.size <= CacheLimit
    <3>1. /\ Len(cache') = Len(cache) + 1 /\ cache'[Len(cache) + 1] = p
          /\ \A i \in 1 .. Len(cache) : cache'[i] = cache[i]
          /\ cache' \in Seq(Packet)
      BY <1>0, <1>1, <2>5
    <3>2. \A i \in 1 .. Len(cache') : cache'[i].n = Len(sent') - Len(cache') + i
      <4> SUFFICES ASSUME NEW i \in 1 .. Len(cache) + 1
                   PROVE  cache'[i].n = n - (Len(cache) + 1) + i
        BY <1>3, <3>1
      <4>1. CASE i \in 1 .. Len(cache)  BY <1>0, <1>a, <3>1, <4>1
      <4>2. CASE i = Len(cache) + 1  BY <1>0, <1>b, <3>1, <4>2
      <4> QED  BY <1>0, <4>1, <4>2
    <3>3. gop > 0 /\ cache'[1] = sent'[gop] /\ Len(cache') = Len(sent') - gop + 1
      <4>1. gop > 0 /\ cache[1] = sent[gop] /\ Len(cache) = Len(sent) - gop + 1
        BY <1>a, <2>5
      <4>2. 1 \in 1 .. Len(cache) /\ gop \in 1 .. Len(sent)
        BY <1>0, <2>5, <4>1
      <4>3. cache'[1] = sent'[gop]
        BY <1>3, <3>1, <4>1, <4>2
      <4> QED  BY <1>0, <1>3, <3>1, <4>1, <4>3
    <3>4. CacheFollows'
      BY <1>3, <2>2, <2>3, <3>2, <3>3 DEF CacheFollows
    <3> QED  BY <1>0, <1>2, <2>5, <3>1, <3>4
  <2> QED  BY <1>1, <1>7, <2>1, <2>4, <2>5, RememberCases
\* More of the key frame at the head of the cache, which has room for it.
<1>10. ASSUME gop > 0, Len(sent) > 0, sent[Len(sent)].time = sent[gop].time,
              p.time = sent[gop].time, p.size = 1, p.n - gop < KeyPackets
       PROVE  cache' \in Seq(Packet) /\ cacheBytes' \in 0 .. CacheLimit /\ CacheFollows'
  <2>1. /\ Len(cache) > 0 /\ cacheBytes = Len(sent) - gop + 1 /\ cache[1] = sent[gop]
        /\ Len(cache) = Len(sent) - gop + 1
    BY <1>10 DEF FanoutInv, CacheFollows
  <2>2. cache # <<>> /\ ~Restarts(p)
    BY <1>0, <1>10, <2>1 DEF Restarts
  <2>3. cacheBytes + p.size <= KeyPackets
    BY <1>0, <1>1, <1>10, <2>1
  <2>4. cache' = Append(cache, p) /\ cacheBytes' = cacheBytes + p.size
    BY <1>0, <1>1, <1>2, <1>7, <2>1, <2>2, <2>3, RememberCases
  <2>5. gop' = gop  BY <1>0, <1>1, <1>4, <1>5, <1>10
  <2>6. /\ Len(cache') = Len(cache) + 1 /\ cache'[Len(cache) + 1] = p
        /\ \A i \in 1 .. Len(cache) : cache'[i] = cache[i]
        /\ cache' \in Seq(Packet)
    BY <1>0, <1>1, <2>4
  <2>7. \A i \in 1 .. Len(cache') : cache'[i].n = Len(sent') - Len(cache') + i
    <3> SUFFICES ASSUME NEW i \in 1 .. Len(cache) + 1
                 PROVE  cache'[i].n = n - (Len(cache) + 1) + i
      BY <1>3, <2>6
    <3>1. CASE i \in 1 .. Len(cache)  BY <1>0, <1>a, <2>6, <3>1
    <3>2. CASE i = Len(cache) + 1  BY <1>0, <1>b, <2>6, <3>2
    <3> QED  BY <1>0, <3>1, <3>2
  <2>8. gop > 0 /\ cache'[1] = sent'[gop] /\ Len(cache') = Len(sent') - gop + 1
    BY <1>0, <1>3, <1>10, <2>1, <2>6
  <2>9. cacheBytes' = Len(sent') - gop + 1 /\ cacheBytes' <= KeyPackets
    BY <1>0, <1>3, <1>10, <2>1, <2>3, <2>4
  <2>10. CacheFollows'
    BY <1>0, <1>3, <2>5, <2>7, <2>8, <2>9 DEF CacheFollows
  <2>11. cacheBytes' \in 0 .. CacheLimit
    BY <1>0, <1>10, <2>3, <2>4
  <2> QED  BY <2>6, <2>10, <2>11
<1>11. cache' \in Seq(Packet) /\ cacheBytes' \in 0 .. CacheLimit /\ CacheFollows'
  BY <1>1, <1>8, <1>9, <1>10
<1>12. FanoutType'
  <2>1. gop' \in 0 .. MaxPackets /\ Len(sent') <= MaxPackets
    BY <1>0, <1>3, <1>5
  <2> QED  BY <1>3, <1>11, <2>1 DEF Video, FanoutInv, FanoutType
<1>13. ConsumersFollow'
  <2> SUFFICES ASSUME NEW w \in watching'
               PROVE  Reaches(w, IF w \in delivering THEN Len(sent) - 1 ELSE Len(sent))'
    BY DEF ConsumersFollow
  <2>1. /\ w \in delivering' /\ w \in watching /\ received' = received
        /\ Len(sent') - 1 = Len(sent)
    BY <1>0, <1>3 DEF Video
  <2>2. Reaches(w, Len(sent))  BY <1>0, <2>1 DEF FanoutInv, ConsumersFollow
  <2> QED  BY <2>1, <2>2 DEF Reaches
<1> QED  BY <1>6, <1>11, <1>12, <1>13 DEF FanoutInv

\* The packet in hand reaches a consumer.
LEMMA DeliverStep ==
    ASSUME FanoutInv, NEW w \in Watchers, Deliver(w)
    PROVE  FanoutInv'
<1>0. /\ Len(sent) \in Nat /\ Len(sent) > 0 /\ Len(sent) <= MaxPackets
      /\ MaxPackets \in Nat
      /\ received \in [Watchers -> Seq(1 .. MaxPackets)] /\ w \in delivering
      /\ UNCHANGED <<sent, cache, cacheBytes, watching, closed, gop>>
      /\ watching \subseteq Watchers
  BY FanoutAssumption DEF FanoutInv, FanoutType, StreamNumbered, Deliver
<1>1. received' = [received EXCEPT ![w] = Append(received[w], Len(sent))]
  BY DEF Deliver
<1>2. /\ received'[w] \in Seq(1 .. MaxPackets)
      /\ Len(received'[w]) = Len(received[w]) + 1
      /\ received'[w][Len(received[w]) + 1] = Len(sent)
      /\ \A i \in 1 .. Len(received[w]) : received'[w][i] = received[w][i]
      /\ Len(received[w]) \in Nat
  BY <1>0, <1>1
<1>3. \A v \in Watchers \ {w} : received'[v] = received[v]
  BY <1>0, <1>1
<1>4. FanoutType'
  <2>1. received' \in [Watchers -> Seq(1 .. MaxPackets)]
    BY <1>0, <1>1, <1>2
  <2> QED  BY <1>0, <2>1 DEF FanoutInv, FanoutType, Deliver
<1>5. StreamNumbered' /\ CacheFollows'
  BY <1>0 DEF FanoutInv, StreamNumbered, CacheFollows, Deliver
<1>6. ConsumersFollow'
  <2> SUFFICES ASSUME NEW v \in watching
               PROVE  Reaches(v, IF v \in delivering THEN Len(sent) - 1 ELSE Len(sent))'
    BY <1>0 DEF ConsumersFollow
  <2>1. Reaches(v, IF v \in delivering THEN Len(sent) - 1 ELSE Len(sent))
    BY DEF FanoutInv, ConsumersFollow
  <2>2. CASE v = w
    <3>1. Reaches(w, Len(sent) - 1) /\ w \notin delivering'
      BY <1>0, <2>1, <2>2 DEF Deliver
    <3>2. ASSUME NEW i \in 1 .. Len(received'[w])
          PROVE  received'[w][i] = Len(sent) - Len(received'[w]) + i
      <4> DEFINE L == Len(received[w])
      <4>0. L \in Nat /\ Len(received'[w]) = L + 1 /\ Len(sent) \in Nat
        BY <1>0, <1>2
      <4>1. i \in 1 .. L + 1  BY <3>2, <4>0
      <4>2. i \in 1 .. L => /\ received'[w][i] = received[w][i]
                            /\ received[w][i] = (Len(sent) - 1) - L + i
        BY <1>2, <3>1 DEF Reaches
      <4>3. received'[w][L + 1] = Len(sent)  BY <1>2
      <4> HIDE DEF L
      <4>4. CASE i \in 1 .. L
        <5>1. received'[w][i] = (Len(sent) - 1) - L + i  BY <4>2, <4>4
        <5> QED  BY <4>0, <4>1, <5>1
      <4>5. CASE i = L + 1  BY <4>0, <4>3, <4>5
      <4> QED  BY <4>0, <4>1, <4>4, <4>5
    <3> QED  BY <1>0, <2>2, <3>1, <3>2 DEF Reaches
  <2>3. CASE v # w
    <3>1. received'[v] = received[v] /\ (v \in delivering' <=> v \in delivering)
      BY <1>0, <1>3, <2>3 DEF Deliver
    <3> QED  BY <1>0, <2>1, <3>1 DEF Reaches
  <2> QED  BY <2>2, <2>3
<1> QED  BY <1>4, <1>5, <1>6 DEF FanoutInv

\* A consumer that joins, or asks for the key frame again, is given the cache.
LEMMA ReplayStep ==
    ASSUME FanoutInv, NEW w \in Watchers, Add(w) \/ Replay(w)
    PROVE  FanoutInv'
<1>0. /\ cache \in Seq(Packet) /\ Len(sent) \in Nat /\ Len(cache) \in Nat
      /\ received \in [Watchers -> Seq(1 .. MaxPackets)] /\ delivering = {}
      /\ UNCHANGED <<sent, cache, cacheBytes, closed, delivering, gop>>
      /\ watching' \subseteq watching \cup {w} /\ watching \subseteq Watchers
  BY DEF FanoutInv, FanoutType, Add, Replay, Undisturbed
<1>1. received' = [received EXCEPT ![w] = Numbers(cache)]
  BY DEF Add, Replay
<1>2. /\ Numbers(cache) \in Seq(1 .. MaxPackets) /\ Len(Numbers(cache)) = Len(cache)
      /\ \A i \in 1 .. Len(cache) : Numbers(cache)[i] = cache[i].n
  <2>1. \A i \in 1 .. Len(cache) : cache[i].n \in 1 .. MaxPackets
    <3>1. \A i \in 1 .. Len(cache) : cache[i] \in Packet  BY <1>0
    <3> QED  BY <3>1 DEF Packet
  <2>2. Numbers(cache) = [i \in 1 .. Len(cache) |-> cache[i].n]
    BY <1>0 DEF Numbers
  <2> QED  BY <1>0, <2>1, <2>2
<1>3. received'[w] = Numbers(cache) /\ \A v \in Watchers \ {w} : received'[v] = received[v]
  BY <1>0, <1>1
<1>4. FanoutType'
  <2>1. received' \in [Watchers -> Seq(1 .. MaxPackets)]
    BY <1>0, <1>1, <1>2
  <2> QED  BY <1>0, <2>1 DEF FanoutInv, FanoutType
<1>5. StreamNumbered' /\ CacheFollows'
  BY <1>0 DEF FanoutInv, StreamNumbered, CacheFollows
<1>6. ConsumersFollow'
  <2> SUFFICES ASSUME NEW v \in watching' PROVE Reaches(v, Len(sent))'
    BY <1>0 DEF ConsumersFollow
  <2>1. CASE v = w
    BY <1>0, <1>2, <1>3, <2>1 DEF Reaches, FanoutInv, CacheFollows
  <2>2. CASE v # w
    <3>1. v \in watching /\ received'[v] = received[v]  BY <1>0, <1>3, <2>2
    <3>2. Reaches(v, Len(sent))  BY <1>0, <3>1 DEF FanoutInv, ConsumersFollow
    <3> QED  BY <1>0, <3>1, <3>2 DEF Reaches
  <2> QED  BY <2>1, <2>2
<1> QED  BY <1>4, <1>5, <1>6 DEF FanoutInv

\* What a consumer of the shared stream is sent has no gap and no overlap, and a
\* replay begins at the first packet of the last key frame (fanout.remember,
\* add, replay): for every number of consumers and every stream whose key frames
\* fit the cache.
THEOREM FanoutKeepsPictures == FanoutSpec => [](FanoutType /\ WholePicture)
<1>1. FanoutInv /\ [FanoutNext]_fanoutVars => FanoutInv'
  <2> SUFFICES ASSUME FanoutInv, [FanoutNext]_fanoutVars PROVE FanoutInv'
    OBVIOUS
  <2>1. ASSUME UNCHANGED <<sent, cache, cacheBytes, delivering, received, gop>>,
               watching' \subseteq watching, closed' \in BOOLEAN
        PROVE  FanoutInv'
    BY <2>1 DEF FanoutInv, FanoutType, StreamNumbered, CacheFollows, ConsumersFollow, Reaches
  <2>2. ASSUME NEW w \in Watchers, Remove(w) PROVE FanoutInv'
    <3>1. closed' \in BOOLEAN  BY <2>2, Zenon DEF Remove, FanoutInv, FanoutType
    <3> QED  BY <2>1, <2>2, <3>1 DEF Remove
  <2>3. CASE CloseFanout  BY <2>1, <2>3 DEF CloseFanout
  <2>4. CASE UNCHANGED fanoutVars
    <3>1. closed' \in BOOLEAN  BY <2>4 DEF fanoutVars, FanoutInv, FanoutType
    <3> QED  BY <2>1, <2>4, <3>1 DEF fanoutVars
  <2> QED
    BY <2>2, <2>3, <2>4, VideoStep, DeliverStep, ReplayStep DEF FanoutNext
<1>2. FanoutInv => FanoutType  BY DEF FanoutInv
<1> QED  BY <1>1, <1>2, FanoutInitInv, FanoutPromise, PTL DEF FanoutSpec

-----------------------------------------------------------------------------
(* The WebRTC sessions *)

\* What holds of one session whatever the others do: its lease is taken by the
\* close that marked it closed, and only then dropped, in the way of that close.
SessionFits(q) ==
    /\ q.closed => q.removed
    /\ q.lease = "dropping" => q.closed
    /\ q.lease = "held" => ~q.closed
    /\ q.dropped # "no" => q.closed /\ q.dropped = q.how
    /\ q.remoteSet => q.pendingICE = 0

IsNew(n) == offer.session = n /\ offer.at = "new"

\* A session that was not removed is the one under its id, once registered.
Placed(n) ==
    /\ n > made => peer[n] = NewPeer
    /\ ~peer[n].removed => n > made \/ sessions[peer[n].id] = n \/ IsNew(n)
    /\ IsNew(n) => /\ sessions[peer[n].id] = 0 /\ peer[n].lease = "none"
                   /\ ~peer[n].removed /\ ~peer[n].remoteSet

\* What is under an id is a session of that id that can still be closed, and
\* no candidate waits under it.
Registered(id) ==
    sessions[id] # 0 => /\ sessions[id] <= made /\ peer[sessions[id]].id = id
                        /\ ~peer[sessions[id]].removed
                        /\ pendingCandidates[id] = 0

\* The offers stop before the sessions do.
ServiceStops ==
    /\ offer.session <= made /\ inflight \subseteq 1 .. made
    /\ service # "open" => offer = NoOffer
    /\ service = "down" => \A id \in SessionIds : sessions[id] = 0

WebRTCInv ==
    /\ WebRTCType /\ ServiceStops
    /\ \A n \in Offers : SessionFits(peer[n]) /\ Placed(n)
    /\ \A id \in SessionIds : Registered(id)

\* A fresh peer connection has its type and holds nothing.
LEMMA NewPeerFits ==
    /\ NewPeer \in Peers /\ SessionFits(NewPeer) /\ ~NewPeer.removed
    /\ NewPeer.lease = "none" /\ NewPeer.dropped = "no" /\ ~NewPeer.remoteSet
<1>1. (CHOOSE id \in SessionIds : TRUE) \in SessionIds
  BY WebRTCAssumption
<1>2. NewPeer \in Peers
  BY <1>1, WebRTCAssumption DEF NewPeer, Peers, Drops
<1>3. /\ SessionFits(NewPeer) /\ ~NewPeer.removed /\ NewPeer.lease = "none"
      /\ NewPeer.dropped = "no" /\ ~NewPeer.remoteSet
  BY DEF NewPeer, SessionFits
<1> QED  BY <1>2, <1>3

\* No session is open at the start.
LEMMA WebRTCInitInv == WebRTCInit => WebRTCInv
<1> SUFFICES ASSUME WebRTCInit PROVE WebRTCInv  OBVIOUS
<1>1. WebRTCType
  BY NewPeerFits, WebRTCAssumption DEF WebRTCInit, WebRTCType, NoOffer, Offers
<1>2. ServiceStops
  BY DEF WebRTCInit, ServiceStops, NoOffer
<1>3. \A n \in Offers : SessionFits(peer[n]) /\ Placed(n)
  BY NewPeerFits, WebRTCAssumption DEF WebRTCInit, Placed, IsNew, NoOffer, Offers
<1>4. \A id \in SessionIds : Registered(id)
  BY DEF WebRTCInit, Registered
<1> QED  BY <1>1, <1>2, <1>3, <1>4 DEF WebRTCInv

\* The facts about the state that the steps below start from.
LEMMA WebRTCFacts ==
    ASSUME WebRTCInv
    PROVE  /\ sessions \in [SessionIds -> 0 .. MaxOffers]
           /\ pendingCandidates \in [SessionIds -> 0 .. MaxCandidates]
           /\ peer \in [Offers -> Peers] /\ made \in 0 .. MaxOffers
           /\ MaxOffers \in Nat /\ MaxCandidates \in Nat
           /\ Offers = 1 .. MaxOffers /\ inflight \subseteq Offers
           /\ \A n \in Offers : peer[n].id \in SessionIds
BY WebRTCAssumption DEF WebRTCInv, WebRTCType, Offers, Peers

\* A step of one session that neither removes it nor renames it.
LEMMA SessionMoves ==
    ASSUME WebRTCInv, NEW n \in Offers, NEW q \in Peers, n <= made, SessionFits(q),
           q.id = peer[n].id, q.removed = peer[n].removed,
           peer' = [peer EXCEPT ![n] = q],
           \/ offer' = offer
           \/ service = "open" /\ offer'.session = n
           \/ offer' = NoOffer,
           offer' \in [session : 0 .. MaxOffers,
                  at : {"none", "registered", "remote", "flushed", "source", "answer"}]
               \/ offer' = offer,
           IsNew(n) => offer' = offer /\ q.lease = "none" /\ ~q.remoteSet,
           offer # offer' => offer.session = n,
           inflight' \subseteq inflight,
           UNCHANGED <<sessions, pendingCandidates, made, service>>
    PROVE  WebRTCInv'
<1>0. WebRTCType /\ ServiceStops
  BY DEF WebRTCInv
<1>1. peer'[n] = q /\ \A m \in Offers \ {n} : peer'[m] = peer[m]
  BY WebRTCFacts
<1>2. offer'.at = "new" => offer' = offer
  BY DEF NoOffer
<1>3. WebRTCType'
  <2>1. peer' \in [Offers -> Peers]  BY WebRTCFacts
  <2>2. offer' \in [session : 0 .. MaxOffers,
              at : {"none", "new", "registered", "remote", "flushed", "source", "answer"}]
    BY <1>0, WebRTCFacts DEF WebRTCType, NoOffer
  <2> QED  BY <1>0, <2>1, <2>2 DEF WebRTCType
<1>4. ServiceStops'
  BY <1>0, WebRTCFacts DEF ServiceStops, NoOffer
<1>5. ASSUME NEW m \in Offers PROVE SessionFits(peer'[m]) /\ Placed(m)'
  <2>1. SessionFits(peer[m]) /\ Placed(m)
    BY DEF WebRTCInv
  <2>2. IsNew(m)' => IsNew(m)
    BY <1>2 DEF IsNew
  <2>3. IsNew(m) => IsNew(m)' \/ m = n
    BY DEF IsNew
  <2>4. CASE m = n
    <3>1. ~(n > made) /\ ~(n > made')  BY WebRTCFacts
    <3>2. IsNew(n)' <=> IsNew(n)  BY <2>2, <2>4 DEF IsNew
    <3>3. /\ ~peer[n].removed => sessions[peer[n].id] = n \/ IsNew(n)
          /\ IsNew(n) => sessions[peer[n].id] = 0 /\ ~peer[n].removed
      BY <2>1, <2>4, <3>1 DEF Placed
    <3>4. /\ peer'[n].id = peer[n].id /\ peer'[n].removed = peer[n].removed
          /\ sessions' = sessions /\ SessionFits(peer'[n])
          /\ IsNew(n) => peer'[n].lease = "none" /\ ~peer'[n].remoteSet
      BY <1>1
    <3>5. Placed(n)'
      BY <3>1, <3>2, <3>3, <3>4, Zenon DEF Placed
    <3> QED  BY <2>4, <3>4, <3>5
  <2>5. CASE m # n
    BY <1>1, <2>1, <2>2, <2>3, <2>5 DEF Placed
  <2> QED  BY <2>4, <2>5
<1>6. ASSUME NEW id \in SessionIds PROVE Registered(id)'
  <2>1. Registered(id)  BY DEF WebRTCInv
  <2>2. sessions[id] # 0 => sessions[id] \in Offers  BY WebRTCFacts
  <2> QED  BY <1>1, <2>1, <2>2 DEF Registered
<1> QED  BY <1>3, <1>4, <1>5, <1>6 DEF WebRTCInv

\* The sessions as they are, or with a startup that failed.
StartupOver(over) ==
    \/ over = peer
    \/ \E m \in Offers : /\ peer[m].lease = "starting"
                         /\ over = [peer EXCEPT ![m].lease = "over"]

\* A close that takes the session out of the map (closeSessionWith, first lock),
\* alone or with the end of a startup that failed.
LEMMA SessionRemoved ==
    ASSUME WebRTCInv, NEW id \in SessionIds, NEW how \in Drops, NEW over,
           StartupOver(over),
           sessions' = [sessions EXCEPT ![id] = 0],
           pendingCandidates' = [pendingCandidates EXCEPT ![id] = 0],
           peer' = IF sessions[id] = 0 THEN over
                   ELSE [over EXCEPT ![sessions[id]].removed = TRUE,
                                     ![sessions[id]].how = how],
           offer' = offer \/ (offer' = NoOffer /\ ~IsNew(offer.session)),
           UNCHANGED <<inflight, made, service>>
    PROVE  WebRTCInv'
<1> DEFINE s == sessions[id]
<1>0. WebRTCType /\ ServiceStops
  BY DEF WebRTCInv
<1>1. s # 0 => /\ s \in Offers /\ s <= made /\ peer[s].id = id /\ ~peer[s].removed
               /\ ~IsNew(s)
  <2>1. s # 0 => s \in Offers /\ s <= made /\ peer[s].id = id /\ ~peer[s].removed
    BY WebRTCFacts DEF WebRTCInv, Registered
  <2>2. s # 0 => Placed(s)  BY <2>1 DEF WebRTCInv
  <2> QED  BY <2>1, <2>2 DEF Placed
<1>2. /\ over \in [Offers -> Peers]
      /\ \A n \in Offers :
            \/ over[n] = peer[n]
            \/ /\ peer[n].lease = "starting"
               /\ over[n] = [peer[n] EXCEPT !.lease = "over"]
  <2>1. CASE over = peer  BY <2>1, WebRTCFacts
  <2>2. CASE \E m \in Offers : /\ peer[m].lease = "starting"
                               /\ over = [peer EXCEPT ![m].lease = "over"]
    <3>1. PICK m \in Offers : /\ peer[m].lease = "starting"
                              /\ over = [peer EXCEPT ![m].lease = "over"]
      BY <2>2
    <3>2. peer[m] \in Peers  BY WebRTCFacts
    <3>3. [peer[m] EXCEPT !.lease = "over"] \in Peers  BY <3>2 DEF Peers
    <3> QED  BY <3>1, <3>3, WebRTCFacts
  <2> QED  BY <2>1, <2>2 DEF StartupOver
<1>3. \A n \in Offers :
          /\ over[n] \in Peers /\ SessionFits(over[n])
          /\ over[n].id = peer[n].id /\ over[n].removed = peer[n].removed
          /\ over[n].closed = peer[n].closed /\ over[n].dropped = peer[n].dropped
          /\ over[n].remoteSet = peer[n].remoteSet
          /\ peer[n].lease = "none" => over[n] = peer[n]
  <2> SUFFICES ASSUME NEW n \in Offers
               PROVE  /\ over[n] \in Peers /\ SessionFits(over[n])
                      /\ over[n].id = peer[n].id /\ over[n].removed = peer[n].removed
                      /\ over[n].closed = peer[n].closed /\ over[n].dropped = peer[n].dropped
                      /\ over[n].remoteSet = peer[n].remoteSet
                      /\ peer[n].lease = "none" => over[n] = peer[n]
    OBVIOUS
  <2>1. peer[n] \in Peers /\ SessionFits(peer[n]) /\ over[n] \in Peers
    BY <1>2, WebRTCFacts DEF WebRTCInv
  <2>2. CASE over[n] = peer[n]  BY <2>1, <2>2
  <2>3. CASE peer[n].lease = "starting" /\ over[n] = [peer[n] EXCEPT !.lease = "over"]
    BY <2>1, <2>3 DEF SessionFits, Peers
  <2> QED  BY <1>2, <2>2, <2>3
<1>4. \A n \in Offers : n # s => peer'[n] = over[n]
  BY <1>1, <1>2
<1>5. s # 0 => /\ peer'[s] \in Peers /\ SessionFits(peer'[s])
               /\ peer'[s].id = id /\ peer'[s].removed
  <2> SUFFICES ASSUME s # 0
               PROVE  /\ peer'[s] \in Peers /\ SessionFits(peer'[s])
                      /\ peer'[s].id = id /\ peer'[s].removed
    OBVIOUS
  <2>1. peer'[s] = [over[s] EXCEPT !.removed = TRUE, !.how = how]
    BY <1>1, <1>2
  <2>2. over[s] \in Peers /\ SessionFits(over[s]) /\ over[s].id = id /\ ~over[s].removed
    BY <1>1, <1>3
  <2>3. ~over[s].closed  BY <2>2 DEF SessionFits
  <2>4. over[s].dropped = "no"  BY <2>2, <2>3 DEF SessionFits
  <2> HIDE DEF s
  <2>5. ASSUME NEW o \in Peers, SessionFits(o), o.id = id, ~o.closed, o.dropped = "no",
               NEW t \in BOOLEAN, t
        PROVE  LET q == [o EXCEPT !.removed = t, !.how = how]
               IN  q \in Peers /\ SessionFits(q) /\ q.id = id /\ q.removed
    BY <2>5 DEF SessionFits, Peers
  <2> QED  BY <2>1, <2>2, <2>3, <2>4, <2>5
<1> HIDE DEF s
<1>6. WebRTCType'
  <2>1. sessions' \in [SessionIds -> 0 .. MaxOffers]
        /\ pendingCandidates' \in [SessionIds -> 0 .. MaxCandidates]
    BY WebRTCFacts
  <2>2. peer' \in [Offers -> Peers]
    <3>1. DOMAIN peer' = Offers /\ peer' = [n \in Offers |-> peer'[n]]
      BY <1>1, <1>2 DEF s
    <3>2. \A n \in Offers : n = s => s # 0  BY WebRTCFacts
    <3>3. \A n \in Offers : peer'[n] \in Peers  BY <1>3, <1>4, <1>5, <3>2
    <3> QED  BY <3>1, <3>3, Zenon
  <2>3. offer' \in [session : 0 .. MaxOffers,
              at : {"none", "new", "registered", "remote", "flushed", "source", "answer"}]
    BY <1>0, WebRTCFacts DEF WebRTCType, NoOffer
  <2> QED  BY <1>0, <2>1, <2>2, <2>3 DEF WebRTCType
<1>7. ServiceStops'
  BY <1>0, WebRTCFacts DEF ServiceStops, NoOffer
<1>8. \A n \in Offers : IsNew(n)' <=> IsNew(n)
  BY DEF IsNew, NoOffer
<1>9. ASSUME NEW n \in Offers PROVE SessionFits(peer'[n]) /\ Placed(n)'
  <2>1. Placed(n) /\ peer[n].id \in SessionIds  BY WebRTCFacts DEF WebRTCInv
  <2>2. CASE n = s
    <3>1. s # 0 /\ ~(n > made') /\ ~IsNew(n)' /\ peer'[n].removed
      BY <1>1, <1>5, <1>8, <2>2, WebRTCFacts
    <3> QED  BY <1>5, <2>2, <3>1 DEF Placed
  <2>3. CASE n # s
    <3>1. peer'[n] = over[n]  BY <1>4, <2>3
    <3>2. /\ SessionFits(peer'[n]) /\ peer'[n].id = peer[n].id
          /\ peer'[n].removed = peer[n].removed /\ peer'[n].remoteSet = peer[n].remoteSet
          /\ peer[n].lease = "none" => peer'[n] = peer[n]
      BY <1>3, <3>1
    <3>3. n > made' => peer'[n] = NewPeer
      BY <2>1, <3>2, NewPeerFits DEF Placed
    <3>4. sessions[peer[n].id] = n => sessions'[peer'[n].id] = n
      BY <2>1, <2>3, <3>2, WebRTCFacts DEF s
    <3>5. ~peer'[n].removed => n > made' \/ sessions'[peer'[n].id] = n \/ IsNew(n)'
      BY <1>8, <2>1, <3>2, <3>4 DEF Placed
    <3>6. sessions[peer[n].id] = 0 => sessions'[peer'[n].id] = 0
      BY <2>1, <3>2, WebRTCFacts
    <3>7. IsNew(n)' => /\ sessions'[peer'[n].id] = 0 /\ peer'[n].lease = "none"
                       /\ ~peer'[n].removed /\ ~peer'[n].remoteSet
      BY <1>8, <2>1, <3>2, <3>6 DEF Placed
    <3> QED  BY <3>2, <3>3, <3>5, <3>7 DEF Placed
  <2> QED  BY <2>2, <2>3
<1>10. ASSUME NEW i \in SessionIds PROVE Registered(i)'
  <2>1. Registered(i)  BY DEF WebRTCInv
  <2>2. CASE i = id  BY <2>2, WebRTCFacts DEF Registered
  <2>3. CASE i # id
    <3>1. sessions'[i] = sessions[i] /\ pendingCandidates'[i] = pendingCandidates[i]
      BY <2>3, WebRTCFacts
    <3>2. ASSUME sessions[i] # 0
          PROVE  /\ sessions[i] <= made' /\ peer'[sessions[i]].id = i
                 /\ ~peer'[sessions[i]].removed
      <4>1. /\ sessions[i] \in Offers /\ peer[sessions[i]].id = i /\ sessions[i] <= made
            /\ ~peer[sessions[i]].removed
        BY <2>1, <3>2, WebRTCFacts DEF Registered
      <4>2. sessions[i] # s  BY <1>1, <2>3, <3>2, <4>1
      <4>3. peer'[sessions[i]] = over[sessions[i]]  BY <1>4, <4>1, <4>2
      <4> QED  BY <1>3, <4>1, <4>3
    <3> QED  BY <2>1, <3>1, <3>2 DEF Registered
  <2> QED  BY <2>2, <2>3
<1> QED  BY <1>6, <1>7, <1>9, <1>10 DEF WebRTCInv
\* An offer makes a session, which is not under its id yet.
LEMMA OfferBegins ==
    ASSUME WebRTCInv, NEW id \in SessionIds, NEW trickle \in BOOLEAN,
           BeginOffer(id, trickle)
    PROVE  WebRTCInv'
<1> DEFINE n == made + 1
           q == [NewPeer EXCEPT !.id = id, !.trickle = trickle]
<1>0. WebRTCType /\ ServiceStops
  BY DEF WebRTCInv
<1>1. /\ n \in Offers /\ made \in Nat /\ service = "open" /\ made' = n
      /\ offer = NoOffer /\ offer' = [session |-> n, at |-> "new"]
      /\ UNCHANGED <<sessions, pendingCandidates, inflight, service>>
      /\ peer' = [peer EXCEPT ![n] = q] /\ sessions[id] = 0
  BY WebRTCFacts DEF BeginOffer
<1>2. /\ q \in Peers /\ SessionFits(q) /\ q.id = id /\ q.lease = "none"
      /\ ~q.removed /\ ~q.remoteSet
  BY NewPeerFits DEF Peers, SessionFits
<1> HIDE DEF q
<1>3. peer'[n] = q /\ \A m \in Offers \ {n} : peer'[m] = peer[m]
  BY <1>1, WebRTCFacts
<1>4. WebRTCType'
  BY <1>0, <1>1, <1>2, WebRTCFacts DEF WebRTCType
<1>5. ServiceStops'
  BY <1>0, <1>1, WebRTCFacts DEF ServiceStops
<1>6. \A m \in Offers : ~IsNew(m) /\ (IsNew(m)' <=> m = n)
  BY <1>1 DEF IsNew, NoOffer
<1>7. ASSUME NEW m \in Offers PROVE SessionFits(peer'[m]) /\ Placed(m)'
  <2>1. SessionFits(peer[m]) /\ Placed(m)  BY DEF WebRTCInv
  <2>2. CASE m = n
    <3>1. ~(m > made')  BY <1>1, <2>2
    <3> QED  BY <1>1, <1>2, <1>3, <1>6, <2>2, <3>1 DEF Placed
  <2>3. CASE m # n
    <3>1. peer'[m] = peer[m] /\ ~IsNew(m) /\ ~IsNew(m)' /\ sessions' = sessions
      BY <1>1, <1>3, <1>6, <2>3
    <3>2. (m > made' => m > made) /\ (m > made => m > made')
      BY <1>1, <2>3, WebRTCFacts
    <3> QED  BY <2>1, <3>1, <3>2 DEF Placed
  <2> QED  BY <2>2, <2>3
<1>8. ASSUME NEW i \in SessionIds PROVE Registered(i)'
  <2>1. Registered(i)  BY DEF WebRTCInv
  <2>2. sessions[i] # 0 => /\ sessions[i] \in Offers /\ sessions[i] # n
                           /\ sessions[i] <= made'
    BY <1>1, <2>1, WebRTCFacts DEF Registered
  <2> QED  BY <1>1, <1>3, <2>1, <2>2 DEF Registered
<1> QED  BY <1>4, <1>5, <1>7, <1>8 DEF WebRTCInv

\* The session takes its place, and the candidates that came before it.
LEMMA SessionRegisters ==
    ASSUME WebRTCInv, NEW n \in Offers, Register(n)
    PROVE  WebRTCInv'
<1> DEFINE id == peer[n].id
           q == [peer[n] EXCEPT !.pendingICE = pendingCandidates[id]]
<1>0. WebRTCType /\ ServiceStops /\ SessionFits(peer[n]) /\ Placed(n)
  BY DEF WebRTCInv
<1>1. /\ offer = [session |-> n, at |-> "new"]
      /\ offer' = [offer EXCEPT !.at = "registered"]
      /\ peer' = [peer EXCEPT ![n].pendingICE = pendingCandidates[peer[n].id]]
      /\ pendingCandidates' = [pendingCandidates EXCEPT ![id] = 0]
      /\ sessions' = [sessions EXCEPT ![id] = n]
      /\ UNCHANGED <<inflight, made, service>>
  BY DEF Register, TakesPending
<1>2. IsNew(n) /\ n <= made /\ service = "open" /\ offer' = [session |-> n, at |-> "registered"]
  BY <1>0, <1>1 DEF IsNew, ServiceStops, NoOffer
<1>3. /\ id \in SessionIds /\ sessions[id] = 0 /\ ~peer[n].removed /\ ~peer[n].remoteSet
      /\ peer[n] \in Peers /\ pendingCandidates[id] \in 0 .. MaxCandidates
  BY <1>0, <1>2, WebRTCFacts DEF Placed
<1>4. /\ q \in Peers /\ SessionFits(q) /\ q.id = id /\ q.removed = peer[n].removed
  BY <1>0, <1>3 DEF Peers, SessionFits
<1>5. peer' = [peer EXCEPT ![n] = q]
  BY <1>1, WebRTCFacts
<1> HIDE DEF q
<1>6. peer'[n] = q /\ \A m \in Offers \ {n} : peer'[m] = peer[m]
  BY <1>5, WebRTCFacts
<1>7. WebRTCType'
  <2>1. /\ peer' \in [Offers -> Peers]
        /\ sessions' \in [SessionIds -> 0 .. MaxOffers]
        /\ pendingCandidates' \in [SessionIds -> 0 .. MaxCandidates]
    <3>1. peer' \in [Offers -> Peers]  BY <1>4, <1>5, WebRTCFacts
    <3>2. sessions' \in [SessionIds -> 0 .. MaxOffers]  BY <1>1, <1>3, WebRTCFacts
    <3>3. pendingCandidates' \in [SessionIds -> 0 .. MaxCandidates]
      BY <1>1, <1>3, WebRTCFacts
    <3> QED  BY <3>1, <3>2, <3>3
  <2>2. offer' \in [session : 0 .. MaxOffers,
              at : {"none", "new", "registered", "remote", "flushed", "source", "answer"}]
    BY <1>2, WebRTCFacts
  <2>3. /\ inflight' \subseteq Offers /\ made' \in 0 .. MaxOffers
        /\ service' \in {"open", "closing", "down"}
    BY <1>0, <1>1 DEF WebRTCType
  <2> QED  BY <2>1, <2>2, <2>3, Zenon DEF WebRTCType
<1>8. ServiceStops'
  BY <1>0, <1>1, <1>2, WebRTCFacts DEF ServiceStops
<1>9. \A m \in Offers : ~IsNew(m)' /\ (IsNew(m) => m = n)
  BY <1>1, <1>2 DEF IsNew
<1>10. ASSUME NEW m \in Offers PROVE SessionFits(peer'[m]) /\ Placed(m)'
  <2>1. SessionFits(peer[m]) /\ Placed(m)  BY DEF WebRTCInv
  <2>2. CASE m = n
    <3>1. ~(m > made') /\ sessions'[id] = n
      BY <1>1, <1>2, <1>3, <2>2, WebRTCFacts
    <3> QED  BY <1>4, <1>6, <1>9, <2>2, <3>1 DEF Placed
  <2>3. CASE m # n
    <3>1. peer'[m] = peer[m] /\ ~IsNew(m) /\ ~IsNew(m)' /\ made' = made
      BY <1>1, <1>6, <1>9, <2>3
    <3>2. sessions[peer[m].id] = m => sessions'[peer[m].id] = m
      BY <1>1, <1>3, WebRTCFacts
    <3> QED  BY <2>1, <3>1, <3>2 DEF Placed
  <2> QED  BY <2>2, <2>3
<1>11. ASSUME NEW i \in SessionIds PROVE Registered(i)'
  <2>1. Registered(i)  BY DEF WebRTCInv
  <2>2. CASE i = id
    <3>1. sessions'[i] = n /\ pendingCandidates'[i] = 0 /\ made' = made
      BY <1>1, <1>3, <2>2, WebRTCFacts
    <3> QED  BY <1>2, <1>3, <1>4, <1>6, <2>2, <3>1 DEF Registered
  <2>3. CASE i # id
    <3>1. /\ sessions'[i] = sessions[i] /\ pendingCandidates'[i] = pendingCandidates[i]
          /\ made' = made
      BY <1>1, <1>3, <2>3, WebRTCFacts
    <3>2. sessions[i] # 0 => sessions[i] \in Offers /\ sessions[i] # n
      BY <2>1, <2>3, WebRTCFacts DEF Registered
    <3>3. sessions[i] # 0 => peer'[sessions[i]] = peer[sessions[i]]
      BY <1>6, <3>2
    <3> QED  BY <2>1, <3>1, <3>3 DEF Registered
  <2> QED  BY <2>2, <2>3
<1> QED  BY <1>7, <1>8, <1>10, <1>11 DEF WebRTCInv

\* A candidate that waits under an id waits where no session is registered.
LEMMA CandidatesWait ==
    ASSUME WebRTCInv, UNCHANGED <<sessions, peer, offer, made>>,
           NEW id \in SessionIds, NEW c \in 0 .. MaxCandidates,
           pendingCandidates' = [pendingCandidates EXCEPT ![id] = c],
           c = 0 \/ sessions[id] = 0, inflight' = inflight, service' = service
    PROVE  WebRTCInv'
<1>1. pendingCandidates' \in [SessionIds -> 0 .. MaxCandidates]
  BY WebRTCFacts
<1>2. WebRTCType' /\ ServiceStops'
  BY <1>1 DEF WebRTCInv, WebRTCType, ServiceStops
<1>3. \A n \in Offers : SessionFits(peer'[n]) /\ Placed(n)'
  BY DEF WebRTCInv, Placed, IsNew
<1>4. \A i \in SessionIds : Registered(i)'
  BY WebRTCFacts DEF WebRTCInv, Registered
<1> QED  BY <1>2, <1>3, <1>4 DEF WebRTCInv
\* The invariant gives both promises of the service.
LEMMA WebRTCPromise == WebRTCInv => LeaseFollowsItsSession /\ NoCandidateStranded
<1> SUFFICES ASSUME WebRTCInv PROVE LeaseFollowsItsSession /\ NoCandidateStranded
  OBVIOUS
<1>1. ASSUME NEW n \in Offers
      PROVE  /\ peer[n].lease = "held" => ~peer[n].closed
             /\ peer[n].dropped # "no" => peer[n].dropped = peer[n].how
             /\ peer[n].lease = "held" /\ ~peer[n].removed => sessions[peer[n].id] = n
             /\ peer[n].remoteSet => peer[n].pendingICE = 0
  <2>1. SessionFits(peer[n]) /\ Placed(n)  BY DEF WebRTCInv
  <2> QED  BY <2>1, NewPeerFits DEF SessionFits, Placed
<1>2. ASSUME service = "down", NEW n \in Offers, peer[n].lease = "held", ~peer[n].removed
      PROVE  FALSE
  <2>1. sessions[peer[n].id] = n /\ peer[n].id \in SessionIds
    BY <1>1, <1>2, WebRTCFacts
  <2>2. sessions[peer[n].id] = 0  BY <1>2, <2>1 DEF WebRTCInv, ServiceStops
  <2> QED  BY <2>1, <2>2, WebRTCFacts
<1>3. \A id \in SessionIds : sessions[id] # 0 => pendingCandidates[id] = 0
  BY DEF WebRTCInv, Registered
<1> QED  BY <1>1, <1>2, <1>3 DEF LeaseFollowsItsSession, NoCandidateStranded

\* The steps of one session: its lease, its descriptions and its candidates.
LEMMA SessionStep ==
    ASSUME WebRTCInv, NEW n \in Offers,
           \/ MarkClosed(n) \/ DropLease(n) \/ SetRemoteDescription(n)
           \/ FlushPendingRemoteCandidates(n) \/ StartSource(n) \/ Answer(n)
           \/ SourceStarts(n) \/ SetLease(n) \/ AddCandidateToSession(n)
    PROVE  WebRTCInv'
<1>0. /\ peer[n] \in Peers /\ SessionFits(peer[n]) /\ Placed(n) /\ ServiceStops
      /\ peer[n].removed \in BOOLEAN
  BY WebRTCFacts DEF WebRTCInv, Peers
<1>1. offer \in [session : 0 .. MaxOffers,
              at : {"none", "new", "registered", "remote", "flushed", "source", "answer"}]
  BY DEF WebRTCInv, WebRTCType
<1>2. peer[n].removed \/ peer[n].lease # "none" \/ n \in inflight => n <= made
  BY <1>0, NewPeerFits, WebRTCFacts DEF Placed, ServiceStops
<1>3. IsNew(n) => peer[n].lease = "none" /\ ~peer[n].removed /\ ~peer[n].remoteSet
  BY <1>0 DEF Placed
<1>4. ASSUME NEW at \in {"none", "registered", "remote", "flushed", "source", "answer"}
      PROVE  /\ [offer EXCEPT !.at = at] \in [session : 0 .. MaxOffers,
                   at : {"none", "registered", "remote", "flushed", "source", "answer"}]
             /\ [offer EXCEPT !.at = at].session = offer.session
             /\ NoOffer \in [session : 0 .. MaxOffers,
                   at : {"none", "registered", "remote", "flushed", "source", "answer"}]
  <2>1. NoOffer \in [session : 0 .. MaxOffers,
                   at : {"none", "registered", "remote", "flushed", "source", "answer"}]
    BY WebRTCFacts DEF NoOffer
  <2> QED  BY <1>1, <1>4, <2>1
<1>5. ASSUME NEW at, at # "none", offer = [session |-> n, at |-> at]
      PROVE  n <= made /\ service = "open" /\ offer.session = n /\ offer.at = at
  BY <1>0, <1>5 DEF ServiceStops, NoOffer
<1>6. CASE MarkClosed(n)
  <2> DEFINE q == [peer[n] EXCEPT !.closed = TRUE,
                        !.lease = IF @ = "held" THEN "dropping" ELSE @]
  <2>1. /\ q \in Peers /\ q.id = peer[n].id /\ q.removed = peer[n].removed
        /\ SessionFits(q)
    BY <1>0, <1>6 DEF MarkClosed, SessionFits, Peers
  <2>2. peer' = [peer EXCEPT ![n] = q]
    BY <1>6, WebRTCFacts DEF MarkClosed
  <2>3. n <= made /\ ~IsNew(n) /\ offer' = offer /\ inflight' \subseteq inflight
        /\ UNCHANGED <<sessions, pendingCandidates, made, service>>
    BY <1>2, <1>3, <1>6 DEF MarkClosed
  <2> HIDE DEF q
  <2> QED  BY <2>1, <2>2, <2>3, SessionMoves
<1>7. CASE DropLease(n)
  <2> DEFINE q == [peer[n] EXCEPT !.lease = "over", !.dropped = peer[n].how]
  <2>1. /\ q \in Peers /\ q.id = peer[n].id /\ q.removed = peer[n].removed
        /\ SessionFits(q)
    BY <1>0, <1>7 DEF DropLease, SessionFits, Peers, Drops
  <2>2. peer' = [peer EXCEPT ![n] = q]
    BY <1>7, WebRTCFacts DEF DropLease
  <2>3. n <= made /\ ~IsNew(n) /\ offer' = offer /\ inflight' \subseteq inflight
        /\ UNCHANGED <<sessions, pendingCandidates, made, service>>
    BY <1>2, <1>3, <1>7 DEF DropLease
  <2> HIDE DEF q
  <2> QED  BY <2>1, <2>2, <2>3, SessionMoves
<1>8. CASE SetRemoteDescription(n)
  <2>1. /\ peer' = [peer EXCEPT ![n] = peer[n]] /\ inflight' \subseteq inflight
        /\ UNCHANGED <<sessions, pendingCandidates, made, service>>
        /\ offer = [session |-> n, at |-> "registered"]
        /\ offer' = [offer EXCEPT !.at = "remote"]
    BY <1>8, WebRTCFacts DEF SetRemoteDescription
  <2>2. /\ n <= made /\ service = "open" /\ offer.session = n /\ ~IsNew(n)
        /\ offer'.session = n
        /\ offer' \in [session : 0 .. MaxOffers,
              at : {"none", "registered", "remote", "flushed", "source", "answer"}]
    BY <1>4, <1>5, <2>1 DEF IsNew
  <2> QED  BY <1>0, <2>1, <2>2, SessionMoves
<1>9. CASE FlushPendingRemoteCandidates(n)
  <2> DEFINE q == [peer[n] EXCEPT !.remoteSet = TRUE, !.pendingICE = 0]
  <2>1. /\ q \in Peers /\ q.id = peer[n].id /\ q.removed = peer[n].removed
        /\ SessionFits(q)
    <3>1. ASSUME NEW o \in Peers, SessionFits(o), NEW t \in BOOLEAN, 0 \in 0 .. MaxCandidates
          PROVE  LET r == [o EXCEPT !.remoteSet = t, !.pendingICE = 0]
                 IN  r \in Peers /\ r.id = o.id /\ r.removed = o.removed /\ SessionFits(r)
      BY <3>1 DEF SessionFits, Peers
    <3>2. 0 \in 0 .. MaxCandidates  BY WebRTCFacts
    <3> QED  BY <1>0, <3>1, <3>2
  <2>2. /\ peer' = [peer EXCEPT ![n] = q] /\ inflight' \subseteq inflight
        /\ UNCHANGED <<sessions, pendingCandidates, made, service>>
        /\ offer = [session |-> n, at |-> "remote"]
        /\ offer' = [offer EXCEPT !.at = "flushed"]
    BY <1>9, WebRTCFacts DEF FlushPendingRemoteCandidates
  <2>3. /\ n <= made /\ service = "open" /\ offer.session = n /\ ~IsNew(n)
        /\ offer'.session = n
        /\ offer' \in [session : 0 .. MaxOffers,
              at : {"none", "registered", "remote", "flushed", "source", "answer"}]
    BY <1>4, <1>5, <2>2 DEF IsNew
  <2> HIDE DEF q
  <2> QED  BY <2>1, <2>2, <2>3, SessionMoves
<1>10. CASE StartSource(n)
  <2> DEFINE q == [peer[n] EXCEPT !.lease = "starting"]
             at == IF peer[n].trickle THEN "answer" ELSE "source"
  <2>1. /\ q \in Peers /\ q.id = peer[n].id /\ q.removed = peer[n].removed
        /\ SessionFits(q)
    BY <1>0 DEF SessionFits, Peers
  <2>2. /\ peer' = [peer EXCEPT ![n] = q] /\ inflight' \subseteq inflight
        /\ UNCHANGED <<sessions, pendingCandidates, made, service>>
        /\ offer = [session |-> n, at |-> "flushed"]
        /\ offer' = [offer EXCEPT !.at = at]
    BY <1>10, WebRTCFacts DEF StartSource
  <2>3. /\ n <= made /\ service = "open" /\ offer.session = n /\ ~IsNew(n)
        /\ offer'.session = n
        /\ offer' \in [session : 0 .. MaxOffers,
              at : {"none", "registered", "remote", "flushed", "source", "answer"}]
    BY <1>4, <1>5, <2>2 DEF IsNew
  <2> HIDE DEF q
  <2> QED  BY <2>1, <2>2, <2>3, SessionMoves
<1>11. CASE Answer(n)
  <2>1. /\ peer' = [peer EXCEPT ![n] = peer[n]] /\ inflight' \subseteq inflight
        /\ UNCHANGED <<sessions, pendingCandidates, made, service>>
        /\ offer = [session |-> n, at |-> "answer"] /\ offer' = NoOffer
    BY <1>11, WebRTCFacts DEF Answer
  <2>2. n <= made /\ offer.session = n /\ ~IsNew(n)
    BY <1>5, <2>1 DEF IsNew
  <2>3. offer' \in [session : 0 .. MaxOffers,
              at : {"none", "registered", "remote", "flushed", "source", "answer"}]
    BY <2>1, WebRTCFacts DEF NoOffer
  <2> QED  BY <1>0, <2>1, <2>2, <2>3, SessionMoves
<1>12. CASE SourceStarts(n)
  <2> DEFINE q == [peer[n] EXCEPT !.lease = "acquired"]
  <2>1. /\ q \in Peers /\ q.id = peer[n].id /\ q.removed = peer[n].removed
        /\ SessionFits(q)
    BY <1>0 DEF SessionFits, Peers
  <2>2. peer' = [peer EXCEPT ![n] = q]
    BY <1>12, WebRTCFacts DEF SourceStarts
  <2>3. n <= made /\ ~IsNew(n) /\ offer' = offer /\ inflight' \subseteq inflight
        /\ UNCHANGED <<sessions, pendingCandidates, made, service>>
    BY <1>2, <1>3, <1>12 DEF SourceStarts
  <2> HIDE DEF q
  <2> QED  BY <2>1, <2>2, <2>3, SessionMoves
<1>13. CASE SetLease(n)
  <2> DEFINE q == [peer[n] EXCEPT !.lease = IF MustDrop(n) THEN "dropping" ELSE "held"]
             at == IF MustDrop(n) THEN "none" ELSE "answer"
  <2>1. /\ q \in Peers /\ q.id = peer[n].id /\ q.removed = peer[n].removed
        /\ SessionFits(q)
    BY <1>0 DEF MustDrop, SessionFits, Peers
  <2>2. peer' = [peer EXCEPT ![n] = q]
    BY <1>13, WebRTCFacts DEF SetLease
  <2>3. n <= made /\ ~IsNew(n) /\ inflight' \subseteq inflight
        /\ UNCHANGED <<sessions, pendingCandidates, made, service>>
    BY <1>2, <1>3, <1>13 DEF SetLease
  <2>4. /\ \/ offer' = offer
           \/ service = "open" /\ offer'.session = n
           \/ offer' = NoOffer
        /\ offer # offer' => offer.session = n
        /\ \/ offer' \in [session : 0 .. MaxOffers,
                 at : {"none", "registered", "remote", "flushed", "source", "answer"}]
           \/ offer' = offer
    <3>1. CASE offer = [session |-> n, at |-> "source"]
      <4>1. service = "open" /\ offer.session = n  BY <1>5, <3>1
      <4>2. offer' = IF at = "none" THEN NoOffer ELSE [offer EXCEPT !.at = at]
        BY <1>13, <3>1 DEF SetLease, Awaits
      <4> QED  BY <1>4, <4>1, <4>2
    <3>2. CASE offer # [session |-> n, at |-> "source"]
      BY <1>13, <3>2 DEF SetLease, Awaits
    <3> QED  BY <3>1, <3>2
  <2> HIDE DEF q, at
  <2> QED  BY <2>1, <2>2, <2>3, <2>4, SessionMoves
<1>14. CASE AddCandidateToSession(n)
  <2>0. /\ n <= made /\ offer' = offer /\ inflight' \subseteq inflight
        /\ UNCHANGED <<sessions, pendingCandidates, made, service>>
    BY <1>2, <1>14 DEF AddCandidateToSession
  <2>1. CASE peer[n].remoteSet \/ peer[n].pendingICE = MaxCandidates
    <3>1. peer' = [peer EXCEPT ![n] = peer[n]]
      BY <1>14, <2>1, WebRTCFacts DEF AddCandidateToSession
    <3> QED  BY <1>0, <1>3, <2>0, <3>1, SessionMoves
  <2>2. CASE ~(peer[n].remoteSet \/ peer[n].pendingICE = MaxCandidates)
    <3> DEFINE q == [peer[n] EXCEPT !.pendingICE = @ + 1]
    <3>1. peer[n].pendingICE \in 0 .. MaxCandidates  BY <1>0 DEF Peers
    <3>2. peer[n].pendingICE + 1 \in 0 .. MaxCandidates
      BY <2>2, <3>1, WebRTCFacts
    <3>3. /\ q \in Peers /\ q.id = peer[n].id /\ q.removed = peer[n].removed
          /\ q.lease = peer[n].lease /\ q.remoteSet = peer[n].remoteSet
          /\ SessionFits(q)
      BY <1>0, <2>2, <3>2 DEF SessionFits, Peers
    <3>4. peer' = [peer EXCEPT ![n] = q]
      BY <1>14, <2>2, WebRTCFacts DEF AddCandidateToSession
    <3> HIDE DEF q
    <3> QED  BY <1>3, <2>0, <3>3, <3>4, SessionMoves
  <2> QED  BY <2>1, <2>2
<1> QED
  BY <1>6, <1>7, <1>8, <1>9, <1>10, <1>11, <1>12, <1>13, <1>14

\* The steps that take a session out of the map.
LEMMA RemovalStep ==
    ASSUME WebRTCInv,
           \/ \E id \in SessionIds, how \in Drops : CloseSession(id, how)
           \/ \E n \in Offers : OfferFails(n) \/ SourceFails(n)
    PROVE  WebRTCInv'
<1>1. ASSUME NEW id \in SessionIds, NEW how \in Drops, CloseSession(id, how)
      PROVE  WebRTCInv'
  <2>1. StartupOver(peer)  BY DEF StartupOver
  <2> QED  BY <1>1, <2>1, SessionRemoved DEF CloseSession, RemoveSession
<1>2. ASSUME NEW n \in Offers, OfferFails(n) PROVE WebRTCInv'
  <2>1. "release" \in Drops /\ peer[n].id \in SessionIds  BY WebRTCFacts DEF Drops
  <2>2. ~IsNew(offer.session)  BY <1>2 DEF OfferFails, IsNew
  <2>3. StartupOver(peer)  BY DEF StartupOver
  <2> QED  BY <1>2, <2>1, <2>2, <2>3, SessionRemoved DEF OfferFails, RemoveSession
<1>3. ASSUME NEW n \in Offers, SourceFails(n) PROVE WebRTCInv'
  <2>1. "release" \in Drops /\ peer[n].id \in SessionIds  BY WebRTCFacts DEF Drops
  <2>2. offer' = offer \/ (offer' = NoOffer /\ ~IsNew(offer.session))
    <3>1. offer = [session |-> n, at |-> "source"] => ~IsNew(offer.session)
      BY DEF IsNew
    <3>2. Awaits(n, "none")  BY <1>3 DEF SourceFails
    <3> QED  BY <3>1, <3>2 DEF Awaits
  <2>3. PICK over : /\ peer[n].lease = "starting"
                    /\ over = [peer EXCEPT ![n].lease = "over"]
    BY <1>3 DEF SourceFails
  <2>4. /\ sessions' = [sessions EXCEPT ![peer[n].id] = 0]
        /\ pendingCandidates' = [pendingCandidates EXCEPT ![peer[n].id] = 0]
        /\ peer' = IF sessions[peer[n].id] = 0 THEN over
                   ELSE [over EXCEPT ![sessions[peer[n].id]].removed = TRUE,
                                     ![sessions[peer[n].id]].how = "release"]
        /\ UNCHANGED <<inflight, made, service>>
    BY <1>3, <2>3 DEF SourceFails
  <2>5. StartupOver(over)
    BY <2>3 DEF StartupOver
  <2> DEFINE id == peer[n].id
  <2>6. /\ id \in SessionIds /\ "release" \in Drops
        /\ sessions' = [sessions EXCEPT ![id] = 0]
        /\ pendingCandidates' = [pendingCandidates EXCEPT ![id] = 0]
        /\ peer' = IF sessions[id] = 0 THEN over
                   ELSE [over EXCEPT ![sessions[id]].removed = TRUE,
                                     ![sessions[id]].how = "release"]
    BY <2>1, <2>4
  <2>7. UNCHANGED <<inflight, made, service>>  BY <2>4
  <2> HIDE DEF id
  <2> QED  BY <2>2, <2>5, <2>6, <2>7, SessionRemoved
<1> QED  BY <1>1, <1>2, <1>3

\* The steps that leave the sessions alone.
LEMMA ServiceStep ==
    ASSUME WebRTCInv,
           \/ \E id \in SessionIds : AddICECandidate(id) \/ PrunePendingCandidates(id)
           \/ ShutdownBegins \/ ShutdownEnds \/ UNCHANGED webrtcVars
    PROVE  WebRTCInv'
<1>1. ASSUME NEW id \in SessionIds, AddICECandidate(id) PROVE WebRTCInv'
  <2>1. CASE sessions[id] = 0
    <3>1. pendingCandidates[id] \in 0 .. MaxCandidates  BY WebRTCFacts
    <3> QED  BY <1>1, <2>1, <3>1, WebRTCFacts, CandidatesWait DEF AddICECandidate
  <2>2. CASE sessions[id] # 0
    <3>1. UNCHANGED <<sessions, peer, offer, made, service, pendingCandidates>>
          /\ inflight' = inflight \cup {sessions[id]}
      BY <1>1, <2>2 DEF AddICECandidate
    <3>2. sessions[id] \in Offers /\ sessions[id] \in 1 .. made
      BY <2>2, WebRTCFacts DEF WebRTCInv, Registered
    <3>3. WebRTCType' /\ ServiceStops'
      BY <3>1, <3>2 DEF WebRTCInv, WebRTCType, ServiceStops
    <3>4. \A n \in Offers : SessionFits(peer'[n]) /\ Placed(n)'
      BY <3>1 DEF WebRTCInv, Placed, IsNew
    <3>5. \A i \in SessionIds : Registered(i)'
      BY <3>1 DEF WebRTCInv, Registered
    <3> QED  BY <3>3, <3>4, <3>5 DEF WebRTCInv
  <2> QED  BY <2>1, <2>2
<1>2. ASSUME NEW id \in SessionIds, PrunePendingCandidates(id) PROVE WebRTCInv'
  <2>1. 0 \in 0 .. MaxCandidates  BY WebRTCFacts
  <2> QED  BY <1>2, <2>1, CandidatesWait DEF PrunePendingCandidates
<1>3. ASSUME UNCHANGED <<sessions, pendingCandidates, peer, offer, inflight, made>>,
             ServiceStops', service' \in {"open", "closing", "down"}
      PROVE  WebRTCInv'
  <2>1. WebRTCType'  BY <1>3 DEF WebRTCInv, WebRTCType
  <2>2. \A n \in Offers : SessionFits(peer'[n]) /\ Placed(n)'
    BY <1>3 DEF WebRTCInv, Placed, IsNew
  <2>3. \A i \in SessionIds : Registered(i)'
    BY <1>3 DEF WebRTCInv, Registered
  <2> QED  BY <1>3, <2>1, <2>2, <2>3 DEF WebRTCInv
<1>4. CASE ShutdownBegins \/ ShutdownEnds
  BY <1>3, <1>4 DEF ShutdownBegins, ShutdownEnds, WebRTCInv, ServiceStops
<1>5. CASE UNCHANGED webrtcVars
  BY <1>3, <1>5 DEF webrtcVars, WebRTCInv, WebRTCType, ServiceStops
<1> QED  BY <1>1, <1>2, <1>4, <1>5

\* At whatever moment of its startup a session is closed, the stream it holds
\* goes with it and in the way its close asked for, and no candidate is left
\* where nothing will look for it (webrtc.go: startOfferSource, setLease,
\* closeSessionWith, registerSession): for every number of clients and offers.
THEOREM WebRTCSessionsKeep ==
    WebRTCSpec => [](WebRTCType /\ LeaseFollowsItsSession /\ NoCandidateStranded)
<1>1. WebRTCInv /\ [WebRTCNext]_webrtcVars => WebRTCInv'
  BY OfferBegins, SessionRegisters, SessionStep, RemovalStep, ServiceStep
     DEF WebRTCNext
<1>2. WebRTCInv => WebRTCType  BY DEF WebRTCInv
<1> QED  BY <1>1, <1>2, WebRTCInitInv, WebRTCPromise, PTL DEF WebRTCSpec
-----------------------------------------------------------------------------
(* The RTSP readers *)

\* A session that closed reads nothing and starts nothing, and one whose OnPlay
\* is under way has no reader yet.
SessionsApart ==
    \A s \in Sessions :
        /\ readers[s] # NoReader \/ s \in starting => s \notin gone
        /\ plays[s] # NoPlay => readers[s] = NoReader

\* Two readers share one lease until they are seen not to.
OneLease ==
    ~mixed => \A s, t \in Sessions :
                  NoReader \notin {readers[s], readers[t]} =>
                      readers[s].lease = readers[t].lease

RtspInv == RtspType /\ SessionsApart /\ OneLease /\ StreamHasReader

\* A step that changes the readers finds out whether they mix leases.
LEMMA ReadsShares ==
    ASSUME NEW rs, Reads(rs)
    PROVE  OneLease' /\ mixed' \in BOOLEAN /\ (~mixed' => ~mixed) /\ readers' = rs
BY DEF Reads, OneLease

\* The stream is held by a reader of an open session.
ReadBy(s) == readers[s] # NoReader /\ s \notin gone /\ readers[s].lease = slot
\* The stream is held by an OnPlay that has not returned.
PlayedBy(s) == plays[s].at \in {"starts", "has"} /\ plays[s].lease = slot

\* The promise, session by session.
LEMMA HasReaderCases ==
    StreamHasReader <=>
        (~mixed /\ slot # 0 => \E s \in Sessions : ReadBy(s) \/ PlayedBy(s))
BY DEF StreamHasReader, ReadBy, PlayedBy, Held

\* The same after a step.
LEMMA HasReaderNext ==
    ASSUME ~mixed' /\ slot' # 0 => \E s \in Sessions : (ReadBy(s) \/ PlayedBy(s))'
    PROVE  StreamHasReader'
BY DEF StreamHasReader, ReadBy, PlayedBy, Held

\* The facts about the state that the steps below start from.
LEMMA RtspFacts ==
    ASSUME RtspInv
    PROVE  /\ readers \in [Sessions ->
                  [ep : RtspEntrypoints \cup {"none"}, lease : 0 .. MaxLeases]]
           /\ plays \in [Sessions ->
                  [at : {"none", "asks", "starts", "failed", "has"},
                   ep : RtspEntrypoints \cup {"none"}, lease : 0 .. MaxLeases]]
           /\ slot \in 0 .. MaxLeases /\ leasesMade \in 0 .. MaxLeases
           /\ MaxLeases \in Nat
BY RtspAssumption DEF RtspInv, RtspType

\* Nobody reads at the start.
LEMMA RtspInitInv == RtspInit => RtspInv
<1> SUFFICES ASSUME RtspInit PROVE RtspInv  OBVIOUS
<1>1. RtspType
  <2>1. mixed \in BOOLEAN  BY DEF RtspInit
  <2> QED  BY <2>1, RtspAssumption DEF RtspInit, RtspType, NoReader, NoPlay
<1>2. SessionsApart /\ OneLease /\ StreamHasReader
  BY DEF RtspInit, SessionsApart, OneLease, StreamHasReader
<1> QED  BY <1>1, <1>2 DEF RtspInv

\* OnPlay before Acquire: a reader joins another, or starts.
LEMMA PlayBegins ==
    ASSUME RtspInv, NEW s \in Sessions, NEW e \in RtspEntrypoints,
           JoinReader(s, e) \/ StartReader(s, e)
    PROVE  RtspInv'
<1>0. RtspType /\ SessionsApart /\ OneLease /\ StreamHasReader  BY DEF RtspInv
<1>1. CASE JoinReader(s, e)
  <2>1. PICK r \in Sessions : Reads([readers EXCEPT ![s] = readers[r]])
    BY <1>1 DEF JoinReader, SameEntrypoint, Held
  <2>2. /\ s \notin gone /\ plays[s] = NoPlay /\ readers[s] = NoReader
        /\ UNCHANGED <<starting, plays, gone, slot, leasesMade>>
    BY <1>1 DEF JoinReader
  <2>3. /\ OneLease' /\ mixed' \in BOOLEAN /\ (~mixed' => ~mixed)
        /\ readers' = [readers EXCEPT ![s] = readers[r]]
    BY <2>1, ReadsShares
  <2>4. /\ readers' \in [Sessions ->
                  [ep : RtspEntrypoints \cup {"none"}, lease : 0 .. MaxLeases]]
        /\ \A t \in Sessions \ {s} : readers'[t] = readers[t]
    BY <2>3, RtspFacts
  <2>5. RtspType'
    BY <1>0, <2>2, <2>3, <2>4 DEF RtspType
  <2>6. SessionsApart'
    BY <1>0, <2>2, <2>4 DEF SessionsApart
  <2>7. StreamHasReader'
    <3> SUFFICES ASSUME ~mixed, slot # 0
                 PROVE  \E t \in Sessions : (ReadBy(t) \/ PlayedBy(t))'
      BY <2>2, <2>3, HasReaderNext
    <3>1. PICK t \in Sessions : ReadBy(t) \/ PlayedBy(t)
      BY <1>0, HasReaderCases
    <3>2. (ReadBy(t) \/ PlayedBy(t))'
      BY <2>2, <2>4, <3>1 DEF ReadBy, PlayedBy
    <3> QED  BY <3>2
  <2> QED  BY <2>3, <2>5, <2>6, <2>7 DEF RtspInv
<1>2. CASE StartReader(s, e)
  <2>1. /\ s \notin gone /\ readers[s] = NoReader /\ plays[s] = NoPlay
        /\ starting' = starting \cup {s}
        /\ plays' = [plays EXCEPT ![s] = [at |-> "asks", ep |-> e, lease |-> 0]]
        /\ UNCHANGED <<readers, gone, slot, leasesMade, mixed>>
    BY <1>2 DEF StartReader
  <2>2. plays' \in [Sessions ->
                  [at : {"none", "asks", "starts", "failed", "has"},
                   ep : RtspEntrypoints \cup {"none"}, lease : 0 .. MaxLeases]]
    BY <2>1, RtspFacts
  <2>3. RtspType'  BY <1>0, <2>1, <2>2 DEF RtspType
  <2>4. SessionsApart' /\ OneLease'
    BY <1>0, <2>1, RtspFacts DEF SessionsApart, OneLease
  <2>5. StreamHasReader'
    <3> SUFFICES ASSUME ~mixed, slot # 0
                 PROVE  \E t \in Sessions : (ReadBy(t) \/ PlayedBy(t))'
      BY <2>1, HasReaderNext
    <3>1. PICK t \in Sessions : ReadBy(t) \/ PlayedBy(t)
      BY <1>0, HasReaderCases
    <3>2. (ReadBy(t) \/ PlayedBy(t))'
      BY <2>1, <3>1, RtspFacts DEF ReadBy, PlayedBy, NoPlay
    <3> QED  BY <3>2
  <2> QED  BY <2>3, <2>4, <2>5 DEF RtspInv
<1> QED  BY <1>1, <1>2

\* Acquire and the source's start, in the coordinator.
LEMMA PlayAdvances ==
    ASSUME RtspInv, NEW s \in Sessions, Acquires(s) \/ Starts(s)
    PROVE  RtspInv'
<1>0. RtspType /\ SessionsApart /\ OneLease /\ StreamHasReader  BY DEF RtspInv
<1>1. ASSUME NEW q \in [at : {"none", "asks", "starts", "failed", "has"},
                   ep : RtspEntrypoints \cup {"none"}, lease : 0 .. MaxLeases],
             plays' = [plays EXCEPT ![s] = q], plays[s] # NoPlay,
             UNCHANGED <<readers, starting, gone, mixed>>,
             slot' \in 0 .. MaxLeases, leasesMade' \in 0 .. MaxLeases,
             slot' = 0 \/ (slot' = slot /\ ~PlayedBy(s)) \/ PlayedBy(s)'
      PROVE  RtspInv'
  <2>1. /\ plays' \in [Sessions ->
                  [at : {"none", "asks", "starts", "failed", "has"},
                   ep : RtspEntrypoints \cup {"none"}, lease : 0 .. MaxLeases]]
        /\ \A t \in Sessions \ {s} : plays'[t] = plays[t]
    BY <1>1, RtspFacts
  <2>2. RtspType'  BY <1>0, <1>1, <2>1 DEF RtspType
  <2>3. SessionsApart' /\ OneLease'
    BY <1>0, <1>1, <2>1 DEF SessionsApart, OneLease
  <2>4. StreamHasReader'
    <3> SUFFICES ASSUME ~mixed, slot' # 0
                 PROVE  \E t \in Sessions : (ReadBy(t) \/ PlayedBy(t))'
      BY <1>1, HasReaderNext
    <3>1. CASE PlayedBy(s)'  BY <3>1
    <3>2. CASE slot' = slot /\ ~PlayedBy(s)
      <4>1. PICK t \in Sessions : ReadBy(t) \/ PlayedBy(t)
        BY <1>0, <3>2, HasReaderCases
      <4>2. (ReadBy(t) \/ PlayedBy(t))'
        BY <1>1, <2>1, <3>2, <4>1 DEF ReadBy, PlayedBy
      <4> QED  BY <4>2
    <3> QED  BY <1>1, <3>1, <3>2
  <2> QED  BY <2>2, <2>3, <2>4 DEF RtspInv
<1>2. plays[s] \in [at : {"none", "asks", "starts", "failed", "has"},
                   ep : RtspEntrypoints \cup {"none"}, lease : 0 .. MaxLeases]
  BY RtspFacts
<1>3. ASSUME NEW a \in {"starts", "failed", "has"}, NEW l \in 0 .. MaxLeases
      PROVE  [plays[s] EXCEPT !.at = a, !.lease = l]
               \in [at : {"none", "asks", "starts", "failed", "has"},
                   ep : RtspEntrypoints \cup {"none"}, lease : 0 .. MaxLeases]
  BY <1>2
<1>4. CASE Acquires(s)
  <2>1. plays[s].at = "asks" /\ UNCHANGED <<readers, starting, gone, mixed>>
    BY <1>4 DEF Acquires
  <2>2. plays[s] # NoPlay /\ ~PlayedBy(s)  BY <2>1 DEF NoPlay, PlayedBy
  <2>3. CASE /\ slot = 0 /\ leasesMade < MaxLeases
             /\ leasesMade' = leasesMade + 1 /\ slot' = leasesMade + 1
             /\ plays' = [plays EXCEPT ![s].at = "starts", ![s].lease = leasesMade + 1]
    <3> DEFINE q == [plays[s] EXCEPT !.at = "starts", !.lease = leasesMade + 1]
    <3>0. leasesMade + 1 \in 0 .. MaxLeases
      BY <2>3, RtspFacts
    <3>1. leasesMade + 1 \in 0 .. MaxLeases /\ plays' = [plays EXCEPT ![s] = q]
      BY <2>3, <3>0, RtspFacts
    <3>2. q \in [at : {"none", "asks", "starts", "failed", "has"},
                   ep : RtspEntrypoints \cup {"none"}, lease : 0 .. MaxLeases]
      BY <1>3, <3>1
    <3>3. q.at = "starts" /\ q.lease = leasesMade + 1  BY <1>2
    <3> HIDE DEF q
    <3>4. PlayedBy(s)'  BY <2>3, <3>1, <3>3, RtspFacts DEF PlayedBy
    <3> QED  BY <1>1, <2>1, <2>2, <2>3, <3>1, <3>2, <3>4
  <2>4. CASE /\ plays' = [plays EXCEPT ![s].at = "failed"]
             /\ UNCHANGED <<slot, leasesMade>>
    <3> DEFINE q == [plays[s] EXCEPT !.at = "failed"]
    <3>1. plays' = [plays EXCEPT ![s] = q]  BY <2>4, RtspFacts
    <3>2. q \in [at : {"none", "asks", "starts", "failed", "has"},
                   ep : RtspEntrypoints \cup {"none"}, lease : 0 .. MaxLeases]
      BY <1>2
    <3> HIDE DEF q
    <3> QED  BY <1>1, <2>1, <2>2, <2>4, <3>1, <3>2, RtspFacts
  <2> QED  BY <1>4, <2>3, <2>4 DEF Acquires
<1>5. CASE Starts(s)
  <2>1. /\ plays[s].at = "starts" /\ UNCHANGED <<readers, starting, gone, leasesMade, mixed>>
    BY <1>5 DEF Starts
  <2>2. plays[s] # NoPlay  BY <2>1 DEF NoPlay
  <2>3. CASE /\ slot = plays[s].lease /\ slot' = slot
             /\ plays' = [plays EXCEPT ![s].at = "has"]
    <3> DEFINE q == [plays[s] EXCEPT !.at = "has"]
    <3>1. plays' = [plays EXCEPT ![s] = q]  BY <2>3, RtspFacts
    <3>2. /\ q \in [at : {"none", "asks", "starts", "failed", "has"},
                   ep : RtspEntrypoints \cup {"none"}, lease : 0 .. MaxLeases]
          /\ q.at = "has" /\ q.lease = plays[s].lease
      BY <1>2
    <3> HIDE DEF q
    <3>3. PlayedBy(s)'  BY <2>3, <3>1, <3>2, RtspFacts DEF PlayedBy
    <3> QED  BY <1>1, <2>1, <2>2, <2>3, <3>1, <3>2, <3>3, RtspFacts
  <2>4. CASE /\ plays' = [plays EXCEPT ![s].at = "failed", ![s].lease = 0]
             /\ slot' = IF slot = plays[s].lease THEN 0 ELSE slot
    <3> DEFINE q == [plays[s] EXCEPT !.at = "failed", !.lease = 0]
    <3>1. plays' = [plays EXCEPT ![s] = q]  BY <2>4, RtspFacts
    <3>2. 0 \in 0 .. MaxLeases  BY RtspFacts
    <3>3. q \in [at : {"none", "asks", "starts", "failed", "has"},
                   ep : RtspEntrypoints \cup {"none"}, lease : 0 .. MaxLeases]
      BY <1>3, <3>2
    <3>4. slot' = 0 \/ (slot' = slot /\ ~PlayedBy(s))
      BY <2>4 DEF PlayedBy
    <3>5. slot' \in 0 .. MaxLeases  BY <2>4, <3>2, RtspFacts
    <3> HIDE DEF q
    <3> QED  BY <1>1, <2>1, <2>2, <3>1, <3>3, <3>4, <3>5, RtspFacts
  <2> QED  BY <1>5, <2>3, <2>4 DEF Starts
<1> QED  BY <1>4, <1>5
\* The rest of OnPlay, which looks at s.starting again.
LEMMA PlayEnds ==
    ASSUME RtspInv, NEW s \in Sessions, PlayReturns(s)
    PROVE  RtspInv'
<1>0. RtspType /\ SessionsApart /\ OneLease /\ StreamHasReader  BY DEF RtspInv
<1>1. /\ plays[s].at \in {"failed", "has"} /\ starting' = starting \ {s}
      /\ plays' = [plays EXCEPT ![s] = NoPlay] /\ UNCHANGED <<gone, leasesMade>>
  BY DEF PlayReturns
<1>2. plays[s] # NoPlay /\ readers[s] = NoReader
  BY <1>0, <1>1 DEF SessionsApart, NoPlay
<1>3. NoPlay \in [at : {"none", "asks", "starts", "failed", "has"},
                   ep : RtspEntrypoints \cup {"none"}, lease : 0 .. MaxLeases]
  BY RtspFacts DEF NoPlay
<1>4. /\ plays' \in [Sessions ->
                  [at : {"none", "asks", "starts", "failed", "has"},
                   ep : RtspEntrypoints \cup {"none"}, lease : 0 .. MaxLeases]]
      /\ plays'[s] = NoPlay /\ \A t \in Sessions \ {s} : plays'[t] = plays[t]
  BY <1>1, <1>3, RtspFacts
<1>5. ASSUME UNCHANGED <<readers, mixed>>, slot' \in {0, slot},
             slot' = 0 \/ ~PlayedBy(s)
      PROVE  RtspInv'
  <2>1. slot' \in 0 .. MaxLeases  BY <1>5, RtspFacts
  <2>2. RtspType'  BY <1>0, <1>1, <1>4, <1>5, <2>1 DEF RtspType
  <2>3. SessionsApart' /\ OneLease'
    BY <1>0, <1>1, <1>4, <1>5 DEF SessionsApart, OneLease
  <2>4. StreamHasReader'
    <3> SUFFICES ASSUME ~mixed, slot' # 0
                 PROVE  \E t \in Sessions : (ReadBy(t) \/ PlayedBy(t))'
      BY <1>5, HasReaderNext
    <3>1. PICK t \in Sessions : ReadBy(t) \/ PlayedBy(t)
      BY <1>0, <1>5, HasReaderCases
    <3>2. (ReadBy(t) \/ PlayedBy(t))'
      BY <1>1, <1>4, <1>5, <3>1 DEF ReadBy, PlayedBy
    <3> QED  BY <3>2
  <2> QED  BY <2>2, <2>3, <2>4 DEF RtspInv
<1>6. CASE plays[s].at = "failed"
  <2>1. UNCHANGED <<readers, slot, mixed>>  BY <1>6 DEF PlayReturns
  <2>2. ~PlayedBy(s)  BY <1>6 DEF PlayedBy
  <2> QED  BY <1>5, <2>1, <2>2
<1>7. CASE plays[s].at = "has" /\ s \notin starting
  <2>1. slot' = SlotWithout(plays[s].lease) /\ UNCHANGED <<readers, mixed>>
    BY <1>7 DEF PlayReturns, StillStarting
  <2> QED  BY <1>5, <2>1 DEF SlotWithout, PlayedBy
<1>8. CASE plays[s].at = "has" /\ s \in starting
  <2> DEFINE q == [ep |-> plays[s].ep, lease |-> plays[s].lease]
  <2>1. Reads([readers EXCEPT ![s] = q]) /\ slot' = slot
    BY <1>8 DEF PlayReturns, StillStarting
  <2>2. /\ OneLease' /\ mixed' \in BOOLEAN /\ (~mixed' => ~mixed)
        /\ readers' = [readers EXCEPT ![s] = q]
    BY <2>1, ReadsShares
  <2>3. q \in [ep : RtspEntrypoints \cup {"none"}, lease : 0 .. MaxLeases]
        /\ q.lease = plays[s].lease
    BY RtspFacts
  <2>4. s \notin gone  BY <1>0, <1>8 DEF SessionsApart
  <2> HIDE DEF q
  <2>5. /\ readers' \in [Sessions ->
                  [ep : RtspEntrypoints \cup {"none"}, lease : 0 .. MaxLeases]]
        /\ readers'[s] = q /\ \A t \in Sessions \ {s} : readers'[t] = readers[t]
    BY <2>2, <2>3, RtspFacts
  <2>6. RtspType'
    BY <1>0, <1>1, <1>4, <2>1, <2>2, <2>5 DEF RtspType
  <2>7. SessionsApart'
    BY <1>0, <1>1, <1>4, <2>4, <2>5 DEF SessionsApart
  <2>8. StreamHasReader'
    <3> SUFFICES ASSUME ~mixed, slot # 0
                 PROVE  \E t \in Sessions : (ReadBy(t) \/ PlayedBy(t))'
      BY <2>1, <2>2, HasReaderNext
    <3>1. PICK t \in Sessions : ReadBy(t) \/ PlayedBy(t)
      BY <1>0, HasReaderCases
    <3>2. CASE t # s
      BY <1>1, <1>4, <2>1, <2>5, <3>1, <3>2 DEF ReadBy, PlayedBy
    <3>3. CASE t = s
      <4>1. plays[s].lease = slot  BY <1>2, <3>1, <3>3 DEF ReadBy, PlayedBy
      <4>2. q # NoReader  BY <2>3, <4>1 DEF NoReader
      <4>3. ReadBy(s)'  BY <1>1, <2>1, <2>3, <2>4, <2>5, <4>1, <4>2 DEF ReadBy
      <4> QED  BY <4>3
    <3> QED  BY <3>2, <3>3
  <2> QED  BY <2>2, <2>6, <2>7, <2>8 DEF RtspInv
<1> QED  BY <1>1, <1>6, <1>7, <1>8

\* A session closes, or the server does.
LEMMA ReadersClose ==
    ASSUME RtspInv, (\E s \in Sessions : SessionCloses(s)) \/ CloseServer
    PROVE  RtspInv'
<1>0. RtspType /\ SessionsApart /\ OneLease /\ StreamHasReader  BY DEF RtspInv
<1>1. NoReader \in [ep : RtspEntrypoints \cup {"none"}, lease : 0 .. MaxLeases]
  BY RtspFacts DEF NoReader
<1>2. ASSUME NEW s \in Sessions, SessionCloses(s) PROVE RtspInv'
  <2>1. /\ gone' = gone \cup {s} /\ starting' = starting \ {s}
        /\ Reads([readers EXCEPT ![s] = NoReader])
        /\ slot' = IF readers[s] # NoReader /\ LastReader(s)
                   THEN SlotWithout(readers[s].lease) ELSE slot
        /\ UNCHANGED <<plays, leasesMade>>
    BY <1>2 DEF SessionCloses
  <2>2. /\ OneLease' /\ mixed' \in BOOLEAN /\ (~mixed' => ~mixed)
        /\ readers' = [readers EXCEPT ![s] = NoReader]
    BY <2>1, ReadsShares
  <2>3. /\ readers' \in [Sessions ->
                  [ep : RtspEntrypoints \cup {"none"}, lease : 0 .. MaxLeases]]
        /\ readers'[s] = NoReader /\ \A t \in Sessions \ {s} : readers'[t] = readers[t]
    BY <1>1, <2>2, RtspFacts
  <2>4. slot' \in {0, slot} /\ slot' \in 0 .. MaxLeases
    BY <2>1, RtspFacts DEF SlotWithout
  <2>5. RtspType'
    BY <1>0, <2>1, <2>2, <2>3, <2>4 DEF RtspType
  <2>6. SessionsApart'
    BY <1>0, <2>1, <2>3 DEF SessionsApart
  <2>7. StreamHasReader'
    <3> SUFFICES ASSUME ~mixed, slot' # 0
                 PROVE  \E t \in Sessions : (ReadBy(t) \/ PlayedBy(t))'
      BY <2>2, HasReaderNext
    <3>0. slot' = slot /\ slot # 0  BY <2>4
    <3>1. PICK t \in Sessions : ReadBy(t) \/ PlayedBy(t)
      BY <1>0, <3>0, HasReaderCases
    <3>2. CASE PlayedBy(t)
      <4>1. PlayedBy(t)'  BY <2>1, <3>0, <3>2 DEF PlayedBy
      <4> QED  BY <4>1
    <3>3. CASE ReadBy(t) /\ t # s
      <4>1. ReadBy(t)'  BY <2>1, <2>3, <3>0, <3>3 DEF ReadBy
      <4> QED  BY <4>1
    <3>4. CASE ReadBy(t) /\ t = s
      <4>1. readers[s] # NoReader /\ readers[s].lease = slot  BY <3>4 DEF ReadBy
      <4>2. ~LastReader(s)  BY <2>1, <3>0, <4>1 DEF SlotWithout
      <4>3. PICK r \in Sessions \ {s} : readers[r] # NoReader
        BY <4>1, <4>2 DEF LastReader, Held
      <4>4. readers[r].lease = slot /\ r \notin gone
        BY <1>0, <4>1, <4>3 DEF OneLease, SessionsApart
      <4>5. ReadBy(r)'  BY <2>1, <2>3, <3>0, <4>3, <4>4 DEF ReadBy
      <4> QED  BY <4>5
    <3> QED  BY <3>1, <3>2, <3>3, <3>4
  <2> QED  BY <2>2, <2>5, <2>6, <2>7 DEF RtspInv
<1>3. ASSUME CloseServer PROVE RtspInv'
  <2>1. /\ Reads([s \in Sessions |-> NoReader]) /\ starting' = {}
        /\ slot' = IF slot \in {readers[s].lease : s \in Held} THEN 0 ELSE slot
        /\ UNCHANGED <<plays, gone, leasesMade>>
    BY <1>3 DEF CloseServer
  <2>2. /\ OneLease' /\ mixed' \in BOOLEAN /\ (~mixed' => ~mixed)
        /\ readers' = [s \in Sessions |-> NoReader]
    BY <2>1, ReadsShares
  <2>3. slot' \in {0, slot} /\ slot' \in 0 .. MaxLeases
    BY <2>1, RtspFacts
  <2>4. readers' \in [Sessions ->
                  [ep : RtspEntrypoints \cup {"none"}, lease : 0 .. MaxLeases]]
    BY <1>1, <2>2
  <2>5. RtspType'
    BY <1>0, <2>1, <2>2, <2>3, <2>4 DEF RtspType
  <2>6. SessionsApart'
    BY <1>0, <2>1, <2>2 DEF SessionsApart
  <2>7. StreamHasReader'
    <3> SUFFICES ASSUME ~mixed, slot' # 0
                 PROVE  \E t \in Sessions : (ReadBy(t) \/ PlayedBy(t))'
      BY <2>2, HasReaderNext
    <3>0. slot' = slot /\ slot # 0  BY <2>3
    <3>1. PICK t \in Sessions : ReadBy(t) \/ PlayedBy(t)
      BY <1>0, <3>0, HasReaderCases
    <3>2. ~ReadBy(t)  BY <2>1, <3>0 DEF ReadBy, Held
    <3>3. PlayedBy(t)'  BY <2>1, <3>0, <3>1, <3>2 DEF PlayedBy
    <3> QED  BY <3>3
  <2> QED  BY <2>2, <2>5, <2>6, <2>7 DEF RtspInv
<1> QED  BY <1>2, <1>3

\* The intercom is never left streaming to nobody: whatever closes while an
\* OnPlay waits for Acquire, a live stream has a reader of an open session or an
\* OnPlay that will install or release it, as long as the readers hold one lease
\* between them (rtsp_server.go: OnPlay, OnSessionClose, Close): for every number of
\* sessions, entrypoints and leases.
THEOREM RtspStreamRead == RtspSpec => [](RtspType /\ StreamHasReader)
<1>1. RtspInv /\ [RtspNext]_rtspVars => RtspInv'
  <2> SUFFICES ASSUME RtspInv, [RtspNext]_rtspVars PROVE RtspInv'
    OBVIOUS
  <2>1. CASE StreamIsLost
    <3>1. /\ slot' = 0 /\ UNCHANGED <<readers, starting, plays, gone, leasesMade, mixed>>
          /\ slot' \in 0 .. MaxLeases
      BY <2>1, RtspFacts DEF StreamIsLost
    <3> QED  BY <3>1 DEF RtspInv, RtspType, SessionsApart, OneLease, StreamHasReader
  <2>2. CASE UNCHANGED rtspVars
    BY <2>2 DEF rtspVars, RtspInv, RtspType, SessionsApart, OneLease, StreamHasReader, Held
  <2> QED
    BY <2>1, <2>2, PlayBegins, PlayAdvances, PlayEnds, ReadersClose DEF RtspNext
<1>2. RtspInv => RtspType /\ StreamHasReader  BY DEF RtspInv
<1> QED  BY <1>1, <1>2, RtspInitInv, PTL DEF RtspSpec
-----------------------------------------------------------------------------
(* The snapshots *)

CaptureStates ==
    [at : {"none", "armed", "running", "over"}, cancelled : BOOLEAN,
     ring : BOOLEAN, decoders : 0 .. MaxDecoders, fed : BOOLEAN, ready : BOOLEAN]

\* A capture writes once it is over, and the captures begin in order.
CapturesInOrder ==
    \A a \in Captures : /\ persisting[a] # {} => capture[a].at = "over"
                        /\ a > armed => capture[a].at = "none"

\* The picture in the writer's hands is the newest of its path, or another
\* goroutine has that path still to write.
WriterInOrder ==
    writer.picture # 0 =>
        /\ writer.capture # 0 /\ writer.path \in persisting[writer.capture]
        /\ \/ writer.picture = pictures[writer.path]
           \/ \E b \in Captures \ {writer.capture} : writer.path \in persisting[b]

\* A picture published is in its file, or on its way there, or was lost.
PicturesOnTheWay ==
    \A p \in Paths : pictures[p] # 0 =>
        \/ p \in unsaved \/ snapFile[p] = pictures[p]
        \/ \E a \in Captures : p \in persisting[a]

SnapshotInv == SnapshotType /\ CapturesInOrder /\ WriterInOrder /\ PicturesOnTheWay

\* The facts about the state that the steps below start from.
LEMMA SnapshotFacts ==
    ASSUME SnapshotInv
    PROVE  /\ capture \in [Captures -> CaptureStates]
           /\ armed \in 0 .. MaxCaptures /\ current \in 0 .. MaxCaptures
           /\ pictures \in [Paths -> 0 .. MaxCaptures]
           /\ snapFile \in [Paths -> 0 .. MaxCaptures]
           /\ persisting \in [Captures -> SUBSET Paths]
           /\ writer \in [capture : 0 .. MaxCaptures, path : Paths,
                          picture : 0 .. MaxCaptures]
           /\ unsaved \subseteq Paths
           /\ MaxCaptures \in Nat /\ MaxDecoders \in Nat /\ MaxDecoders > 0
           /\ Captures = 1 .. MaxCaptures
BY SnapshotAssumption DEF SnapshotInv, SnapshotType, CaptureStates, Captures

\* A capture that was never armed has its type.
LEMMA NewCaptureFits == NewCapture \in CaptureStates
<1>1. ASSUME NEW t \in BOOLEAN
      PROVE  [at |-> "none", cancelled |-> t, ring |-> t, decoders |-> 0,
              fed |-> t, ready |-> t] \in CaptureStates
  BY <1>1, SnapshotAssumption DEF CaptureStates
<1> QED  BY <1>1 DEF NewCapture

\* Nothing is armed at the start.
LEMMA SnapshotInitInv == SnapshotInit => SnapshotInv
<1> SUFFICES ASSUME SnapshotInit PROVE SnapshotInv  OBVIOUS
<1>1. NewCapture \in CaptureStates  BY NewCaptureFits
<1>2. SnapshotType
  <2>1. capture \in [Captures -> CaptureStates]  BY <1>1 DEF SnapshotInit
  <2>2. NoWriter \in [capture : 0 .. MaxCaptures, path : Paths, picture : 0 .. MaxCaptures]
    BY SnapshotAssumption DEF NoWriter, Paths
  <2> QED
    BY <2>1, <2>2, SnapshotAssumption DEF SnapshotInit, SnapshotType, CaptureStates
<1>3. CapturesInOrder /\ WriterInOrder /\ PicturesOnTheWay
  BY DEF SnapshotInit, CapturesInOrder, WriterInOrder, PicturesOnTheWay, NewCapture,
         NoWriter
<1> QED  BY <1>2, <1>3 DEF SnapshotInv

\* A step of the captures that publishes and writes nothing.
LEMMA CapturesMove ==
    ASSUME SnapshotInv, capture' \in [Captures -> CaptureStates],
           armed' \in 0 .. MaxCaptures, current' \in 0 .. MaxCaptures,
           \A a \in Captures : /\ capture[a].at = "over" => capture'[a].at = "over"
                               /\ a > armed' => capture'[a].at = "none",
           UNCHANGED <<pictures, snapFile, persisting, writer, unsaved>>
    PROVE  SnapshotInv'
<1>1. SnapshotType'
  BY DEF SnapshotInv, SnapshotType, CaptureStates
<1>2. CapturesInOrder' /\ WriterInOrder' /\ PicturesOnTheWay'
  BY DEF SnapshotInv, CapturesInOrder, WriterInOrder, PicturesOnTheWay
<1> QED  BY <1>1, <1>2 DEF SnapshotInv

\* What a step makes of one capture, and what is left of the others.
LEMMA CaptureMoves ==
    ASSUME SnapshotInv, NEW a \in Captures, NEW q \in CaptureStates,
           capture' = [capture EXCEPT ![a] = q],
           capture[a].at \in {"armed", "running"},
           armed' = armed, current' \in {0, current},
           UNCHANGED <<pictures, snapFile, persisting, writer, unsaved>>
    PROVE  SnapshotInv'
<1>1. capture' \in [Captures -> CaptureStates] /\ current' \in 0 .. MaxCaptures
  BY SnapshotFacts
<1>2. \A b \in Captures \ {a} : capture'[b] = capture[b]
  BY SnapshotFacts
<1>3. \A b \in Captures : b > armed => capture[b].at = "none"
  BY DEF SnapshotInv, CapturesInOrder
<1>4. \A b \in Captures : /\ capture[b].at = "over" => capture'[b].at = "over"
                          /\ b > armed' => capture'[b].at = "none"
  BY <1>2, <1>3
<1>5. armed' \in 0 .. MaxCaptures  BY SnapshotFacts
<1> QED  BY <1>1, <1>4, <1>5, CapturesMove

\* The steps of one capture before it publishes.
LEMMA CaptureStep ==
    ASSUME SnapshotInv, NEW a \in Captures,
           \/ StartCapture(a) \/ CloseCapture(a) \/ FeedDecoder(a)
           \/ DecoderWrites(a) \/ DecoderExits(a) \/ CaptureEnds(a)
    PROVE  SnapshotInv'
<1>0. capture[a] \in CaptureStates /\ capture \in [Captures -> CaptureStates]
  BY SnapshotFacts
<1>1. capture[a].at \in {"armed", "running"} /\ current' \in {0, current} /\ armed' = armed
      /\ UNCHANGED <<pictures, snapFile, persisting, writer, unsaved>>
  BY DEF StartCapture, CloseCapture, FeedDecoder, DecoderWrites, DecoderExits,
         CaptureEnds, Running, Over, Forgets
<1>2. ASSUME NEW q \in CaptureStates, capture' = [capture EXCEPT ![a] = q]
      PROVE  SnapshotInv'
  BY <1>1, <1>2, CaptureMoves
<1>3. ASSUME NEW x \in {"armed", "running", "over"}
      PROVE  [capture[a] EXCEPT !.at = x] \in CaptureStates
  BY <1>0 DEF CaptureStates
<1>4. CASE capture' = [capture EXCEPT ![a].at = "over"]
  <2>1. capture' = [capture EXCEPT ![a] = [capture[a] EXCEPT !.at = "over"]]
    BY <1>0, <1>4
  <2> QED  BY <1>2, <1>3, <2>1
<1>5. CASE StartCapture(a)
  <2>1. CASE capture' = [capture EXCEPT ![a].at = "running", ![a].decoders = 1]
    <3> DEFINE q == [capture[a] EXCEPT !.at = "running", !.decoders = 1]
    <3>1. 1 \in 0 .. MaxDecoders  BY SnapshotFacts
    <3>2. q \in CaptureStates  BY <1>0, <3>1 DEF CaptureStates
    <3>3. capture' = [capture EXCEPT ![a] = q]  BY <1>0, <2>1
    <3> HIDE DEF q
    <3> QED  BY <1>2, <3>2, <3>3
  <2> QED  BY <1>4, <1>5, <2>1 DEF StartCapture
<1>6. CASE CloseCapture(a)
  <2> DEFINE q == [capture[a] EXCEPT !.cancelled = TRUE,
                                     !.at = IF @ = "armed" THEN "over" ELSE @]
  <2>1. q \in CaptureStates
    BY <1>0 DEF CaptureStates
  <2>2. capture' = [capture EXCEPT ![a] = q]
    BY <1>0, <1>6 DEF CloseCapture, ClosedCapture
  <2> HIDE DEF q
  <2> QED  BY <1>2, <2>1, <2>2
<1>7. CASE FeedDecoder(a)
  <2> DEFINE q == [capture[a] EXCEPT !.fed = TRUE]
  <2>1. q \in CaptureStates  BY <1>0 DEF CaptureStates
  <2>2. capture' = [capture EXCEPT ![a] = q]  BY <1>0, <1>7 DEF FeedDecoder
  <2> HIDE DEF q
  <2> QED  BY <1>2, <2>1, <2>2
<1>8. CASE DecoderWrites(a)
  <2> DEFINE q == [capture[a] EXCEPT !.ready = TRUE]
  <2>1. q \in CaptureStates  BY <1>0 DEF CaptureStates
  <2>2. capture' = [capture EXCEPT ![a] = q]  BY <1>0, <1>8 DEF DecoderWrites
  <2> HIDE DEF q
  <2> QED  BY <1>2, <2>1, <2>2
<1>9. CASE DecoderExits(a)
  <2>1. CASE /\ capture[a].decoders < MaxDecoders
             /\ capture' = [capture EXCEPT ![a].decoders = @ + 1, ![a].fed = FALSE]
    <3> DEFINE q == [capture[a] EXCEPT !.decoders = @ + 1, !.fed = FALSE]
    <3>1. capture[a].decoders \in 0 .. MaxDecoders  BY <1>0 DEF CaptureStates
    <3>2. capture[a].decoders + 1 \in 0 .. MaxDecoders  BY <2>1, <3>1, SnapshotFacts
    <3>3. ASSUME NEW d \in 0 .. MaxDecoders, NEW f \in BOOLEAN
          PROVE  [capture[a] EXCEPT !.decoders = d, !.fed = f] \in CaptureStates
      BY <1>0 DEF CaptureStates
    <3>4. q \in CaptureStates  BY <3>2, <3>3
    <3>5. capture' = [capture EXCEPT ![a] = q]  BY <1>0, <2>1
    <3> HIDE DEF q
    <3> QED  BY <1>2, <3>4, <3>5
  <2> QED  BY <1>4, <1>9, <2>1 DEF DecoderExits, Over
<1>10. CASE CaptureEnds(a)
  BY <1>4, <1>10 DEF CaptureEnds, Over
<1> QED  BY <1>5, <1>6, <1>7, <1>8, <1>9, <1>10

\* A source arms a capture and closes the one before it.
LEMMA ArmStep ==
    ASSUME SnapshotInv, NEW ring \in BOOLEAN, Arm(ring)
    PROVE  SnapshotInv'
<1> DEFINE before == IF current = 0 THEN capture ELSE ClosedCapture(current)
           n == armed + 1
<1>0. /\ n \in Captures /\ armed' = n /\ current' = n /\ armed' \in 0 .. MaxCaptures
      /\ UNCHANGED <<pictures, snapFile, persisting, writer, unsaved>>
      /\ capture' = [before EXCEPT ![n].at = "armed", ![n].ring = ring]
  BY SnapshotFacts DEF Arm
<1>1. \A a \in Captures : a > armed => capture[a].at = "none"
  BY DEF SnapshotInv, CapturesInOrder
<1>2. /\ before \in [Captures -> CaptureStates]
      /\ \A a \in Captures : \/ before[a].at = capture[a].at
                             \/ capture[a].at = "armed"
  <2>1. CASE current = 0  BY <2>1, SnapshotFacts
  <2>2. CASE current # 0
    <3> DEFINE q == [capture[current] EXCEPT !.cancelled = TRUE,
                                     !.at = IF @ = "armed" THEN "over" ELSE @]
    <3>0. current \in Captures /\ capture[current] \in CaptureStates
      BY <2>2, SnapshotFacts
    <3>1. q \in CaptureStates /\ (q.at = capture[current].at \/ capture[current].at = "armed")
      BY <3>0 DEF CaptureStates
    <3>2. before = [capture EXCEPT ![current] = q]
      BY <2>2, <3>0, SnapshotFacts DEF ClosedCapture
    <3> HIDE DEF q, before
    <3> QED  BY <3>0, <3>1, <3>2, SnapshotFacts
  <2> QED  BY <2>1, <2>2
<1> HIDE DEF before
<1>3. [before[n] EXCEPT !.at = "armed", !.ring = ring] \in CaptureStates
  <2>1. before[n] \in CaptureStates  BY <1>0, <1>2
  <2> QED  BY <2>1 DEF CaptureStates
<1>4. /\ capture' \in [Captures -> CaptureStates]
      /\ \A a \in Captures \ {n} : capture'[a] = before[a]
  BY <1>0, <1>2, <1>3
<1>5. capture[n].at = "none"  BY <1>0, <1>1, SnapshotFacts
<1>6. \A a \in Captures : /\ capture[a].at = "over" => capture'[a].at = "over"
                          /\ a > armed' => capture'[a].at = "none"
  <2> SUFFICES ASSUME NEW a \in Captures
               PROVE  /\ capture[a].at = "over" => capture'[a].at = "over"
                      /\ a > armed' => capture'[a].at = "none"
    OBVIOUS
  <2>1. CASE a = n  BY <1>0, <1>5, <2>1, SnapshotFacts
  <2>2. CASE a # n
    <3>1. capture'[a] = before[a] /\ (a > armed' => a > armed)
      BY <1>0, <1>4, <2>2, SnapshotFacts
    <3> QED  BY <1>1, <1>2, <3>1
  <2> QED  BY <2>1, <2>2
<1>7. current' \in 0 .. MaxCaptures  BY <1>0
<1> QED  BY <1>0, <1>4, <1>6, <1>7, CapturesMove

\* publish: the picture is in memory, and its paths are to be written.
LEMMA PublishStep ==
    ASSUME SnapshotInv, NEW a \in Captures, PublishPicture(a)
    PROVE  SnapshotInv'
<1>0. /\ SnapshotType /\ CapturesInOrder /\ WriterInOrder /\ PicturesOnTheWay
      /\ capture[a] \in CaptureStates
  BY SnapshotFacts DEF SnapshotInv
<1>1. /\ capture[a].at = "running" /\ UNCHANGED <<armed, snapFile, writer, unsaved>>
      /\ capture' = [capture EXCEPT ![a].at = "over"] /\ current' \in {0, current}
  BY DEF PublishPicture, Running, Over, Forgets
<1>2. persisting[a] = {} /\ ~(a > armed)
  BY <1>0, <1>1 DEF CapturesInOrder
<1>3. /\ capture' \in [Captures -> CaptureStates] /\ capture'[a].at = "over"
      /\ \A b \in Captures \ {a} : capture'[b] = capture[b]
  <2>1. [capture[a] EXCEPT !.at = "over"] \in CaptureStates  BY <1>0 DEF CaptureStates
  <2> QED  BY <1>1, <2>1, SnapshotFacts
<1>4. current' \in 0 .. MaxCaptures  BY <1>1, SnapshotFacts
<1>5. PICK P \in SUBSET Paths :
          /\ pictures' = [p \in Paths |-> IF p \in P THEN a ELSE pictures[p]]
          /\ persisting' = [persisting EXCEPT ![a] = P]
  <2>1. CASE MayPublish(a)
    <3>1. PicturePaths(a) \in SUBSET Paths  BY DEF PicturePaths, Paths
    <3> QED  BY <2>1, <3>1 DEF PublishPicture
  <2>2. CASE ~MayPublish(a)
    <3>1. pictures' = pictures /\ persisting' = persisting
      BY <2>2 DEF PublishPicture
    <3>2. /\ pictures' = [p \in Paths |-> IF p \in {} THEN a ELSE pictures[p]]
          /\ persisting' = [persisting EXCEPT ![a] = {}]
      BY <1>2, <3>1, SnapshotFacts
    <3> QED  BY <3>2
  <2> QED  BY <2>1, <2>2
<1>6. /\ pictures' \in [Paths -> 0 .. MaxCaptures]
      /\ persisting' \in [Captures -> SUBSET Paths] /\ persisting'[a] = P
      /\ \A b \in Captures \ {a} : persisting'[b] = persisting[b]
  BY <1>5, SnapshotFacts
<1>7. SnapshotType'
  BY <1>0, <1>1, <1>3, <1>4, <1>6 DEF SnapshotType, CaptureStates
<1>8. CapturesInOrder'
  BY <1>0, <1>1, <1>2, <1>3, <1>6 DEF CapturesInOrder
<1>9. WriterInOrder'
  <2> SUFFICES ASSUME writer.picture # 0 PROVE WriterInOrder'
    BY <1>1 DEF WriterInOrder
  <2> DEFINE c == writer.capture
             p == writer.path
  <2>1. c \in Captures /\ p \in Paths /\ p \in persisting[c] /\ c # a
    BY <1>0, <1>2, SnapshotFacts DEF WriterInOrder
  <2>2. p \in persisting'[c] /\ writer' = writer  BY <1>1, <1>6, <2>1
  <2>a. ASSUME \/ writer.picture = pictures'[p]
               \/ \E b \in Captures \ {c} : p \in persisting'[b]
        PROVE  WriterInOrder'
    <3>1. c # 0  BY <2>1, SnapshotFacts
    <3> QED  BY <2>2, <2>a, <3>1 DEF WriterInOrder
  <2> HIDE DEF c, p
  <2>3. CASE p \in P
    <3>1. a \in Captures \ {c} /\ p \in persisting'[a]  BY <1>6, <2>1, <2>3
    <3> QED  BY <2>a, <3>1
  <2>4. CASE p \notin P
    <3>1. pictures'[p] = pictures[p]  BY <1>5, <2>1, <2>4
    <3>2. \A b \in Captures : p \in persisting[b] => p \in persisting'[b]
      BY <1>2, <1>6
    <3>3. \/ writer.picture = pictures'[p]
          \/ \E b \in Captures \ {c} : p \in persisting'[b]
      BY <1>0, <3>1, <3>2 DEF WriterInOrder, c, p
    <3> QED  BY <2>a, <3>3
  <2> QED  BY <2>3, <2>4
<1>10. PicturesOnTheWay'
  <2> SUFFICES ASSUME NEW p \in Paths, pictures'[p] # 0
               PROVE  \/ p \in unsaved' \/ snapFile'[p] = pictures'[p]
                      \/ \E b \in Captures : p \in persisting'[b]
    BY DEF PicturesOnTheWay
  <2>1. CASE p \in P  BY <1>6, <2>1
  <2>2. CASE p \notin P
    <3>1. pictures'[p] = pictures[p]  BY <1>5, <2>2
    <3>2. \A b \in Captures : p \in persisting[b] => p \in persisting'[b]
      BY <1>2, <1>6
    <3> QED  BY <1>0, <1>1, <3>1, <3>2 DEF PicturesOnTheWay
  <2> QED  BY <2>1, <2>2
<1> QED  BY <1>7, <1>8, <1>9, <1>10 DEF SnapshotInv

\* persist takes the newest picture of the path, whichever capture it serves.
LEMMA BeginWriteStep ==
    ASSUME SnapshotInv, NEW a \in Captures, NEW p \in Paths, BeginWrite(a, p)
    PROVE  SnapshotInv'
<1>1. /\ p \in persisting[a]
      /\ writer' = [capture |-> a, path |-> p, picture |-> pictures[p]]
      /\ UNCHANGED <<capture, armed, current, pictures, snapFile, persisting, unsaved>>
  BY DEF BeginWrite, ToWrite
<1>2. writer' \in [capture : 0 .. MaxCaptures, path : Paths, picture : 0 .. MaxCaptures]
  BY <1>1, SnapshotFacts
<1>3. SnapshotType'  BY <1>1, <1>2 DEF SnapshotInv, SnapshotType
<1>4. CapturesInOrder' /\ PicturesOnTheWay'
  BY <1>1 DEF SnapshotInv, CapturesInOrder, PicturesOnTheWay
<1>5. WriterInOrder'
  BY <1>1, SnapshotFacts DEF WriterInOrder
<1> QED  BY <1>3, <1>4, <1>5 DEF SnapshotInv

\* The write succeeds or fails; either way its goroutine goes on.
LEMMA EndWriteStep ==
    ASSUME SnapshotInv, NEW saved \in BOOLEAN, EndWrite(saved)
    PROVE  SnapshotInv'
<1> DEFINE c == writer.capture
           p == writer.path
           rest == persisting[c] \ {p}
<1>0. /\ SnapshotType /\ CapturesInOrder /\ WriterInOrder /\ PicturesOnTheWay
  BY DEF SnapshotInv
<1>1. /\ writer.picture # 0 /\ UNCHANGED <<capture, armed, current, pictures>>
      /\ persisting' = [persisting EXCEPT ![c] = rest]
      /\ writer' = IF rest = {} THEN NoWriter ELSE [writer EXCEPT !.picture = 0]
  BY DEF EndWrite
<1>2. \/ /\ snapFile' = [snapFile EXCEPT ![p] = writer.picture]
         /\ unsaved' = unsaved \ {p}
      \/ unsaved' = unsaved \cup {p} /\ snapFile' = snapFile
  BY DEF EndWrite
<1>3. c \in Captures /\ p \in Paths /\ writer.picture \in 0 .. MaxCaptures
  BY <1>0, <1>1, SnapshotFacts DEF WriterInOrder
<1>4. \/ writer.picture = pictures[p]
      \/ \E b \in Captures \ {c} : p \in persisting[b]
  BY <1>0, <1>1 DEF WriterInOrder
<1>5. /\ NoWriter \in [capture : 0 .. MaxCaptures, path : Paths, picture : 0 .. MaxCaptures]
      /\ [writer EXCEPT !.picture = 0]
            \in [capture : 0 .. MaxCaptures, path : Paths, picture : 0 .. MaxCaptures]
      /\ NoWriter.picture = 0 /\ [writer EXCEPT !.picture = 0].picture = 0
  <2>1. 0 \in 0 .. MaxCaptures  BY SnapshotFacts
  <2>2. NoWriter \in [capture : 0 .. MaxCaptures, path : Paths, picture : 0 .. MaxCaptures]
        /\ NoWriter.picture = 0
    BY <2>1 DEF NoWriter, Paths
  <2>3. writer \in [capture : 0 .. MaxCaptures, path : Paths, picture : 0 .. MaxCaptures]
    BY SnapshotFacts
  <2>4. [writer EXCEPT !.picture = 0]
            \in [capture : 0 .. MaxCaptures, path : Paths, picture : 0 .. MaxCaptures]
        /\ [writer EXCEPT !.picture = 0].picture = 0
    BY <2>1, <2>3
  <2> QED  BY <2>2, <2>4
<1> HIDE DEF c, p
<1>6. /\ persisting' \in [Captures -> SUBSET Paths]
      /\ \A b \in Captures : persisting'[b] \subseteq persisting[b]
      /\ \A b \in Captures \ {c} : persisting'[b] = persisting[b]
      /\ \A b \in Captures, q \in Paths \ {p} : q \in persisting[b] => q \in persisting'[b]
  BY <1>1, <1>3, SnapshotFacts
<1>7. snapFile' \in [Paths -> 0 .. MaxCaptures] /\ unsaved' \subseteq Paths
  BY <1>2, <1>3, SnapshotFacts
<1>8. SnapshotType'
  <2>1. writer' \in [capture : 0 .. MaxCaptures, path : Paths, picture : 0 .. MaxCaptures]
    BY <1>1, <1>5
  <2> QED  BY <1>0, <1>1, <1>6, <1>7, <2>1 DEF SnapshotType
<1>9. CapturesInOrder'
  BY <1>0, <1>1, <1>6 DEF CapturesInOrder
<1>10. WriterInOrder'
  <2>1. writer'.picture = 0  BY <1>1, <1>5
  <2> QED  BY <2>1 DEF WriterInOrder
<1>11. PicturesOnTheWay'
  <2> SUFFICES ASSUME NEW q \in Paths, pictures[q] # 0
               PROVE  \/ q \in unsaved' \/ snapFile'[q] = pictures[q]
                      \/ \E b \in Captures : q \in persisting'[b]
    BY <1>1 DEF PicturesOnTheWay
  <2>1. CASE q = p
    <3>1. CASE \E b \in Captures \ {c} : p \in persisting[b]
      BY <1>6, <2>1, <3>1
    <3>2. CASE writer.picture = pictures[p]
      BY <1>2, <1>3, <2>1, <3>2, SnapshotFacts
    <3> QED  BY <1>4, <3>1, <3>2
  <2>2. CASE q # p
    <3>1. \/ q \in unsaved \/ snapFile[q] = pictures[q]
          \/ \E b \in Captures : q \in persisting[b]
      BY <1>0 DEF PicturesOnTheWay
    <3>2. snapFile'[q] = snapFile[q] /\ (q \in unsaved => q \in unsaved')
      BY <1>2, <2>2, SnapshotFacts
    <3> QED  BY <1>6, <2>2, <3>1, <3>2
  <2> QED  BY <2>1, <2>2
<1> QED  BY <1>8, <1>9, <1>10, <1>11 DEF SnapshotInv

\* A restart loses the captures and keeps the files.
LEMMA SnapshotRestartStep ==
    ASSUME SnapshotInv, SnapshotRestart
    PROVE  SnapshotInv'
<1>1. /\ capture' = [a \in Captures |->
                       IF capture[a].at = "none" THEN capture[a]
                       ELSE [NewCapture EXCEPT !.at = "over"]]
      /\ current' = 0 /\ pictures' = [p \in Paths |-> 0]
      /\ persisting' = [a \in Captures |-> {}]
      /\ writer' = NoWriter /\ unsaved' = {} /\ UNCHANGED <<armed, snapFile>>
  BY DEF SnapshotRestart
<1>2. [NewCapture EXCEPT !.at = "over"] \in CaptureStates
  BY NewCaptureFits DEF CaptureStates
<1>3. capture' \in [Captures -> CaptureStates]
  BY <1>1, <1>2, SnapshotFacts
<1>4. writer' \in [capture : 0 .. MaxCaptures, path : Paths, picture : 0 .. MaxCaptures]
      /\ writer'.picture = 0
  BY <1>1, SnapshotFacts DEF NoWriter, Paths
<1>5. SnapshotType'
  BY <1>1, <1>3, <1>4, SnapshotFacts DEF SnapshotType, CaptureStates
<1>6. CapturesInOrder'
  BY <1>1 DEF SnapshotInv, CapturesInOrder
<1>7. WriterInOrder' /\ PicturesOnTheWay'
  BY <1>1, <1>4 DEF WriterInOrder, PicturesOnTheWay
<1> QED  BY <1>5, <1>6, <1>7 DEF SnapshotInv

\* However many captures write at once and however their writes are scheduled,
\* a file whose write did not fail ends with the picture that is served
\* (snapshot.go: publish, persist, writeSnapshot): for every number of captures
\* and across restarts.
THEOREM SnapshotFilesNewest == SnapshotSpec => [](SnapshotType /\ FileEndsNewest)
<1>1. SnapshotInv /\ [SnapshotNext]_snapVars => SnapshotInv'
  <2> SUFFICES ASSUME SnapshotInv, [SnapshotNext]_snapVars PROVE SnapshotInv'
    OBVIOUS
  <2>1. CASE UNCHANGED snapVars
    BY <2>1 DEF snapVars, SnapshotInv, SnapshotType, CapturesInOrder, WriterInOrder,
                PicturesOnTheWay
  <2> QED
    BY <2>1, ArmStep, CaptureStep, PublishStep, BeginWriteStep, EndWriteStep,
       SnapshotRestartStep DEF SnapshotNext
<1>2. SnapshotInv => SnapshotType /\ FileEndsNewest
  BY DEF SnapshotInv, PicturesOnTheWay, FileEndsNewest, Served
<1> QED  BY <1>1, <1>2, SnapshotInitInv, PTL DEF SnapshotSpec
-----------------------------------------------------------------------------
(* The audio bridge *)

\* The attempts are numbered as they come, and their number is bounded by the
\* restarts: none before the Start, one more while a restart is replacing one.
AttemptsTo(k) ==
    /\ Launched = 1 .. k
    /\ ~pipes.started \/ starter.at = "launches" => k = 0
    /\ restarter.at \in {"closes", "launches"} => k <= restarts

\* The Start runs with the pipelines' lock held; the restart and the stop come
\* after it, and the stop after the pipelines are closed.
HandsInOrder ==
    /\ pipes.busy <=> starter.at # "idle"
    /\ pipes.busy => pipes.started
    /\ installed # 0 \/ restarter.at # "idle" => pipes.started /\ starter.at = "idle"
    /\ stopper.at \in {"stops", "closes", "done"} => pipes.closed /\ starter.at = "idle"
    /\ stopper.at \in {"closes", "done"} => ~bridgeActive /\ installed = 0

\* Who has a pipeline in hand at each of its steps.
HandsHold ==
    /\ starter.at = "installs" <=> starter.p # 0
    /\ restarter.at \in {"closes", "installs"} <=> restarter.p # 0
    /\ stopper.at = "closes" <=> stopper.p # 0
    /\ {installed, starter.p, restarter.p, stopper.p} \subseteq Launched \cup {0}

BridgeInv ==
    /\ BridgeType /\ HandsInOrder /\ HandsHold /\ EveryPipelineOwned
    /\ \E k \in 0 .. restarts + 1 : AttemptsTo(k)

\* The facts about the state that the steps below start from.
LEMMA BridgeFacts ==
    ASSUME BridgeInv
    PROVE  /\ RestartLimit \in Nat /\ Pipelines = 1 .. RestartLimit + 1
           /\ restarts \in 0 .. RestartLimit /\ installed \in Pipelines \cup {0}
           /\ proc \in [Pipelines -> {"none", "up", "failed", "reaped"}]
           /\ starter.p \in Pipelines \cup {0} /\ restarter.p \in Pipelines \cup {0}
           /\ stopper.p \in Pipelines \cup {0} /\ 0 \notin Pipelines
           /\ starter.at \in {"idle", "launches", "installs"}
           /\ restarter.at \in {"idle", "closes", "launches", "installs"}
           /\ stopper.at \in {"idle", "waits", "stops", "closes", "done"}
BY BridgeAssumption DEF BridgeInv, BridgeType, Pipelines

\* Nothing runs at the start.
LEMMA BridgeInitInv == BridgeInit => BridgeInv
<1> SUFFICES ASSUME BridgeInit PROVE BridgeInv  OBVIOUS
<1>1. BridgeType
  <2>1. ASSUME NEW t \in BOOLEAN
        PROVE  [armed |-> t, started |-> t, closed |-> t, busy |-> t]
                 \in [armed : BOOLEAN, started : BOOLEAN, closed : BOOLEAN, busy : BOOLEAN]
    OBVIOUS
  <2>2. /\ pipes \in [armed : BOOLEAN, started : BOOLEAN, closed : BOOLEAN, busy : BOOLEAN]
        /\ bridgeActive \in BOOLEAN /\ failures \in BOOLEAN
    BY <2>1, Zenon DEF BridgeInit
  <2> QED  BY <2>2, BridgeAssumption DEF BridgeInit, BridgeType
<1>2. HandsInOrder /\ HandsHold
  BY DEF BridgeInit, HandsInOrder, HandsHold
<1>3. Launched = {} /\ Alive = {}
  BY DEF BridgeInit, Launched, Alive
<1>4. EveryPipelineOwned  BY <1>3 DEF BridgeInit, EveryPipelineOwned
<1>5. Launched = 1 .. 0  BY <1>3
<1>6. AttemptsTo(0)  BY <1>5 DEF BridgeInit, AttemptsTo
<1>7. 0 \in 0 .. restarts + 1  BY DEF BridgeInit
<1> QED  BY <1>1, <1>2, <1>4, <1>6, <1>7 DEF BridgeInv

\* The pipeline of the next attempt is the one after the last.
LEMMA NextAttempt ==
    ASSUME BridgeInv, NEW k \in Nat, k <= RestartLimit, AttemptsTo(k)
    PROVE  NewPipeline = k + 1 /\ k + 1 \in Pipelines
<1>1. k + 1 \in Pipelines /\ Launched = 1 .. ((k + 1) - 1)
  BY BridgeFacts DEF AttemptsTo
<1>2. ASSUME NEW p \in Pipelines, Launched = 1 .. p - 1 PROVE p = k + 1
  <2>1. 1 .. p - 1 = 1 .. k /\ p \in Nat /\ p >= 1
    BY <1>2, BridgeFacts DEF AttemptsTo
  <2>2. p - 1 >= 1 => p - 1 \in 1 .. k  BY <2>1
  <2>3. k >= 1 => k \in 1 .. p - 1  BY <2>1
  <2> QED  BY <2>1, <2>2, <2>3
<1> QED  BY <1>1, <1>2 DEF NewPipeline

\* What a step does to the children of one pipeline.
LEMMA ChildrenMove ==
    ASSUME BridgeInv, NEW p \in Pipelines, NEW x \in {"up", "failed", "reaped"},
           proc' = [proc EXCEPT ![p] = x]
    PROVE  /\ proc' \in [Pipelines -> {"none", "up", "failed", "reaped"}]
           /\ Launched' = Launched \cup {p}
           /\ Alive' = IF x = "reaped" THEN Alive \ {p} ELSE Alive \cup {p}
BY BridgeFacts DEF Launched, Alive

\* StartAudioBridge for the Start: the first attempt.
LEMMA StartLaunchesStep ==
    ASSUME BridgeInv, StartLaunches
    PROVE  BridgeInv'
<1>0. BridgeType /\ HandsInOrder /\ HandsHold /\ EveryPipelineOwned  BY DEF BridgeInv
<1>1. /\ starter.at = "launches" /\ UNCHANGED <<installed, restarts, restarter, stopper, failures>>
  BY DEF StartLaunches
<1>2. PICK k \in 0 .. restarts + 1 : AttemptsTo(k)  BY DEF BridgeInv
<1>3. k = 0 /\ Launched = {}
  <2>1. k = 0  BY <1>1, <1>2 DEF AttemptsTo
  <2>2. Launched = 1 .. 0  BY <1>2, <2>1 DEF AttemptsTo
  <2> QED  BY <2>1, <2>2
<1>4. /\ pipes.started /\ pipes.busy /\ restarter.at = "idle" /\ installed = 0
      /\ stopper.at \notin {"stops", "closes", "done"} /\ starter.p = 0
  BY <1>0, <1>1 DEF HandsInOrder, HandsHold
<1>5. NewPipeline = 1 /\ 1 \in Pipelines
  BY <1>2, <1>3, NextAttempt, BridgeFacts
<1>6. CASE /\ proc' = [proc EXCEPT ![NewPipeline] = "up"]
           /\ starter' = [at |-> "installs", p |-> NewPipeline]
           /\ UNCHANGED <<bridgeActive, pipes>>
  <2>1. /\ proc' \in [Pipelines -> {"none", "up", "failed", "reaped"}]
        /\ Launched' = {1} /\ Alive' \subseteq {1}
    <3>1. Alive = {}  BY <1>3 DEF Alive, Launched
    <3> QED  BY <1>3, <1>5, <1>6, <3>1, ChildrenMove
  <2>2. starter' = [at |-> "installs", p |-> 1]  BY <1>5, <1>6
  <2>3. BridgeType'
    BY <1>0, <1>1, <1>5, <1>6, <2>1, <2>2 DEF BridgeType
  <2>4. starter'.at = "installs" /\ starter'.p = 1  BY <2>2
  <2>5. HandsInOrder' /\ HandsHold'
    <3>1. HandsInOrder'  BY <1>0, <1>1, <1>4, <1>6, <2>4 DEF HandsInOrder
    <3>2. HandsHold'
      BY <1>0, <1>1, <1>3, <1>4, <2>1, <2>4 DEF HandsHold
    <3> QED  BY <3>1, <3>2
  <2>6. EveryPipelineOwned'
    BY <1>1, <1>4, <2>1, <2>4 DEF EveryPipelineOwned
  <2>7. AttemptsTo(1)' /\ 1 \in 0 .. restarts' + 1
    <3>1. {1} = 1 .. 1 /\ 1 \in 0 .. restarts' + 1  BY <1>1, BridgeFacts
    <3>2. restarter'.at = "idle" /\ pipes'.started  BY <1>1, <1>4, <1>6
    <3> QED  BY <2>1, <2>4, <3>1, <3>2 DEF AttemptsTo
  <2> QED  BY <2>3, <2>5, <2>6, <2>7 DEF BridgeInv
<1>7. CASE /\ bridgeActive' = FALSE /\ starter' = [at |-> "idle", p |-> 0]
           /\ pipes' = [pipes EXCEPT !.busy = FALSE] /\ proc' = proc
  <2>1. /\ pipes' \in [armed : BOOLEAN, started : BOOLEAN, closed : BOOLEAN, busy : BOOLEAN]
        /\ pipes'.started = pipes.started /\ pipes'.closed = pipes.closed /\ ~pipes'.busy
    BY <1>0, <1>7 DEF BridgeType
  <2>2. starter'.at = "idle" /\ starter'.p = 0  BY <1>7
  <2>3. BridgeType'
    <3>1. starter' \in [at : {"idle", "launches", "installs"}, p : Pipelines \cup {0}]
      BY <1>7
    <3>2. bridgeActive' \in BOOLEAN  BY <1>7
    <3> QED  BY <1>0, <1>1, <1>7, <2>1, <3>1, <3>2 DEF BridgeType
  <2>5. Launched' = {} /\ Alive' = {}
    BY <1>3, <1>7 DEF Launched, Alive
  <2>4. HandsInOrder' /\ HandsHold'
    <3>1. HandsInOrder'  BY <1>0, <1>1, <1>4, <2>1, <2>2 DEF HandsInOrder
    <3>2. HandsHold'
      BY <1>0, <1>1, <1>3, <1>4, <2>2, <2>5 DEF HandsHold
    <3> QED  BY <3>1, <3>2
  <2>6. EveryPipelineOwned'
    BY <1>1, <1>4, <2>2, <2>5 DEF EveryPipelineOwned
  <2>7. AttemptsTo(0)' /\ 0 \in 0 .. restarts' + 1
    <3>1. {} = 1 .. 0 /\ 0 \in 0 .. restarts' + 1  BY <1>1, BridgeFacts
    <3>2. restarter'.at = "idle"  BY <1>1, <1>4
    <3> QED  BY <2>2, <2>5, <3>1, <3>2 DEF AttemptsTo
  <2> QED  BY <2>3, <2>4, <2>6, <2>7 DEF BridgeInv
<1> QED  BY <1>6, <1>7 DEF StartLaunches

\* The Start installs its pipeline, or closes it again.
LEMMA StartInstallsStep ==
    ASSUME BridgeInv, StartInstalls
    PROVE  BridgeInv'
<1>0. BridgeType /\ HandsInOrder /\ HandsHold /\ EveryPipelineOwned  BY DEF BridgeInv
<1>1. /\ starter.at = "installs" /\ starter' = [at |-> "idle", p |-> 0]
      /\ pipes' = [pipes EXCEPT !.busy = FALSE]
      /\ UNCHANGED <<bridgeActive, restarts, restarter, stopper, failures>>
  BY DEF StartInstalls
<1>2. PICK k \in 0 .. restarts + 1 : AttemptsTo(k)  BY DEF BridgeInv
<1>3. /\ pipes.started /\ pipes.busy /\ restarter.at = "idle" /\ installed = 0
      /\ stopper.at \notin {"stops", "closes", "done"} /\ starter.p \in Pipelines
      /\ stopper.p = 0 /\ restarter.p = 0
  BY <1>0, <1>1, BridgeFacts DEF HandsInOrder, HandsHold
<1>4. /\ pipes' \in [armed : BOOLEAN, started : BOOLEAN, closed : BOOLEAN, busy : BOOLEAN]
      /\ pipes'.started = pipes.started /\ pipes'.closed = pipes.closed /\ ~pipes'.busy
  BY <1>0, <1>1 DEF BridgeType
<1>5. starter'.at = "idle" /\ starter'.p = 0
      /\ starter' \in [at : {"idle", "launches", "installs"}, p : Pipelines \cup {0}]
  BY <1>1
<1>6. Alive \subseteq {0, starter.p}  BY <1>0, <1>3 DEF EveryPipelineOwned
<1>7. \/ installed' = starter.p /\ proc' = proc
      \/ proc' = [proc EXCEPT ![starter.p] = "reaped"] /\ installed' = 0
  BY <1>3 DEF StartInstalls
<1>8. starter.p \in Launched  BY <1>0, <1>3, BridgeFacts DEF HandsHold
<1>9. /\ proc' \in [Pipelines -> {"none", "up", "failed", "reaped"}]
      /\ Launched' = Launched /\ Alive' \subseteq {0, installed'}
      /\ installed' \in Launched \cup {0} /\ installed' \in Pipelines \cup {0}
  <2>1. CASE installed' = starter.p /\ proc' = proc
    BY <1>3, <1>6, <1>8, <2>1, BridgeFacts DEF Launched, Alive
  <2>2. CASE proc' = [proc EXCEPT ![starter.p] = "reaped"] /\ installed' = 0
    <3>1. /\ proc' \in [Pipelines -> {"none", "up", "failed", "reaped"}]
          /\ Launched' = Launched \cup {starter.p} /\ Alive' = Alive \ {starter.p}
      BY <1>3, <2>2, ChildrenMove
    <3> QED  BY <1>6, <1>8, <2>2, <3>1
  <2> QED  BY <1>7, <2>1, <2>2
<1>10. BridgeType'
  BY <1>0, <1>1, <1>4, <1>5, <1>9 DEF BridgeType
<1>11. HandsInOrder' /\ HandsHold'
  <2>1. HandsInOrder'  BY <1>0, <1>1, <1>3, <1>4, <1>5 DEF HandsInOrder
  <2>2. HandsHold'  BY <1>0, <1>1, <1>3, <1>5, <1>9 DEF HandsHold
  <2> QED  BY <2>1, <2>2
<1>12. EveryPipelineOwned'
  BY <1>1, <1>3, <1>5, <1>9 DEF EveryPipelineOwned
<1>13. AttemptsTo(k)'
  BY <1>1, <1>2, <1>3, <1>4, <1>5, <1>9 DEF AttemptsTo
<1>14. restarts' = restarts  BY <1>1
<1> QED  BY <1>2, <1>10, <1>11, <1>12, <1>13, <1>14 DEF BridgeInv
\* The monitor's restart, from the failed pipeline to the new one.
LEMMA RestartStep ==
    ASSUME BridgeInv,
           \/ \E p \in Pipelines : RestartBegins(p)
           \/ RestartCloses \/ RestartLaunches \/ RestartInstalls
    PROVE  BridgeInv'
<1>0. BridgeType /\ HandsInOrder /\ HandsHold /\ EveryPipelineOwned  BY DEF BridgeInv
<1>1. UNCHANGED <<pipes, bridgeActive, starter, stopper>>
  BY DEF RestartBegins, RestartCloses, RestartLaunches, RestartInstalls
<1>2. PICK k \in 0 .. restarts + 1 : AttemptsTo(k)  BY DEF BridgeInv
<1>k. Launched = 1 .. k  BY <1>2 DEF AttemptsTo
\* What is left to show of a step of the restart, which follows a Start.
<1>3. ASSUME installed # 0 \/ restarter.at # "idle",
             restarts' \in 0 .. RestartLimit, failures' \in BOOLEAN,
             proc' \in [Pipelines -> {"none", "up", "failed", "reaped"}],
             restarter' \in [at : {"idle", "closes", "launches", "installs"},
                             p : Pipelines \cup {0}],
             restarter'.at \in {"closes", "installs"} <=> restarter'.p # 0,
             installed' \in {0, installed} \/ bridgeActive,
             installed' \in Launched' \cup {0}, restarter'.p \in Launched' \cup {0},
             {starter.p, stopper.p} \subseteq Launched' \cup {0},
             installed' \in Pipelines \cup {0},
             Alive' \subseteq {installed', starter.p, restarter'.p, stopper.p},
             NEW j \in 0 .. restarts' + 1, Launched' = 1 .. j,
             restarter'.at \in {"closes", "launches"} => j <= restarts'
      PROVE  BridgeInv'
  <2>1. pipes.started /\ starter.at = "idle"
    BY <1>0, <1>3 DEF HandsInOrder
  <2>2. BridgeType'
    BY <1>0, <1>1, <1>3 DEF BridgeType
  <2>3. HandsInOrder'
    <3>1. stopper.at \in {"closes", "done"} => ~bridgeActive /\ installed = 0
      BY <1>0 DEF HandsInOrder
    <3>2. stopper.at \in {"closes", "done"} => installed' = 0  BY <1>3, <3>1
    <3> QED  BY <1>0, <1>1, <2>1, <3>1, <3>2 DEF HandsInOrder
  <2>4. HandsHold'
    BY <1>0, <1>1, <1>3 DEF HandsHold
  <2>5. EveryPipelineOwned'
    <3>1. stopper.at = "done" => installed' = 0
      BY <1>0, <1>3 DEF HandsInOrder
    <3> QED  BY <1>1, <1>3, <2>1, <3>1 DEF EveryPipelineOwned
  <2>6. AttemptsTo(j)'
    BY <1>1, <1>3, <2>1 DEF AttemptsTo
  <2> QED  BY <1>3, <2>2, <2>3, <2>4, <2>5, <2>6 DEF BridgeInv
<1>4. /\ failures \in BOOLEAN /\ installed \in Launched \cup {0}
      /\ {starter.p, restarter.p, stopper.p} \subseteq Launched \cup {0}
      /\ Alive \subseteq {installed, starter.p, restarter.p, stopper.p}
      /\ restarter \in [at : {"idle", "closes", "launches", "installs"},
                        p : Pipelines \cup {0}]
      /\ restarter.at \in {"closes", "installs"} <=> restarter.p # 0
  BY <1>0 DEF BridgeType, HandsHold, EveryPipelineOwned
<1>5. restarter.at \in {"closes", "launches"} => k <= restarts
  BY <1>2 DEF AttemptsTo
<1>6. ASSUME NEW p \in Pipelines, RestartBegins(p) PROVE BridgeInv'
  <2>1. installed = p /\ restarter.at = "idle" /\ proc' = proc /\ installed # 0
    BY <1>6, BridgeFacts DEF RestartBegins
  <2>2. Launched' = Launched /\ Alive' = Alive  BY <2>1 DEF Launched, Alive
  <2>3. CASE failures' = TRUE /\ UNCHANGED <<installed, restarts, restarter>>
    <3>1. failures' \in BOOLEAN  BY <2>3
    <3> QED
      BY <1>2, <1>3, <1>4, <1>5, <1>k, <2>1, <2>2, <2>3, <3>1, BridgeFacts
  <2>4. CASE /\ restarts < RestartLimit /\ restarts' = restarts + 1 /\ installed' = 0
             /\ restarter' = [at |-> "closes", p |-> p] /\ failures' = failures
    <3>1. /\ restarts' \in 0 .. RestartLimit /\ k \in 0 .. restarts' + 1 /\ k <= restarts'
      BY <1>2, <2>4, BridgeFacts
    <3>2. /\ restarter'.at = "closes" /\ restarter'.p = p
          /\ restarter' \in [at : {"idle", "closes", "launches", "installs"},
                             p : Pipelines \cup {0}]
      BY <2>4
    <3>3. p \in Launched /\ p # 0 /\ restarter.p = 0  BY <1>4, <2>1
    <3>4. Alive' \subseteq {installed', starter.p, restarter'.p, stopper.p}
      BY <1>4, <2>1, <2>2, <2>4, <3>2, <3>3
    <3>5. installed' \in {0, installed} /\ installed' \in Launched' \cup {0}
          /\ installed' \in Pipelines \cup {0}
          /\ restarter'.p \in Launched' \cup {0}
          /\ {starter.p, stopper.p} \subseteq Launched' \cup {0}
      BY <1>4, <2>2, <2>4, <3>2, <3>3
    <3>6. failures' \in BOOLEAN /\ Launched' = 1 .. k
      BY <1>4, <1>k, <2>2, <2>4
    <3>7. proc' \in [Pipelines -> {"none", "up", "failed", "reaped"}]
      BY <2>1, BridgeFacts
    <3> QED  BY <1>3, <2>1, <3>1, <3>2, <3>3, <3>4, <3>5, <3>6, <3>7
  <2>5. ~(restarts >= RestartLimit) => restarts < RestartLimit  BY BridgeFacts
  <2> QED  BY <1>6, <2>3, <2>4, <2>5 DEF RestartBegins
<1>7. CASE RestartCloses
  <2>1. /\ restarter.at = "closes" /\ proc' = [proc EXCEPT ![restarter.p] = "reaped"]
        /\ restarter' = [at |-> "launches", p |-> 0]
        /\ UNCHANGED <<installed, restarts, failures>>
    BY <1>7 DEF RestartCloses
  <2>2. restarter.p \in Pipelines /\ restarter.p \in Launched
    BY <1>4, <2>1, BridgeFacts
  <2>3. /\ proc' \in [Pipelines -> {"none", "up", "failed", "reaped"}]
        /\ Launched' = Launched \cup {restarter.p} /\ Alive' = Alive \ {restarter.p}
    BY <2>1, <2>2, ChildrenMove
  <2>4. Launched' = Launched  BY <2>2, <2>3
  <2>5. /\ restarter'.at = "launches" /\ restarter'.p = 0
        /\ restarter' \in [at : {"idle", "closes", "launches", "installs"},
                           p : Pipelines \cup {0}]
    BY <2>1
  <2>6. Alive' \subseteq {installed', starter.p, restarter'.p, stopper.p}
    BY <1>4, <2>1, <2>3, <2>5
  <2>7. k \in 0 .. restarts' + 1 /\ k <= restarts' /\ restarts' \in 0 .. RestartLimit
    BY <1>2, <1>5, <2>1, BridgeFacts
  <2> QED
    BY <1>3, <1>4, <1>k, <2>1, <2>3, <2>4, <2>5, <2>6, <2>7, BridgeFacts
<1>8. CASE RestartLaunches
  <2>1. restarter.at = "launches" /\ UNCHANGED <<installed, restarts>>
    BY <1>8 DEF RestartLaunches
  <2>2. restarter.p = 0 /\ k <= restarts /\ restarts' \in 0 .. RestartLimit
    BY <1>4, <1>5, <2>1, BridgeFacts
  <2>3. CASE /\ proc' = [proc EXCEPT ![NewPipeline] = "up"]
             /\ restarter' = [at |-> "installs", p |-> NewPipeline] /\ failures' = failures
    <3>1. NewPipeline = k + 1 /\ k + 1 \in Pipelines
      BY <1>2, <2>2, NextAttempt, BridgeFacts
    <3>2. /\ proc' \in [Pipelines -> {"none", "up", "failed", "reaped"}]
          /\ Launched' = Launched \cup {k + 1} /\ Alive' = Alive \cup {k + 1}
      BY <2>3, <3>1, ChildrenMove
    <3>3. /\ restarter'.at = "installs" /\ restarter'.p = k + 1 /\ k + 1 # 0
          /\ restarter' \in [at : {"idle", "closes", "launches", "installs"},
                             p : Pipelines \cup {0}]
      BY <2>3, <3>1, BridgeFacts
    <3>4. Launched' = 1 .. k + 1 /\ k + 1 \in 0 .. restarts' + 1
      BY <1>2, <1>k, <2>1, <2>2, <3>2, BridgeFacts
    <3>5. Alive' \subseteq {installed', starter.p, restarter'.p, stopper.p}
      BY <1>4, <2>1, <2>2, <3>2, <3>3, BridgeFacts DEF Alive
    <3> QED
      BY <1>3, <1>4, <2>1, <2>2, <2>3, <3>2, <3>3, <3>4, <3>5, BridgeFacts
  <2>4. CASE /\ failures' = TRUE /\ restarter' = [at |-> "idle", p |-> 0] /\ proc' = proc
    <3>1. Launched' = Launched /\ Alive' = Alive  BY <2>4 DEF Launched, Alive
    <3>2. /\ restarter'.at = "idle" /\ restarter'.p = 0
          /\ restarter' \in [at : {"idle", "closes", "launches", "installs"},
                             p : Pipelines \cup {0}]
      BY <2>4
    <3>3. failures' \in BOOLEAN  BY <2>4
    <3>4. Alive' \subseteq {installed', starter.p, restarter'.p, stopper.p}
      BY <1>4, <2>1, <2>2, <3>1, <3>2
    <3> QED
      BY <1>2, <1>3, <1>4, <1>k, <2>1, <2>2, <2>4, <3>1, <3>2, <3>3, <3>4, BridgeFacts
  <2> QED  BY <1>8, <2>3, <2>4 DEF RestartLaunches
<1>9. CASE RestartInstalls
  <2>1. /\ restarter.at = "installs" /\ restarter' = [at |-> "idle", p |-> 0]
        /\ UNCHANGED <<restarts, failures>>
    BY <1>9 DEF RestartInstalls
  <2>2. restarter.p \in Pipelines /\ restarter.p \in Launched
    BY <1>4, <2>1, BridgeFacts
  <2>3. /\ restarter'.at = "idle" /\ restarter'.p = 0
        /\ restarter' \in [at : {"idle", "closes", "launches", "installs"},
                           p : Pipelines \cup {0}]
    BY <2>1
  <2>4. CASE /\ bridgeActive /\ installed = 0 /\ installed' = restarter.p /\ proc' = proc
    <3>1. Launched' = Launched /\ Alive' = Alive  BY <2>4 DEF Launched, Alive
    <3>2. Alive' \subseteq {installed', starter.p, restarter'.p, stopper.p}
      BY <1>4, <2>3, <2>4, <3>1, BridgeFacts DEF Alive
    <3> QED
      BY <1>2, <1>3, <1>4, <1>k, <2>1, <2>2, <2>3, <2>4, <3>1, <3>2, BridgeFacts
  <2>5. CASE proc' = [proc EXCEPT ![restarter.p] = "reaped"] /\ installed' = installed
    <3>1. /\ proc' \in [Pipelines -> {"none", "up", "failed", "reaped"}]
          /\ Launched' = Launched \cup {restarter.p} /\ Alive' = Alive \ {restarter.p}
      BY <2>2, <2>5, ChildrenMove
    <3>2. Launched' = Launched  BY <2>2, <3>1
    <3>3. Alive' \subseteq {installed', starter.p, restarter'.p, stopper.p}
      BY <1>4, <2>3, <2>5, <3>1
    <3> QED
      BY <1>2, <1>3, <1>4, <1>k, <2>1, <2>2, <2>3, <2>5, <3>1, <3>2, <3>3, BridgeFacts
  <2> QED  BY <1>9, <2>4, <2>5 DEF RestartInstalls, MayInstall
<1> QED  BY <1>6, <1>7, <1>8, <1>9
\* The pipelines are armed and started, and a child exits.
LEMMA PipelinesStep ==
    ASSUME BridgeInv,
           \/ ArmPipelines \/ StartPipelines \/ \E p \in Pipelines : ChildExits(p)
    PROVE  BridgeInv'
<1>0. BridgeType /\ HandsInOrder /\ HandsHold /\ EveryPipelineOwned  BY DEF BridgeInv
<1>1. PICK k \in 0 .. restarts + 1 : AttemptsTo(k)  BY DEF BridgeInv
<1>2. pipes \in [armed : BOOLEAN, started : BOOLEAN, closed : BOOLEAN, busy : BOOLEAN]
  BY <1>0 DEF BridgeType
<1>3. CASE ArmPipelines
  <2>1. /\ UNCHANGED <<bridgeActive, installed, restarts, proc, starter, restarter, stopper, failures>>
        /\ pipes' = [pipes EXCEPT !.armed = TRUE]
    BY <1>3 DEF ArmPipelines
  <2>2. /\ pipes' \in [armed : BOOLEAN, started : BOOLEAN, closed : BOOLEAN, busy : BOOLEAN]
        /\ pipes'.started = pipes.started /\ pipes'.closed = pipes.closed
        /\ pipes'.busy = pipes.busy
    BY <1>2, <2>1
  <2>3. BridgeType'  BY <1>0, <2>1, <2>2 DEF BridgeType
  <2>4. Launched' = Launched /\ Alive' = Alive  BY <2>1 DEF Launched, Alive
  <2>5. HandsInOrder'  BY <1>0, <2>1, <2>2 DEF HandsInOrder
  <2>6. HandsHold' /\ EveryPipelineOwned'
    BY <1>0, <2>1, <2>4 DEF HandsHold, EveryPipelineOwned
  <2>7. AttemptsTo(k)' /\ restarts' = restarts
    BY <1>1, <2>1, <2>2, <2>4 DEF AttemptsTo
  <2> QED  BY <1>1, <2>3, <2>5, <2>6, <2>7 DEF BridgeInv
<1>4. CASE StartPipelines
  <2>1. /\ UNCHANGED <<installed, proc, restarter, stopper, failures>>
        /\ pipes' = [pipes EXCEPT !.started = TRUE, !.busy = TRUE]
        /\ bridgeActive' = TRUE /\ restarts' = 0
        /\ starter' = [at |-> "launches", p |-> 0]
        /\ ~pipes.busy /\ ~pipes.closed /\ ~pipes.started
    BY <1>4 DEF StartPipelines
  <2>2. /\ pipes' \in [armed : BOOLEAN, started : BOOLEAN, closed : BOOLEAN, busy : BOOLEAN]
        /\ pipes'.started /\ pipes'.closed = pipes.closed /\ pipes'.busy
    <3>1. ASSUME NEW t \in BOOLEAN, t
          PROVE  LET q == [pipes EXCEPT !.started = t, !.busy = t]
                 IN  /\ q \in [armed : BOOLEAN, started : BOOLEAN, closed : BOOLEAN, busy : BOOLEAN]
                     /\ q.started /\ q.closed = pipes.closed /\ q.busy
      BY <1>2, <3>1
    <3> QED  BY <2>1, <3>1
  <2>3. /\ installed = 0 /\ restarter.at = "idle" /\ starter.at = "idle"
        /\ stopper.at \notin {"stops", "closes", "done"}
    BY <1>0, <2>1 DEF HandsInOrder
  <2>4. starter'.at = "launches" /\ starter'.p = 0
        /\ starter' \in [at : {"idle", "launches", "installs"}, p : Pipelines \cup {0}]
    BY <2>1
  <2>5. BridgeType'
    <3>1. bridgeActive' \in BOOLEAN  BY <2>1
    <3>2. restarts' \in 0 .. RestartLimit  BY <2>1, BridgeFacts
    <3> QED  BY <1>0, <2>1, <2>2, <2>4, <3>1, <3>2 DEF BridgeType
  <2>6. Launched' = Launched /\ Alive' = Alive  BY <2>1 DEF Launched, Alive
  <2>7. HandsInOrder'
    BY <2>1, <2>2, <2>3, <2>4 DEF HandsInOrder
  <2>8. starter.p = 0  BY <1>0, <2>3 DEF HandsHold
  <2>9. HandsHold' /\ EveryPipelineOwned'
    BY <1>0, <2>1, <2>3, <2>4, <2>6, <2>8 DEF HandsHold, EveryPipelineOwned
  <2>10. AttemptsTo(0)' /\ 0 \in 0 .. restarts' + 1
    <3>1. Launched = 1 .. 0  BY <1>1, <2>1 DEF AttemptsTo
    <3>2. restarter'.at = "idle"  BY <2>1, <2>3
    <3>3. 0 \in 0 .. restarts' + 1  BY <2>1
    <3> QED  BY <2>6, <3>1, <3>2, <3>3 DEF AttemptsTo
  <2> QED  BY <2>5, <2>7, <2>9, <2>10 DEF BridgeInv
<1>5. ASSUME NEW p \in Pipelines, ChildExits(p) PROVE BridgeInv'
  <2>1. /\ UNCHANGED <<pipes, bridgeActive, installed, restarts, starter, restarter, stopper, failures>>
        /\ proc[p] = "up" /\ proc' = [proc EXCEPT ![p] = "failed"]
    BY <1>5 DEF ChildExits
  <2>2. /\ proc' \in [Pipelines -> {"none", "up", "failed", "reaped"}]
        /\ Launched' = Launched \cup {p} /\ Alive' = Alive \cup {p}
    BY <2>1, ChildrenMove
  <2>3. p \in Launched /\ p \in Alive  BY <2>1 DEF Launched, Alive
  <2>4. Launched' = Launched /\ Alive' = Alive  BY <2>2, <2>3
  <2>5. BridgeType'  BY <1>0, <2>1, <2>2 DEF BridgeType
  <2>6. HandsInOrder'  BY <1>0, <2>1 DEF HandsInOrder
  <2>7. HandsHold' /\ EveryPipelineOwned'
    BY <1>0, <2>1, <2>4 DEF HandsHold, EveryPipelineOwned
  <2>8. AttemptsTo(k)' /\ restarts' = restarts
    BY <1>1, <2>1, <2>4 DEF AttemptsTo
  <2> QED  BY <1>1, <2>5, <2>6, <2>7, <2>8 DEF BridgeInv
<1> QED  BY <1>3, <1>4, <1>5

\* bridgeSource.Close: the pipelines are closed first, then the bridge.
LEMMA StopStep ==
    ASSUME BridgeInv,
           SourceStops \/ ClosePipelines \/ StopContext \/ StopCloses
    PROVE  BridgeInv'
<1>0. BridgeType /\ HandsInOrder /\ HandsHold /\ EveryPipelineOwned  BY DEF BridgeInv
<1>1. PICK k \in 0 .. restarts + 1 : AttemptsTo(k)  BY DEF BridgeInv
<1>2. UNCHANGED <<restarts, starter, restarter, failures>>
  BY DEF SourceStops, ClosePipelines, StopContext, StopCloses
<1>3. CASE SourceStops
  <2>1. /\ UNCHANGED <<pipes, bridgeActive, installed, proc>> /\ stopper.at = "idle"
        /\ stopper' = [at |-> "waits", p |-> 0]
    BY <1>3 DEF SourceStops
  <2>2. /\ stopper'.at = "waits" /\ stopper'.p = 0
        /\ stopper' \in [at : {"idle", "waits", "stops", "closes", "done"},
                         p : Pipelines \cup {0}]
    BY <2>1
  <2>3. stopper.p = 0  BY <1>0, <2>1 DEF HandsHold
  <2>4. Launched' = Launched /\ Alive' = Alive  BY <2>1 DEF Launched, Alive
  <2>5. BridgeType'  BY <1>0, <1>2, <2>1, <2>2 DEF BridgeType
  <2>6. HandsInOrder'  BY <1>0, <1>2, <2>1, <2>2 DEF HandsInOrder
  <2>7. HandsHold' /\ EveryPipelineOwned'
    BY <1>0, <1>2, <2>1, <2>2, <2>3, <2>4 DEF HandsHold, EveryPipelineOwned
  <2>8. AttemptsTo(k)'  BY <1>1, <1>2, <2>1, <2>4 DEF AttemptsTo
  <2> QED  BY <1>1, <1>2, <2>5, <2>6, <2>7, <2>8 DEF BridgeInv
<1>4. CASE ClosePipelines
  <2>1. /\ UNCHANGED <<bridgeActive, installed, proc>> /\ stopper.at = "waits"
        /\ ~pipes.busy /\ pipes' = [pipes EXCEPT !.closed = TRUE]
        /\ stopper' = [at |-> "stops", p |-> 0]
    BY <1>4 DEF ClosePipelines
  <2>2. /\ stopper'.at = "stops" /\ stopper'.p = 0
        /\ stopper' \in [at : {"idle", "waits", "stops", "closes", "done"},
                         p : Pipelines \cup {0}]
    BY <2>1
  <2>3. /\ pipes' \in [armed : BOOLEAN, started : BOOLEAN, closed : BOOLEAN, busy : BOOLEAN]
        /\ pipes'.started = pipes.started /\ pipes'.closed /\ pipes'.busy = pipes.busy
    BY <1>0, <2>1 DEF BridgeType
  <2>4. stopper.p = 0  BY <1>0, <2>1 DEF HandsHold
  <2>5. Launched' = Launched /\ Alive' = Alive  BY <2>1 DEF Launched, Alive
  <2>6. BridgeType'  BY <1>0, <1>2, <2>1, <2>2, <2>3 DEF BridgeType
  <2>7. HandsInOrder'  BY <1>0, <1>2, <2>1, <2>2, <2>3 DEF HandsInOrder
  <2>8. HandsHold' /\ EveryPipelineOwned'
    BY <1>0, <1>2, <2>1, <2>2, <2>4, <2>5 DEF HandsHold, EveryPipelineOwned
  <2>9. AttemptsTo(k)'  BY <1>1, <1>2, <2>3, <2>5 DEF AttemptsTo
  <2> QED  BY <1>1, <1>2, <2>6, <2>7, <2>8, <2>9 DEF BridgeInv
<1>5. CASE StopContext
  <2>1. /\ UNCHANGED <<pipes, proc>> /\ stopper.at = "stops"
        /\ bridgeActive' = FALSE /\ installed' = 0
        /\ stopper' = IF installed = 0 THEN [at |-> "done", p |-> 0]
                      ELSE [at |-> "closes", p |-> installed]
    BY <1>5 DEF StopContext
  <2>2. /\ stopper'.at \in {"closes", "done"} /\ stopper'.p = installed
        /\ stopper'.at = "closes" <=> installed # 0
        /\ stopper' \in [at : {"idle", "waits", "stops", "closes", "done"},
                         p : Pipelines \cup {0}]
    BY <2>1, BridgeFacts
  <2>3. stopper.p = 0  BY <1>0, <2>1 DEF HandsHold
  <2>4. pipes.closed /\ starter.at = "idle"  BY <1>0, <2>1 DEF HandsInOrder
  <2>5. Launched' = Launched /\ Alive' = Alive  BY <2>1 DEF Launched, Alive
  <2>6. BridgeType'
    <3>1. bridgeActive' \in BOOLEAN /\ installed' \in Pipelines \cup {0}  BY <2>1
    <3> QED  BY <1>0, <1>2, <2>1, <2>2, <3>1 DEF BridgeType
  <2>7. HandsInOrder'  BY <1>0, <1>2, <2>1, <2>2, <2>4 DEF HandsInOrder
  <2>8. HandsHold' /\ EveryPipelineOwned'
    BY <1>0, <1>2, <2>1, <2>2, <2>3, <2>4, <2>5 DEF HandsHold, EveryPipelineOwned
  <2>9. AttemptsTo(k)'  BY <1>1, <1>2, <2>1, <2>5 DEF AttemptsTo
  <2> QED  BY <1>1, <1>2, <2>6, <2>7, <2>8, <2>9 DEF BridgeInv
<1>6. CASE StopCloses
  <2>1. /\ UNCHANGED <<pipes, bridgeActive, installed>> /\ stopper.at = "closes"
        /\ proc' = [proc EXCEPT ![stopper.p] = "reaped"]
        /\ stopper' = [at |-> "done", p |-> 0]
    BY <1>6 DEF StopCloses
  <2>2. /\ stopper'.at = "done" /\ stopper'.p = 0
        /\ stopper' \in [at : {"idle", "waits", "stops", "closes", "done"},
                         p : Pipelines \cup {0}]
    BY <2>1
  <2>3. stopper.p \in Pipelines /\ stopper.p \in Launched
    BY <1>0, <2>1, BridgeFacts DEF HandsHold
  <2>4. /\ proc' \in [Pipelines -> {"none", "up", "failed", "reaped"}]
        /\ Launched' = Launched \cup {stopper.p} /\ Alive' = Alive \ {stopper.p}
    BY <2>1, <2>3, ChildrenMove
  <2>5. Launched' = Launched  BY <2>3, <2>4
  <2>6. /\ pipes.closed /\ starter.at = "idle" /\ ~bridgeActive /\ installed = 0
    BY <1>0, <2>1 DEF HandsInOrder
  <2>7. BridgeType'  BY <1>0, <1>2, <2>1, <2>2, <2>4 DEF BridgeType
  <2>8. HandsInOrder'  BY <1>0, <1>2, <2>1, <2>2, <2>6 DEF HandsInOrder
  <2>9. HandsHold' /\ EveryPipelineOwned'
    BY <1>0, <1>2, <2>1, <2>2, <2>4, <2>5, <2>6 DEF HandsHold, EveryPipelineOwned
  <2>10. AttemptsTo(k)'  BY <1>1, <1>2, <2>1, <2>5 DEF AttemptsTo
  <2> QED  BY <1>1, <1>2, <2>7, <2>8, <2>9, <2>10 DEF BridgeInv
<1> QED  BY <1>3, <1>4, <1>5, <1>6

\* A pipeline that runs is the bridge's or in the hands of the Start, the
\* restart or the stop that will install or reap it, and none is left once the
\* bridge is stopped (audiobridge.go: Start, restart, StopContext;
\* app/pipelines.go: start, close): for every restart limit.
THEOREM BridgeOwnsPipelines == BridgeSpec => [](BridgeType /\ EveryPipelineOwned)
<1>1. BridgeInv /\ [BridgeNext]_bridgeVars => BridgeInv'
  <2> SUFFICES ASSUME BridgeInv, [BridgeNext]_bridgeVars PROVE BridgeInv'
    OBVIOUS
  <2>1. CASE UNCHANGED bridgeVars
    BY <2>1 DEF bridgeVars, BridgeInv, BridgeType, HandsInOrder, HandsHold,
                EveryPipelineOwned, AttemptsTo, Launched, Alive
  <2> QED
    BY <2>1, PipelinesStep, StartLaunchesStep, StartInstallsStep, RestartStep, StopStep
       DEF BridgeNext
<1>2. BridgeInv => BridgeType /\ EveryPipelineOwned  BY DEF BridgeInv
<1> QED  BY <1>1, <1>2, BridgeInitInv, PTL DEF BridgeSpec
-----------------------------------------------------------------------------
(* The ring clips *)

\* What holds of the samples of a clip from its first packet to its file.
SamplesFit(w) ==
    /\ Playable(w.samples)
    /\ \A i \in 1 .. Len(w.samples) : w.samples[i].sps = w.sps
    /\ w.samples # <<>> => w.begun
    /\ w.begun => w.sps # NoSps
    /\ w.begun /\ w.samples = <<>> => w.complete

\* A complete clip stops recording, and only a long enough one is written.
ClipFits(w) ==
    /\ w \in Recordings /\ Len(w.packets) <= PacketBuffer /\ SamplesFit(w)
    /\ w.complete => w.at # "recording"
    /\ w.at = "writing" => Duration(w.samples) >= ClipMinTicks

ClipInv ==
    /\ ClipType /\ SavedClipPlays /\ active <= started
    /\ \A c \in ClipIds : ClipFits(clip[c]) /\ (c > started => clip[c] = NewClip)

\* A timestamp's distance from the first is an integer, and zero at the first.
LEMMA PtsFacts ==
    ASSUME NEW ts \in Int, NEW first \in Int
    PROVE  Pts(ts, first) \in Int /\ Pts(ts, ts) = 0
<1>1. TimestampWrap \in Nat /\ TimestampWrap > 0 /\ TimestampWrap % 2 = 0
  BY ClipAssumption
<1>2. TimestampWrap \div 2 \in Int /\ TimestampWrap \div 2 > 0
  BY <1>1
<1>3. (ts - first) % TimestampWrap \in Int  BY <1>1
<1>4. (ts - ts) % TimestampWrap = 0  BY <1>1
<1> QED  BY <1>1, <1>2, <1>3, <1>4 DEF Pts

\* A later sample at the end leaves the clip playable.
LEMMA AppendPlays ==
    ASSUME NEW s \in Seq(Samples), Playable(s), NEW x \in Samples,
           x.pts < ClipMaxTicks,
           s # <<>> => s[Len(s)].pts < x.pts /\ x.sps = s[1].sps,
           s = <<>> => x.idr /\ x.pts = 0
    PROVE  Append(s, x) \in Seq(Samples) /\ Playable(Append(s, x))
<1> DEFINE t == Append(s, x)
           n == Len(s)
<1>1. /\ t \in Seq(Samples) /\ Len(t) = n + 1 /\ n \in Nat /\ t[n + 1] = x
      /\ \A i \in 1 .. n : t[i] = s[i]
      /\ s = <<>> <=> n = 0
  OBVIOUS
<1>2. \A i \in 1 .. n : s[i].pts < ClipMaxTicks  BY DEF Playable
<1>3. \A i \in 2 .. n : s[i - 1].pts < s[i].pts /\ s[i].sps = s[1].sps  BY DEF Playable
<1>4. t # <<>> => t[1].idr /\ t[1].pts = 0
  <2>1. CASE n = 0  BY <1>1, <2>1
  <2>2. CASE n > 0
    <3>1. s # <<>> /\ t[1] = s[1]  BY <1>1, <2>2
    <3>2. s[1].idr /\ s[1].pts = 0  BY <3>1 DEF Playable
    <3> QED  BY <3>1, <3>2
  <2> QED  BY <1>1, <2>1, <2>2
<1>5. ASSUME NEW i \in 1 .. n + 1 PROVE t[i].pts < ClipMaxTicks
  <2>1. CASE i = n + 1  BY <1>1, <2>1
  <2>2. CASE i \in 1 .. n  BY <1>1, <1>2, <2>2
  <2> QED  BY <1>1, <2>1, <2>2
<1>6. ASSUME NEW i \in 2 .. n + 1 PROVE t[i - 1].pts < t[i].pts /\ t[i].sps = t[1].sps
  <2>1. CASE i = n + 1
    <3>1. n > 0 /\ i - 1 = n  BY <1>1, <2>1
    <3>a. n \in 1 .. n /\ 1 \in 1 .. n  BY <1>1, <3>1
    <3>b. t[i] = x  BY <1>1, <2>1
    <3>2. t[n] = s[n] /\ t[1] = s[1] /\ s # <<>> /\ t[i] = x
      <4> HIDE DEF t
      <4> QED  BY <1>1, <3>1, <3>a, <3>b
    <3>3. s[n].pts < x.pts /\ x.sps = s[1].sps  BY <3>2
    <3> QED  BY <3>1, <3>2, <3>3
  <2>2. CASE i \in 2 .. n
    <3>1. t[i] = s[i] /\ t[i - 1] = s[i - 1] /\ t[1] = s[1]  BY <1>1, <2>2
    <3> QED  BY <1>3, <2>2, <3>1
  <2> QED  BY <1>1, <2>1, <2>2
<1> HIDE DEF t
<1> QED  BY <1>1, <1>4, <1>5, <1>6 DEF Playable, t

\* So does more of the last frame.
LEMMA MergePlays ==
    ASSUME NEW s \in Seq(Samples), Playable(s), s # <<>>, NEW b \in BOOLEAN,
           s[Len(s)].idr => b
    PROVE  LET t == [s EXCEPT ![Len(s)].idr = b]
           IN  /\ t \in Seq(Samples) /\ Playable(t) /\ Len(t) = Len(s)
               /\ \A i \in 1 .. Len(s) : t[i].sps = s[i].sps
<1> DEFINE n == Len(s)
           x == [s[n] EXCEPT !.idr = b]
           t == [s EXCEPT ![n].idr = b]
<1>1. n \in Nat /\ n > 0 /\ s[n] \in Samples  OBVIOUS
<1>2. x \in Samples /\ x.pts = s[n].pts /\ x.sps = s[n].sps /\ x.idr = b
  BY <1>1 DEF Samples
<1>3. t = [s EXCEPT ![n] = x]  BY <1>1
<1> HIDE DEF x, t
<1>4. /\ t \in Seq(Samples) /\ Len(t) = n /\ t[n] = x
      /\ \A i \in 1 .. n : i # n => t[i] = s[i]
  BY <1>1, <1>2, <1>3
<1>5. \A i \in 1 .. n : t[i].pts = s[i].pts /\ t[i].sps = s[i].sps /\ (s[i].idr => t[i].idr)
  BY <1>2, <1>4
<1>6. /\ s[1].idr /\ s[1].pts = 0 /\ \A i \in 1 .. n : s[i].pts < ClipMaxTicks
      /\ \A i \in 2 .. n : s[i - 1].pts < s[i].pts /\ s[i].sps = s[1].sps
  BY DEF Playable
<1>7. t[1].idr /\ t[1].pts = 0 /\ \A i \in 1 .. n : t[i].pts < ClipMaxTicks
  BY <1>1, <1>5, <1>6
<1>8. ASSUME NEW i \in 2 .. n PROVE t[i - 1].pts < t[i].pts /\ t[i].sps = t[1].sps
  <2>1. i \in 1 .. n /\ i - 1 \in 1 .. n /\ 1 \in 1 .. n  BY <1>1
  <2> QED  BY <1>5, <1>6, <2>1
<1>9. Playable(t)  BY <1>4, <1>7, <1>8 DEF Playable
<1> QED  BY <1>4, <1>5, <1>9 DEF t

\* The samples decide, whatever else of the clip changes.
LEMMA SamplesStay ==
    ASSUME NEW w, NEW v, SamplesFit(w), v.samples = w.samples, v.sps = w.sps,
           v.begun = w.begun, w.complete => v.complete
    PROVE  SamplesFit(v)
BY DEF SamplesFit

\* What a clip that records is after a packet.
Recorded(w, v) ==
    /\ v \in Recordings /\ SamplesFit(v)
    /\ v.at = w.at /\ v.packets = w.packets /\ v.entrypoint = w.entrypoint

\* Complete keeps what there is.
LEMMA CompleteRecords ==
    ASSUME NEW w \in Recordings, Playable(w.samples),
           \A i \in 1 .. Len(w.samples) : w.samples[i].sps = w.sps,
           w.begun, w.sps # NoSps
    PROVE  Recorded(w, Complete(w))
<1>1. ASSUME NEW t \in BOOLEAN, t
      PROVE  LET v == [w EXCEPT !.complete = t]
             IN  /\ v \in Recordings /\ v.samples = w.samples /\ v.sps = w.sps
                 /\ v.begun = w.begun /\ v.complete
                 /\ v.at = w.at /\ v.packets = w.packets /\ v.entrypoint = w.entrypoint
  BY <1>1 DEF Recordings
<1>2. /\ Complete(w) \in Recordings /\ Complete(w).samples = w.samples
      /\ Complete(w).sps = w.sps /\ Complete(w).begun = w.begun /\ Complete(w).complete
      /\ Complete(w).at = w.at /\ Complete(w).packets = w.packets
      /\ Complete(w).entrypoint = w.entrypoint
  BY <1>1 DEF Complete
<1> QED  BY <1>2 DEF Recorded, SamplesFit
\* accessUnit once the clip has begun: the unit is dropped, ends the clip, or is
\* a sample at the end or more of the last one.
LEMMA AddUnitRecords ==
    ASSUME NEW w \in Recordings, NEW u \in AccessUnits, Playable(w.samples),
           \A i \in 1 .. Len(w.samples) : w.samples[i].sps = w.sps,
           w.begun, w.sps # NoSps,
           w.samples = <<>> => u.idr /\ w.first = u.ts
    PROVE  Recorded(w, AddUnit(w, u))
<1> DEFINE pts == Pts(u.ts, w.first)
           s == w.samples
           n == Len(s)
<1>1. /\ s \in Seq(Samples) /\ n \in Nat /\ w.first \in Int /\ w.size \in Nat
      /\ w.sps \in {a.sps : a \in AccessUnits}
  BY DEF Recordings
<1>2. u.ts \in Int /\ u.size \in Nat /\ u.idr \in BOOLEAN /\ (u.idr => u.size > 0)
      /\ ClipMaxTicks \in Nat /\ ClipMaxTicks > 0 /\ ClipMaxBytes \in Nat
  BY ClipAssumption
<1>3. pts \in Int /\ (s = <<>> => pts = 0)
  BY <1>1, <1>2, PtsFacts
<1>4. ASSUME s # <<>> PROVE Recorded(w, w)
  BY <1>4 DEF Recorded, SamplesFit
<1>5. Recorded(w, Complete(w))  BY CompleteRecords
<1>6. ASSUME ~(u.size = 0), ~(pts >= ClipMaxTicks), ~Reordered(w, pts)
      PROVE  Recorded(w, AddSample(w, u, pts))
  <2>1. PICK t \in Seq(Samples) :
            /\ AddSample(w, u, pts) = [w EXCEPT !.size = @ + u.size, !.samples = t]
            /\ Playable(t) /\ t # <<>>
            /\ \A i \in 1 .. Len(t) : t[i].sps = w.sps
    <3>1. CASE n > 0 /\ pts = s[n].pts
      <4> DEFINE b == s[n].idr \/ u.idr
                 t == [s EXCEPT ![n].idr = b]
      <4>1. s # <<>> /\ b \in BOOLEAN /\ (s[n].idr => b)  BY <1>1, <3>1
      <4> HIDE DEF b
      <4>2. /\ t \in Seq(Samples) /\ Playable(t) /\ Len(t) = n
            /\ \A i \in 1 .. n : t[i].sps = s[i].sps
        BY <1>1, <4>1, MergePlays
      <4>3. AddSample(w, u, pts) = [w EXCEPT !.size = @ + u.size, !.samples = t]
        <5>1. [s EXCEPT ![n].idr = @ \/ u.idr] = t  BY DEF b
        <5>2. AddSample(w, u, pts)
                = [w EXCEPT !.size = @ + u.size,
                            !.samples = IF n > 0 /\ pts = s[n].pts
                                          THEN [s EXCEPT ![n].idr = @ \/ u.idr]
                                          ELSE Append(s, [pts |-> pts, idr |-> u.idr,
                                                          sps |-> w.sps])]
          BY Zenon DEF AddSample
        <5> HIDE DEF t
        <5> QED  BY <3>1, <5>1, <5>2
      <4>4. t # <<>> /\ \A i \in 1 .. Len(t) : t[i].sps = w.sps
        <5> HIDE DEF t
        <5> QED  BY <1>1, <3>1, <4>2
      <4> HIDE DEF t
      <4> QED  BY <4>2, <4>3, <4>4
    <3>2. CASE ~(n > 0 /\ pts = s[n].pts)
      <4> DEFINE x == [pts |-> pts, idr |-> u.idr, sps |-> w.sps]
                 t == Append(s, x)
      <4>1. x \in Samples /\ x.pts = pts /\ x.idr = u.idr /\ x.sps = w.sps
        BY <1>1, <1>2, <1>3 DEF Samples
      <4>2. s # <<>> => s[n].pts < pts /\ w.sps = s[1].sps
        <5> SUFFICES ASSUME s # <<>> PROVE s[n].pts < pts /\ w.sps = s[1].sps
          OBVIOUS
        <5>1. n > 0 /\ s[n] \in Samples /\ 1 \in 1 .. n  BY <1>1
        <5>2. s[n].pts \in Int  BY <5>1 DEF Samples
        <5>3. ~(pts < s[n].pts) /\ pts # s[n].pts  BY <1>6, <3>2, <5>1 DEF Reordered
        <5> QED  BY <1>3, <5>1, <5>2, <5>3
      <4>3. pts < ClipMaxTicks  BY <1>2, <1>3, <1>6
      <4>4. t \in Seq(Samples) /\ Playable(t)
        <5> HIDE DEF x
        <5> QED  BY <1>1, <1>3, <4>1, <4>2, <4>3, AppendPlays
      <4>5. AddSample(w, u, pts) = [w EXCEPT !.size = @ + u.size, !.samples = t]
        BY <3>2 DEF AddSample
      <4>6. t # <<>> /\ \A i \in 1 .. Len(t) : t[i].sps = w.sps
        <5> HIDE DEF x
        <5>1. /\ Len(t) = n + 1 /\ t[n + 1] = x /\ \A i \in 1 .. n : t[i] = s[i]
          BY <1>1, <4>1
        <5>2. \A i \in 1 .. n : s[i].sps = w.sps  OBVIOUS
        <5> HIDE DEF t
        <5>3. ASSUME NEW i \in 1 .. n + 1 PROVE t[i].sps = w.sps
          <6>1. CASE i = n + 1  BY <4>1, <5>1, <6>1
          <6>2. CASE i \in 1 .. n  BY <5>1, <5>2, <6>2
          <6> QED  BY <1>1, <6>1, <6>2
        <5> QED  BY <1>1, <5>1, <5>3
      <4> HIDE DEF t
      <4> QED  BY <4>4, <4>5, <4>6
    <3> QED  BY <3>1, <3>2
  <2>2. w.size + u.size \in Nat  BY <1>1, <1>2
  <2>3. ASSUME NEW z \in Nat, NEW t1 \in Seq(Samples)
        PROVE  LET v == [w EXCEPT !.size = z, !.samples = t1]
               IN  /\ v \in Recordings /\ v.samples = t1 /\ v.sps = w.sps
                   /\ v.begun = w.begun /\ v.at = w.at /\ v.packets = w.packets
                   /\ v.entrypoint = w.entrypoint
    BY DEF Recordings
  <2>4. AddSample(w, u, pts) = [w EXCEPT !.size = w.size + u.size, !.samples = t]
    BY <2>1 DEF Recordings
  <2> DEFINE v == AddSample(w, u, pts)
  <2>5. /\ v \in Recordings /\ v.samples = t /\ v.sps = w.sps /\ v.begun = w.begun
        /\ v.at = w.at /\ v.packets = w.packets /\ v.entrypoint = w.entrypoint
    <3>1. v = [w EXCEPT !.size = w.size + u.size, !.samples = t]  BY <2>4
    <3> HIDE DEF v, pts
    <3> QED  BY <2>2, <2>3, <3>1
  <2> HIDE DEF v
  <2>6. SamplesFit(v)  BY <2>1, <2>5 DEF SamplesFit
  <2>7. Recorded(w, v)  BY <2>5, <2>6 DEF Recorded
  <2> QED  BY <2>7 DEF v
<1>7. s = <<>> => ~(u.size = 0) /\ ~(pts >= ClipMaxTicks) /\ ~Reordered(w, pts)
  BY <1>1, <1>2, <1>3 DEF Reordered
<1> HIDE DEF pts
<1>8. CASE u.size = 0
  <2>1. AddUnit(w, u) = w  BY <1>8 DEF AddUnit
  <2> QED  BY <1>4, <1>7, <1>8, <2>1
<1>9. CASE ~(u.size = 0) /\ pts >= ClipMaxTicks
  <2>1. AddUnit(w, u) = Complete(w)  BY <1>9 DEF AddUnit, pts
  <2> QED  BY <1>5, <2>1
<1>10. CASE ~(u.size = 0) /\ ~(pts >= ClipMaxTicks) /\ Reordered(w, pts)
  <2>1. AddUnit(w, u) = w  BY <1>10 DEF AddUnit, pts
  <2> QED  BY <1>4, <1>7, <1>10, <2>1
<1>11. CASE /\ ~(u.size = 0) /\ ~(pts >= ClipMaxTicks) /\ ~Reordered(w, pts)
            /\ w.size + u.size > ClipMaxBytes
  <2>1. AddUnit(w, u) = Complete(w)  BY <1>11 DEF AddUnit, pts
  <2> QED  BY <1>5, <2>1
<1>12. CASE /\ ~(u.size = 0) /\ ~(pts >= ClipMaxTicks) /\ ~Reordered(w, pts)
            /\ ~(w.size + u.size > ClipMaxBytes)
  <2>1. AddUnit(w, u) = AddSample(w, u, pts)  BY <1>12 DEF AddUnit, pts
  <2> QED  BY <1>6, <1>12, <2>1
<1> QED  BY <1>8, <1>9, <1>10, <1>11, <1>12

\* accessUnit: whatever the camera sends, the samples stay playable.
LEMMA PushRecords ==
    ASSUME NEW w \in Recordings, NEW u \in AccessUnits, SamplesFit(w), ~w.complete
    PROVE  Recorded(w, Push(w, u))
<1>0. u.idr \in BOOLEAN /\ u.pps \in BOOLEAN /\ u.ts \in Int
  BY ClipAssumption
<1>1. CASE w.begun
  <2>1. /\ Playable(w.samples) /\ w.sps # NoSps /\ w.samples # <<>>
        /\ \A i \in 1 .. Len(w.samples) : w.samples[i].sps = w.sps
    BY <1>1 DEF SamplesFit
  <2>2. Recorded(w, Complete(w))  BY <1>1, <2>1, CompleteRecords
  <2>3. Recorded(w, AddUnit(w, u))  BY <1>1, <2>1, AddUnitRecords
  <2> QED  BY <1>1, <2>2, <2>3 DEF Push
<1>2. CASE ~w.begun
  <2> DEFINE sps == IF u.sps = NoSps THEN w.sps ELSE u.sps
             pps == w.pps \/ u.pps
             seen == [w EXCEPT !.sps = IF u.sps = NoSps THEN @ ELSE u.sps,
                               !.pps = @ \/ u.pps]
  <2>1. w.samples = <<>>  BY <1>2 DEF SamplesFit
  <2>2. seen = [w EXCEPT !.sps = sps, !.pps = pps]  OBVIOUS
  <2>3. pps \in BOOLEAN  BY <1>0 DEF Recordings
  <2>4. sps \in {a.sps : a \in AccessUnits} \cup {NoSps}  BY DEF Recordings
  <2> HIDE DEF sps, pps
  <2>5. /\ seen \in Recordings /\ seen.samples = <<>> /\ seen.sps = sps
        /\ seen.begun = w.begun /\ seen.at = w.at
        /\ seen.packets = w.packets /\ seen.entrypoint = w.entrypoint
    BY <2>1, <2>2, <2>3, <2>4 DEF Recordings
  <2> HIDE DEF seen
  <2>6. Playable(<<>>)
    BY DEF Playable
  <2>7. Recorded(w, seen)
    BY <1>2, <2>5, <2>6 DEF Recorded, SamplesFit
  <2>8. ASSUME u.idr, seen.sps # NoSps
        PROVE  Recorded(w, AddUnit([seen EXCEPT !.begun = TRUE, !.first = u.ts], u))
    <3> DEFINE v == [seen EXCEPT !.begun = TRUE, !.first = u.ts]
    <3>1. ASSUME NEW t \in BOOLEAN, t
          PROVE  LET r == [seen EXCEPT !.begun = t, !.first = u.ts]
                 IN  /\ r \in Recordings /\ r.samples = <<>> /\ r.sps = sps /\ r.begun
                     /\ r.first = u.ts /\ r.at = w.at /\ r.packets = w.packets
                     /\ r.entrypoint = w.entrypoint
      BY <1>0, <2>5, <3>1 DEF Recordings
    <3>2. /\ v \in Recordings /\ v.samples = <<>> /\ v.sps = sps /\ v.begun
          /\ v.first = u.ts /\ v.at = w.at /\ v.packets = w.packets
          /\ v.entrypoint = w.entrypoint
      BY <3>1
    <3> HIDE DEF v
    <3>3. \A i \in 1 .. Len(v.samples) : v.samples[i].sps = v.sps
      BY <3>2
    <3>4. Recorded(v, AddUnit(v, u))
      BY <2>5, <2>6, <2>8, <3>2, <3>3, AddUnitRecords
    <3>5. Recorded(w, AddUnit(v, u))
      BY <3>2, <3>4 DEF Recorded
    <3> QED  BY <3>5 DEF v
  <2> QED  BY <1>2, <2>7, <2>8 DEF Push, seen
<1> QED  BY <1>1, <1>2 DEF Recordings
\* The facts about the state that the steps below start from.
LEMMA ClipFacts ==
    ASSUME ClipInv
    PROVE  /\ clip \in [ClipIds -> Recordings] /\ MaxClips \in Nat
           /\ ClipIds = 1 .. MaxClips /\ PacketBuffer \in Nat /\ PacketBuffer > 0
           /\ started \in 0 .. MaxClips /\ active \in 0 .. MaxClips
           /\ active <= started
           /\ clipFile \in [ClipEntrypoints -> Seq(Samples)]
           /\ temporary \subseteq ClipIds /\ alive \in BOOLEAN
           /\ \A c \in ClipIds : ClipFits(clip[c]) /\ (c > started => clip[c] = NewClip)
BY ClipAssumption DEF ClipInv, ClipType, ClipIds

\* A clip that was never started.
LEMMA NewClipFits ==
    ClipFits(NewClip) /\ NewClip.at = "none"
<1>1. (CHOOSE ep \in ClipEntrypoints : TRUE) \in ClipEntrypoints
  BY ClipAssumption
<1>2. ASSUME NEW t \in BOOLEAN, ~t
      PROVE  LET v == [at |-> "none", entrypoint |-> CHOOSE ep \in ClipEntrypoints : TRUE,
                       closed |-> t, packets |-> <<>>, complete |-> t, first |-> 0,
                       sps |-> NoSps, pps |-> t, begun |-> t, samples |-> <<>>, size |-> 0]
             IN  /\ v \in Recordings /\ v.packets = <<>> /\ v.samples = <<>>
                 /\ ~v.begun /\ ~v.complete /\ v.at = "none"
  BY <1>1, <1>2 DEF Recordings, ClipSteps
<1>3. /\ NewClip \in Recordings /\ NewClip.packets = <<>> /\ NewClip.samples = <<>>
      /\ ~NewClip.begun /\ ~NewClip.complete /\ NewClip.at = "none"
  BY <1>2 DEF NewClip
<1>4. Playable(<<>>)  BY DEF Playable
<1>5. Len(NewClip.packets) <= PacketBuffer  BY <1>3, ClipAssumption
<1> QED  BY <1>3, <1>4, <1>5 DEF ClipFits, SamplesFit

\* No clip at the start.
LEMMA ClipInitInv == ClipInit => ClipInv
<1> SUFFICES ASSUME ClipInit PROVE ClipInv  OBVIOUS
<1>1. \A c \in ClipIds : ClipFits(clip[c]) /\ clip[c] = NewClip
  BY NewClipFits DEF ClipInit
<1>2. ClipType
  <2>1. clip \in [ClipIds -> Recordings] /\ \A c \in ClipIds : Len(clip[c].packets) <= PacketBuffer
    BY <1>1, NewClipFits DEF ClipInit, ClipFits
  <2>2. alive \in BOOLEAN  BY DEF ClipInit
  <2>3. clipFile \in [ClipEntrypoints -> Seq(Samples)]  BY DEF ClipInit
  <2>4. started \in 0 .. MaxClips /\ active \in 0 .. MaxClips /\ temporary \subseteq ClipIds
    BY ClipAssumption DEF ClipInit
  <2> QED  BY <2>1, <2>2, <2>3, <2>4 DEF ClipType
<1>3. SavedClipPlays  BY DEF ClipInit, SavedClipPlays
<1> QED  BY <1>1, <1>2, <1>3 DEF ClipInv, ClipInit

\* A step of one clip that was started, and what is left to show of it.
LEMMA ClipMoves ==
    ASSUME ClipInv, NEW c \in ClipIds, c <= started, NEW w, ClipFits(w),
           clip' = [clip EXCEPT ![c] = w], started' = started, alive' = alive,
           active' \in {0, active}, clipFile' = clipFile,
           \/ temporary' = temporary /\ (c \in temporary /\ alive => w.at = "writing")
           \/ temporary' = temporary \cup {c} /\ w.at = "writing"
           \/ temporary' = temporary \ {c}
    PROVE  ClipInv'
<1>1. w \in Recordings /\ Len(w.packets) <= PacketBuffer  BY DEF ClipFits
<1>2. /\ clip' \in [ClipIds -> Recordings] /\ clip'[c] = w
      /\ \A d \in ClipIds \ {c} : clip'[d] = clip[d]
  BY <1>1, ClipFacts
<1>3. \A d \in ClipIds : ClipFits(clip'[d]) /\ (d > started' => clip'[d] = NewClip)
  BY <1>2, ClipFacts
<1>4. active' <= started' /\ active' \in 0 .. MaxClips  BY ClipFacts
<1>5. ClipType'
  <2>1. \A d \in ClipIds : Len(clip'[d].packets) <= PacketBuffer
    BY <1>3 DEF ClipFits
  <2>2. temporary' \subseteq ClipIds  BY ClipFacts
  <2> QED  BY <1>2, <1>4, <2>1, <2>2, ClipFacts DEF ClipType
<1>6. SavedClipPlays'
  <2>1. \A ep \in ClipEntrypoints :
           clipFile'[ep] # <<>> =>
               Playable(clipFile'[ep]) /\ Duration(clipFile'[ep]) >= ClipMinTicks
    BY DEF ClipInv, SavedClipPlays
  <2>2. ASSUME alive', NEW d \in temporary' PROVE clip'[d].at = "writing"
    <3>1. \A e \in temporary : clip[e].at = "writing"
      BY <2>2 DEF ClipInv, SavedClipPlays
    <3>2. CASE d = c  BY <1>2, <2>2, <3>2
    <3>3. CASE d # c  BY <1>2, <2>2, <3>1, <3>3, ClipFacts
    <3> QED  BY <3>2, <3>3
  <2> QED  BY <2>1, <2>2 DEF SavedClipPlays
<1> QED  BY <1>3, <1>4, <1>5, <1>6 DEF ClipInv

\* A clip with another step, and the same samples.
LEMMA ClipStays ==
    ASSUME NEW w, ClipFits(w), NEW x \in ClipSteps,
           w.complete => x # "recording", x = "writing" => Duration(w.samples) >= ClipMinTicks
    PROVE  LET v == [w EXCEPT !.at = x]
           IN  ClipFits(v) /\ v.at = x
<1> DEFINE v == [w EXCEPT !.at = x]
<1>1. w \in Recordings /\ SamplesFit(w) /\ Len(w.packets) <= PacketBuffer  BY DEF ClipFits
<1>2. /\ v \in Recordings /\ v.at = x /\ v.packets = w.packets /\ v.samples = w.samples
      /\ v.sps = w.sps /\ v.begun = w.begun /\ v.complete = w.complete
  BY <1>1 DEF Recordings
<1> HIDE DEF v
<1>3. SamplesFit(v)  BY <1>1, <1>2, SamplesStay
<1>4. ClipFits(v)  BY <1>1, <1>2, <1>3 DEF ClipFits
<1> QED  BY <1>2, <1>4 DEF v

\* A clip that is closed, and one whose run ends.
LEMMA ClipClosed ==
    ASSUME NEW w, ClipFits(w)
    PROVE  /\ ClipFits([w EXCEPT !.closed = TRUE])
           /\ [w EXCEPT !.closed = TRUE].at = w.at
<1>1. w \in Recordings /\ SamplesFit(w) /\ Len(w.packets) <= PacketBuffer  BY DEF ClipFits
<1>2. ASSUME NEW t \in BOOLEAN
      PROVE  LET v == [w EXCEPT !.closed = t]
             IN  ClipFits(v) /\ v.at = w.at
  <2> DEFINE v == [w EXCEPT !.closed = t]
  <2>1. /\ v \in Recordings /\ v.at = w.at /\ v.packets = w.packets /\ v.samples = w.samples
        /\ v.sps = w.sps /\ v.begun = w.begun /\ v.complete = w.complete
    BY <1>1 DEF Recordings
  <2> HIDE DEF v
  <2>2. SamplesFit(v)  BY <1>1, <2>1, SamplesStay
  <2>3. ClipFits(v)  BY <1>1, <2>1, <2>2 DEF ClipFits
  <2> QED  BY <2>1, <2>3 DEF v
<1> QED  BY <1>2

\* finish begins.
LEMMA ClipFinishes ==
    ASSUME NEW w, w \in Recordings, SamplesFit(w), Len(w.packets) <= PacketBuffer
    PROVE  ClipFits(Finishes(w)) /\ Finishes(w).at = "finishing"
<1>1. ASSUME NEW t \in BOOLEAN
      PROVE  LET v == [w EXCEPT !.at = "finishing", !.closed = t]
             IN  ClipFits(v) /\ v.at = "finishing"
  <2> DEFINE v == [w EXCEPT !.at = "finishing", !.closed = t]
  <2>1. /\ v \in Recordings /\ v.at = "finishing" /\ v.packets = w.packets
        /\ v.samples = w.samples
        /\ v.sps = w.sps /\ v.begun = w.begun /\ v.complete = w.complete
    BY DEF Recordings, ClipSteps
  <2> HIDE DEF v
  <2>2. SamplesFit(v)  BY <2>1, SamplesStay
  <2>3. ClipFits(v)  BY <2>1, <2>2 DEF ClipFits
  <2> QED  BY <2>1, <2>3 DEF v
<1> QED  BY <1>1 DEF Finishes

\* A clip that is at a step was started.
LEMMA StepStarted ==
    ASSUME ClipInv, NEW c \in ClipIds, clip[c].at # "none"
    PROVE  c <= started
BY ClipFacts, NewClipFits

\* The recording: packets, the close, and the end of the run.
LEMMA RecordStep ==
    ASSUME ClipInv, NEW c \in ClipIds,
           \/ \E u \in AccessUnits : ClipVideoRTP(c, u)
           \/ CloseClip(c) \/ TakePacket(c) \/ RunEnds(c)
    PROVE  ClipInv'
<1> DEFINE w == clip[c]
<1>0. /\ w.at = "recording" /\ alive
      /\ UNCHANGED <<started, clipFile, temporary, alive>>
  BY DEF ClipVideoRTP, CloseClip, TakePacket, RunEnds, Records
<1>1. c <= started /\ ClipFits(w) /\ ~w.complete /\ c \notin temporary
  <2>1. c <= started  BY <1>0, StepStarted
  <2>2. ClipFits(w)  BY ClipFacts
  <2>3. ~w.complete  BY <1>0, <2>2 DEF ClipFits
  <2>4. c \notin temporary  BY <1>0 DEF ClipInv, SavedClipPlays
  <2> QED  BY <2>1, <2>2, <2>3, <2>4
<1>2. /\ w \in Recordings /\ SamplesFit(w) /\ Len(w.packets) <= PacketBuffer
      /\ w.packets \in Seq(AccessUnits)
  BY <1>1 DEF ClipFits, Recordings
<1>3. ASSUME NEW v, ClipFits(v), clip' = [clip EXCEPT ![c] = v], active' \in {0, active}
      PROVE  ClipInv'
  BY <1>0, <1>1, <1>3, ClipMoves
<1>4. ASSUME NEW p \in Seq(AccessUnits), Len(p) <= PacketBuffer
      PROVE  LET v == [w EXCEPT !.packets = p]
             IN  /\ v \in Recordings /\ v.packets = p /\ SamplesFit(v) /\ ~v.complete
                 /\ v.at = "recording" /\ ClipFits(v)
  <2> DEFINE v == [w EXCEPT !.packets = p]
  <2>1. /\ v \in Recordings /\ v.at = w.at /\ v.packets = p /\ v.samples = w.samples
        /\ v.sps = w.sps /\ v.begun = w.begun /\ v.complete = w.complete
    BY <1>2 DEF Recordings
  <2> HIDE DEF v
  <2>2. SamplesFit(v)  BY <1>2, <2>1, SamplesStay
  <2>3. ClipFits(v)  BY <1>0, <1>1, <1>4, <2>1, <2>2 DEF ClipFits
  <2> QED  BY <1>0, <1>1, <2>1, <2>2, <2>3 DEF v
<1>5. ASSUME NEW u \in AccessUnits, ClipVideoRTP(c, u) PROVE ClipInv'
  <2> DEFINE p == IF Len(w.packets) < PacketBuffer THEN Append(w.packets, u) ELSE w.packets
  <2>1. clip' = [clip EXCEPT ![c] = [w EXCEPT !.packets = p]] /\ active' = active
    BY <1>5, ClipFacts DEF ClipVideoRTP
  <2>2. p \in Seq(AccessUnits) /\ Len(p) <= PacketBuffer
    BY <1>2, ClipFacts
  <2> HIDE DEF p, w
  <2> QED  BY <1>3, <1>4, <2>1, <2>2
<1>6. CASE CloseClip(c)
  <2>1. clip' = [clip EXCEPT ![c] = [w EXCEPT !.closed = TRUE]] /\ active' = active
    BY <1>6, ClipFacts DEF CloseClip, Closed
  <2> HIDE DEF w
  <2> QED  BY <1>1, <1>3, <2>1, ClipClosed
<1>7. CASE TakePacket(c)
  <2> DEFINE p == Tail(w.packets)
             u == Head(w.packets)
             v == Push([w EXCEPT !.packets = p], u)
  <2>1. p \in Seq(AccessUnits) /\ Len(p) <= PacketBuffer /\ u \in AccessUnits
    BY <1>2, <1>7, ClipFacts DEF TakePacket
  <2>2. /\ clip' = [clip EXCEPT ![c] = IF v.complete THEN Finishes(v) ELSE v]
        /\ active' \in {0, active}
    BY <1>7, ClipFacts DEF TakePacket
  <2> HIDE DEF p, u
  <2>3. /\ [w EXCEPT !.packets = p] \in Recordings /\ SamplesFit([w EXCEPT !.packets = p])
        /\ ~[w EXCEPT !.packets = p].complete /\ [w EXCEPT !.packets = p].packets = p
        /\ [w EXCEPT !.packets = p].at = "recording"
    BY <1>4, <2>1
  <2>4. /\ v \in Recordings /\ SamplesFit(v) /\ v.at = "recording" /\ v.packets = p
    BY <2>1, <2>3, PushRecords DEF Recorded
  <2> HIDE DEF v, w
  <2>5. CASE v.complete
    BY <1>3, <2>1, <2>2, <2>4, <2>5, ClipFinishes
  <2>6. CASE ~v.complete
    <3>1. ClipFits(v)  BY <2>1, <2>4, <2>6 DEF ClipFits
    <3> QED  BY <1>3, <2>2, <2>6, <3>1
  <2> QED  BY <2>5, <2>6
<1>8. CASE RunEnds(c)
  <2>1. clip' = [clip EXCEPT ![c] = Finishes(w)] /\ active' \in {0, active}
    BY <1>8, ClipFacts DEF RunEnds
  <2> HIDE DEF w
  <2> QED  BY <1>2, <1>3, <2>1, ClipFinishes
<1> QED  BY <1>5, <1>6, <1>7, <1>8

\* finish: the clip is discarded, written or published.
LEMMA FinishStep ==
    ASSUME ClipInv, NEW c \in ClipIds, FinishClip(c) \/ WriteFails(c) \/ PublishClip(c)
    PROVE  ClipInv'
<1> DEFINE w == clip[c]
<1>0. /\ w.at \in {"finishing", "writing"} /\ alive /\ c <= started /\ ClipFits(w)
      /\ UNCHANGED <<started, active, alive>>
  <2>1. w.at \in {"finishing", "writing"} /\ alive /\ UNCHANGED <<started, active, alive>>
    BY DEF FinishClip, WriteFails, PublishClip, Discard
  <2> QED  BY <2>1, ClipFacts, StepStarted
<1>1. ASSUME NEW x \in ClipSteps, x # "recording",
             x = "writing" => Duration(w.samples) >= ClipMinTicks
      PROVE  ClipFits([w EXCEPT !.at = x]) /\ [w EXCEPT !.at = x].at = x
  BY <1>0, <1>1, ClipStays
<1>2. "over" \in ClipSteps /\ "writing" \in ClipSteps  BY DEF ClipSteps
<1>3. ASSUME NEW x, clip' = [clip EXCEPT ![c].at = x]
      PROVE  clip' = [clip EXCEPT ![c] = [w EXCEPT !.at = x]]
  BY <1>3, ClipFacts
<1>4. ClipFits([w EXCEPT !.at = "over"])  BY <1>1, <1>2
<1>5. CASE FinishClip(c)
  <2>1. w.at = "finishing" /\ c \notin temporary
    BY <1>0, <1>5 DEF FinishClip, ClipInv, SavedClipPlays
  <2>2. CASE Discard(c) /\ temporary' = temporary
    <3>1. clip' = [clip EXCEPT ![c] = [w EXCEPT !.at = "over"]] /\ clipFile' = clipFile
      BY <1>3, <2>2 DEF Discard
    <3> HIDE DEF w
    <3> QED  BY <1>0, <1>4, <2>1, <2>2, <3>1, ClipMoves
  <2>3. CASE /\ Duration(clip[c].samples) >= ClipMinTicks
             /\ clip' = [clip EXCEPT ![c].at = "writing"]
             /\ temporary' = temporary \cup {c} /\ clipFile' = clipFile
    <3>1. clip' = [clip EXCEPT ![c] = [w EXCEPT !.at = "writing"]]
      BY <1>3, <2>3
    <3>2. ClipFits([w EXCEPT !.at = "writing"]) /\ [w EXCEPT !.at = "writing"].at = "writing"
      BY <1>1, <1>2, <2>3
    <3> HIDE DEF w
    <3> QED  BY <1>0, <2>3, <3>1, <3>2, ClipMoves
  <2> QED  BY <1>5, <2>2, <2>3 DEF FinishClip
<1>6. CASE WriteFails(c)
  <2>1. clip' = [clip EXCEPT ![c] = [w EXCEPT !.at = "over"]] /\ clipFile' = clipFile
        /\ temporary' = temporary \ {c}
    BY <1>3, <1>6 DEF WriteFails, Discard
  <2> HIDE DEF w
  <2> QED  BY <1>0, <1>4, <2>1, ClipMoves
<1>7. CASE PublishClip(c)
  <2>1. /\ clip' = [clip EXCEPT ![c] = [w EXCEPT !.at = "over"]]
        /\ temporary' = temporary \ {c}
        /\ clipFile' = [clipFile EXCEPT ![w.entrypoint] = w.samples]
        /\ w.at = "writing"
    BY <1>3, <1>7 DEF PublishClip
  <2>2. /\ w.samples \in Seq(Samples) /\ w.entrypoint \in ClipEntrypoints
        /\ Playable(w.samples) /\ Duration(w.samples) >= ClipMinTicks
    <3>1. w \in Recordings /\ Playable(w.samples) /\ Duration(w.samples) >= ClipMinTicks
      BY <1>0, <2>1 DEF ClipFits, SamplesFit
    <3> QED  BY <3>1 DEF Recordings
  <2>3. clipFile' \in [ClipEntrypoints -> Seq(Samples)]
    BY <2>1, <2>2, ClipFacts
  <2>4. \A ep \in ClipEntrypoints :
           clipFile'[ep] # <<>> =>
               Playable(clipFile'[ep]) /\ Duration(clipFile'[ep]) >= ClipMinTicks
    <3>1. \A ep \in ClipEntrypoints :
             clipFile[ep] # <<>> =>
                 Playable(clipFile[ep]) /\ Duration(clipFile[ep]) >= ClipMinTicks
      BY DEF ClipInv, SavedClipPlays
    <3> HIDE DEF w
    <3>2. \A ep \in ClipEntrypoints :
             clipFile'[ep] = IF ep = w.entrypoint THEN w.samples ELSE clipFile[ep]
      BY <2>1, <2>2, ClipFacts
    <3> QED  BY <2>2, <3>1, <3>2
  <2>5. [w EXCEPT !.at = "over"] \in Recordings  BY <1>4 DEF ClipFits
  <2> HIDE DEF w
  <2>6. /\ clip' \in [ClipIds -> Recordings] /\ clip'[c] = [w EXCEPT !.at = "over"]
        /\ \A d \in ClipIds \ {c} : clip'[d] = clip[d]
    BY <2>1, <2>5, ClipFacts
  <2>7. \A d \in ClipIds : ClipFits(clip'[d]) /\ (d > started' => clip'[d] = NewClip)
    <3> SUFFICES ASSUME NEW d \in ClipIds
                 PROVE  ClipFits(clip'[d]) /\ (d > started' => clip'[d] = NewClip)
      OBVIOUS
    <3>1. CASE d = c
      <4>1. ~(d > started')  BY <1>0, <3>1, ClipFacts
      <4> QED  BY <1>4, <2>6, <3>1, <4>1
    <3>2. CASE d # c
      <4>1. clip'[d] = clip[d] /\ started' = started  BY <1>0, <2>6, <3>2
      <4> QED  BY <4>1, ClipFacts
    <3> QED  BY <3>1, <3>2
  <2>8. ClipType'
    <3>1. \A d \in ClipIds : Len(clip'[d].packets) <= PacketBuffer
      BY <2>7 DEF ClipFits
    <3>2. temporary' \subseteq ClipIds  BY <2>1, ClipFacts
    <3> QED  BY <1>0, <2>3, <2>6, <3>1, <3>2, ClipFacts DEF ClipType
  <2>9. SavedClipPlays'
    <3>1. \A d \in temporary' : clip'[d].at = "writing"
      <4>1. \A d \in temporary : clip[d].at = "writing"
        BY <1>0 DEF ClipInv, SavedClipPlays
      <4> QED  BY <2>1, <2>6, <4>1, ClipFacts
    <3> QED  BY <2>4, <3>1 DEF SavedClipPlays
  <2> QED  BY <1>0, <2>7, <2>8, <2>9, ClipFacts DEF ClipInv
<1> QED  BY <1>5, <1>6, <1>7

\* Start: another clip, and the one before it is closed.
LEMMA StartRecordingStep ==
    ASSUME ClipInv, NEW ep \in ClipEntrypoints, StartRecording(ep)
    PROVE  ClipInv'
<1> DEFINE before == IF active = 0 THEN clip ELSE Closed(active)
           n == started + 1
           w == [NewClip EXCEPT !.at = "recording", !.entrypoint = ep]
<1>0. /\ n \in ClipIds /\ started' = n /\ active' = n /\ alive
      /\ UNCHANGED <<clipFile, temporary, alive>>
      /\ clip' = [before EXCEPT ![n].at = "recording", ![n].entrypoint = ep]
  BY ClipFacts DEF StartRecording
<1>1. /\ before \in [ClipIds -> Recordings] /\ before[n] = clip[n]
      /\ \A c \in ClipIds : /\ ClipFits(before[c]) /\ before[c].at = clip[c].at
                            /\ c > started => before[c] = NewClip
  <2>1. CASE active = 0  BY <1>0, <2>1, ClipFacts
  <2>2. CASE active # 0
    <3> DEFINE a == [clip[active] EXCEPT !.closed = TRUE]
    <3>1. active \in ClipIds /\ active # n /\ ~(active > started)
      BY <1>0, <2>2, ClipFacts
    <3>2. ClipFits(a) /\ a.at = clip[active].at
      BY <3>1, ClipFacts, ClipClosed
    <3>3. before = [clip EXCEPT ![active] = a]
      BY <2>2, <3>1, ClipFacts DEF Closed
    <3>4. a \in Recordings  BY <3>2 DEF ClipFits
    <3> HIDE DEF a, before
    <3> QED  BY <1>0, <3>1, <3>2, <3>3, <3>4, ClipFacts
  <2> QED  BY <2>1, <2>2
<1>2. before[n] = NewClip /\ clip[n] = NewClip  BY <1>0, <1>1, ClipFacts
<1> HIDE DEF before
<1>3. ClipFits(w) /\ w.at = "recording"
  <2>1. /\ NewClip \in Recordings /\ NewClip.packets = <<>> /\ SamplesFit(NewClip)
        /\ ~NewClip.complete
    <3>1. ClipFits(NewClip)  BY NewClipFits
    <3> QED  BY <3>1 DEF ClipFits, NewClip
  <2>2. /\ w \in Recordings /\ w.at = "recording" /\ w.packets = NewClip.packets
        /\ w.samples = NewClip.samples /\ w.sps = NewClip.sps
        /\ w.begun = NewClip.begun /\ w.complete = NewClip.complete
    BY <2>1 DEF Recordings, ClipSteps
  <2> HIDE DEF w
  <2>3. SamplesFit(w)  BY <2>1, <2>2, SamplesStay
  <2>4. Len(w.packets) <= PacketBuffer  BY <2>1, <2>2, ClipFacts
  <2> QED  BY <2>1, <2>2, <2>3, <2>4 DEF ClipFits
<1>4. clip' = [before EXCEPT ![n] = w]
  BY <1>0, <1>1, <1>2
<1>5. w \in Recordings  BY <1>3 DEF ClipFits
<1> HIDE DEF w
<1>6. /\ clip' \in [ClipIds -> Recordings] /\ clip'[n] = w
      /\ \A c \in ClipIds \ {n} : clip'[c] = before[c]
  BY <1>0, <1>1, <1>4, <1>5
<1>7. \A c \in ClipIds : ClipFits(clip'[c]) /\ (c > started' => clip'[c] = NewClip)
  <2> SUFFICES ASSUME NEW c \in ClipIds
               PROVE  ClipFits(clip'[c]) /\ (c > started' => clip'[c] = NewClip)
    OBVIOUS
  <2>1. CASE c = n  BY <1>0, <1>3, <1>6, <2>1, ClipFacts
  <2>2. CASE c # n
    <3>1. c > started' => c > started  BY <1>0, ClipFacts
    <3> QED  BY <1>1, <1>6, <2>2, <3>1
  <2> QED  BY <2>1, <2>2
<1>8. started' \in 0 .. MaxClips /\ active' \in 0 .. MaxClips /\ active' <= started'
  BY <1>0, ClipFacts
<1>9. ClipType'
  <2>1. \A c \in ClipIds : Len(clip'[c].packets) <= PacketBuffer
    BY <1>7 DEF ClipFits
  <2> QED  BY <1>0, <1>6, <1>8, <2>1, ClipFacts DEF ClipType
<1>10. SavedClipPlays'
  <2>1. \A c \in temporary : clip[c].at = "writing"
    BY <1>0 DEF ClipInv, SavedClipPlays
  <2>2. n \notin temporary  BY <1>2, <2>1, NewClipFits
  <2>3. \A c \in temporary' : clip'[c].at = "writing"
    BY <1>0, <1>1, <1>6, <2>1, <2>2, ClipFacts
  <2> QED  BY <1>0, <2>3 DEF ClipInv, SavedClipPlays
<1> QED  BY <1>7, <1>8, <1>9, <1>10 DEF ClipInv

\* A crash forgets the clips, and the start after it removes their leftovers.
LEMMA ClipCrashStep ==
    ASSUME ClipInv, ClipCrash \/ ClipRestart
    PROVE  ClipInv'
<1>1. CASE ClipCrash
  <2>1. /\ clip' = [c \in ClipIds |-> NewClip] /\ active' = 0 /\ ~alive'
        /\ alive' \in BOOLEAN /\ UNCHANGED <<started, clipFile, temporary>>
    BY <1>1 DEF ClipCrash
  <2>2. \A c \in ClipIds : ClipFits(clip'[c]) /\ clip'[c] = NewClip
    BY <2>1, NewClipFits
  <2>3. ClipType'
    <3>1. NewClip \in Recordings  BY NewClipFits DEF ClipFits
    <3>2. clip' \in [ClipIds -> Recordings]
          /\ \A c \in ClipIds : Len(clip'[c].packets) <= PacketBuffer
      BY <2>1, <2>2, <3>1 DEF ClipFits
    <3> QED  BY <2>1, <3>2, ClipFacts DEF ClipType
  <2>4. SavedClipPlays'  BY <2>1 DEF ClipInv, SavedClipPlays
  <2>5. active' <= started'  BY <2>1, ClipFacts
  <2> QED  BY <2>2, <2>3, <2>4, <2>5 DEF ClipInv
<1>2. CASE ClipRestart
  <2>1. /\ temporary' = {} /\ alive' \in BOOLEAN /\ UNCHANGED <<clip, started, active, clipFile>>
    BY <1>2 DEF ClipRestart
  <2>2. ClipType' /\ SavedClipPlays'
    BY <2>1 DEF ClipInv, ClipType, SavedClipPlays
  <2> QED  BY <2>1, <2>2 DEF ClipInv
<1> QED  BY <1>1, <1>2

\* Whatever the camera sends, in whatever order and across the wrap of its
\* timestamps, and whenever the power goes: the file of an entrypoint is a clip
\* that plays and is long enough, and a running recorder leaves no temporary
\* file behind (ringclip.go: accessUnit, addSample, finish, NewRingClipRecorder):
\* for every number of rings and entrypoints.
THEOREM SavedClipsPlay == ClipSpec => [](ClipType /\ SavedClipPlays)
<1>1. ClipInv /\ [ClipNext]_clipVars => ClipInv'
  <2> SUFFICES ASSUME ClipInv, [ClipNext]_clipVars PROVE ClipInv'
    OBVIOUS
  <2>1. CASE UNCHANGED clipVars
    BY <2>1 DEF clipVars, ClipInv, ClipType, SavedClipPlays
  <2> QED
    BY <2>1, StartRecordingStep, RecordStep, FinishStep, ClipCrashStep DEF ClipNext
<1>2. ClipInv => ClipType /\ SavedClipPlays  BY DEF ClipInv
<1> QED  BY <1>1, <1>2, ClipInitInv, PTL DEF ClipSpec
=============================================================================
