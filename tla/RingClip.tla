------------------------------ MODULE RingClip ------------------------------
(***************************************************************************)
(* media.RingClipRecorder and RingClip: the recording of a ring, from the  *)
(* packets of the fan-out to the file that keeps the last clip of an       *)
(* entrypoint.  One goroutine per clip takes the packets and writes the    *)
(* file, so a clip that is finishing overlaps the next one; a crash may    *)
(* come at any step.  A packet stands for the access unit it completes:    *)
(* its 32-bit timestamp (here modulo TimestampWrap), whether it is an IDR, *)
(* the SPS it carries, whether it carries a PPS, and its size.             *)
(***************************************************************************)
EXTENDS Integers, Sequences

CONSTANTS
    ClipEntrypoints,   \* entrypoints that ring
    MaxClips,          \* bound on the rings recorded
    AccessUnits,       \* what the camera may send
    NoSps,             \* no SPS carried, or none seen yet
    PacketBuffer,      \* ringClipPacketBufferSize
    ClipMaxTicks,      \* ringClipMaxTicks, 15 s
    ClipMinTicks,      \* ringClipMinDuration, 1 s
    DefaultTicks,      \* ringClipDefaultSampleDuration
    ClipMaxBytes,      \* ringClipMaxBytes, 8 MiB
    TimestampWrap      \* 2^32 in the code

ASSUME ClipAssumption ==
    /\ {MaxClips, PacketBuffer, ClipMaxTicks, ClipMinTicks, DefaultTicks,
        ClipMaxBytes, TimestampWrap} \subseteq Nat \ {0}
    /\ TimestampWrap % 2 = 0 /\ ClipMaxTicks <= TimestampWrap \div 2
    /\ ClipEntrypoints # {}
    /\ \A u \in AccessUnits :
           /\ u.ts \in 0 .. TimestampWrap - 1 /\ u.size \in Nat
           /\ u.idr \in BOOLEAN /\ u.pps \in BOOLEAN
           /\ u.idr => u.size > 0      \* the IDR slice is part of the payload

VARIABLES
    clip,      \* clip -> its recording
    started,   \* clips started so far
    active,    \* the recorder's active clip, 0 for nil
    clipFile,  \* entrypoint -> the samples of its file, <<>> if there is none
    temporary, \* the temporary files of clips
    alive      \* the process runs

clipVars == <<clip, started, active, clipFile, temporary, alive>>

ClipIds == 1 .. MaxClips
ClipSteps == {"none", "recording", "finishing", "writing", "over"}
Samples == [pts : Int, idr : BOOLEAN, sps : {u.sps : u \in AccessUnits}]
NewClip ==
    [at |-> "none", entrypoint |-> CHOOSE ep \in ClipEntrypoints : TRUE,
     closed |-> FALSE, packets |-> <<>>, complete |-> FALSE, first |-> 0,
     sps |-> NoSps, pps |-> FALSE, begun |-> FALSE, samples |-> <<>>, size |-> 0]

Recordings ==
    [at : ClipSteps, entrypoint : ClipEntrypoints, closed : BOOLEAN,
     packets : Seq(AccessUnits), complete : BOOLEAN, first : Int,
     sps : {u.sps : u \in AccessUnits} \cup {NoSps}, pps : BOOLEAN,
     begun : BOOLEAN, samples : Seq(Samples), size : Nat]

ClipType ==
    /\ clip \in [ClipIds -> Recordings]
    /\ \A c \in ClipIds : Len(clip[c].packets) <= PacketBuffer
    /\ started \in 0 .. MaxClips /\ active \in 0 .. MaxClips
    /\ clipFile \in [ClipEntrypoints -> Seq(Samples)]
    /\ temporary \subseteq ClipIds /\ alive \in BOOLEAN

ClipInit ==
    /\ clip = [c \in ClipIds |-> NewClip]
    /\ started = 0 /\ active = 0 /\ temporary = {} /\ alive = TRUE
    /\ clipFile = [ep \in ClipEntrypoints |-> <<>>]

-----------------------------------------------------------------------------
(* The writer *)

\* int32(timestamp - firstTimestamp): a signed difference.
Pts(ts, first) ==
    LET d == (ts - first) % TimestampWrap IN
    IF d >= TimestampWrap \div 2 THEN d - TimestampWrap ELSE d

Complete(w) == [w EXCEPT !.complete = TRUE]

\* MUTANT of Reordered: a frame older than the last sample is not dropped.
Reordered_Never(w, pts) == FALSE

Reordered(w, pts) == w.samples # <<>> /\ pts < w.samples[Len(w.samples)].pts

\* A sample at the end, or more of the last one: two access units with one
\* timestamp are one frame split by the camera.
AddSample(w, u, pts) ==
    LET s == w.samples
        n == Len(s) IN
    [w EXCEPT !.size = @ + u.size,
              !.samples = IF n > 0 /\ pts = s[n].pts
                            THEN [s EXCEPT ![n].idr = s[n].idr \/ u.idr]
                            ELSE Append(s, [pts |-> pts, idr |-> u.idr,
                                            sps |-> w.sps])]

\* accessUnit once the clip has begun, from the payload check on.
AddUnit(w, u) ==
    LET pts == Pts(u.ts, w.first) IN
    IF u.size = 0 THEN w
    ELSE IF pts >= ClipMaxTicks THEN Complete(w)
    ELSE IF Reordered(w, pts) THEN w
    ELSE IF w.size + u.size > ClipMaxBytes THEN Complete(w)
    ELSE AddSample(w, u, pts)

\* accessUnit: the clip begins at an IDR whose SPS and PPS are known, and ends
\* where the SPS changes.
Push(w, u) ==
    IF w.begun
      THEN IF u.sps # NoSps /\ u.sps # w.sps THEN Complete(w) ELSE AddUnit(w, u)
      ELSE LET seen == [w EXCEPT !.sps = IF u.sps = NoSps THEN @ ELSE u.sps,
                                 !.pps = @ \/ u.pps]
           IN IF u.idr /\ seen.sps # NoSps /\ seen.pps
                THEN AddUnit([seen EXCEPT !.begun = TRUE, !.first = u.ts], u)
                ELSE seen

\* sampleDuration of the last sample, which repeats the one before it.
Duration(s) ==
    LET n == Len(s) IN
    CASE n = 0 -> 0
      [] n = 1 -> s[1].pts + DefaultTicks
      [] OTHER -> s[n].pts + (s[n].pts - s[n - 1].pts)

-----------------------------------------------------------------------------
(* The recorder *)

Closed(c) == [clip EXCEPT ![c].closed = TRUE]

\* Start: the clip of the ring before, if it is still open, is closed.
StartRecording(ep) ==
    /\ alive /\ started < MaxClips
    /\ started' = started + 1
    /\ active' = started + 1
    /\ clip' = [(IF active = 0 THEN clip ELSE Closed(active)) EXCEPT
                    ![started + 1].at = "recording",
                    ![started + 1].entrypoint = ep]
    /\ UNCHANGED <<clipFile, temporary, alive>>

Records(c) == alive /\ clip[c].at = "recording"

\* VideoRTP: never blocks, so a packet that finds the queue full is dropped.
ClipVideoRTP(c, u) ==
    /\ Records(c) /\ ~clip[c].closed
    /\ clip' = [clip EXCEPT ![c].packets =
                    IF Len(@) < PacketBuffer THEN Append(@, u) ELSE @]
    /\ UNCHANGED <<started, active, clipFile, temporary, alive>>

CloseClip(c) ==
    /\ Records(c) /\ ~clip[c].closed
    /\ clip' = Closed(c)
    /\ UNCHANGED <<started, active, clipFile, temporary, alive>>

\* finish begins: the clip is closed and no longer the active one.
Finishes(w) == [w EXCEPT !.at = "finishing", !.closed = TRUE]

\* run takes a packet, before or after the close.
TakePacket(c) ==
    /\ Records(c) /\ clip[c].packets # <<>>
    /\ LET w == Push([clip[c] EXCEPT !.packets = Tail(@)], Head(clip[c].packets))
       IN /\ clip' = [clip EXCEPT ![c] = IF w.complete THEN Finishes(w) ELSE w]
          /\ active' = IF w.complete /\ active = c THEN 0 ELSE active
    /\ UNCHANGED <<started, clipFile, temporary, alive>>

\* What was queued before the close still belongs to the clip.
Drained(c) == clip[c].packets = <<>>

RunEnds(c) ==
    /\ Records(c) /\ clip[c].closed /\ Drained(c)
    /\ clip' = [clip EXCEPT ![c] = Finishes(@)]
    /\ active' = IF active = c THEN 0 ELSE active
    /\ UNCHANGED <<started, clipFile, temporary, alive>>

Discard(c) ==
    /\ clip' = [clip EXCEPT ![c].at = "over"]
    /\ UNCHANGED <<started, active, clipFile, alive>>

\* finish: too short, no room on the flash, or the temporary file cannot be
\* created; else the file is written beside the old one.
FinishClip(c) ==
    /\ alive /\ clip[c].at = "finishing"
    /\ \/ Discard(c) /\ UNCHANGED temporary
       \/ /\ Duration(clip[c].samples) >= ClipMinTicks
          /\ clip' = [clip EXCEPT ![c].at = "writing"]
          /\ temporary' = temporary \cup {c}
          /\ UNCHANGED <<started, active, clipFile, alive>>

\* The write fails and the temporary file is removed, or it is renamed.
WriteFails(c) ==
    /\ alive /\ clip[c].at = "writing"
    /\ Discard(c)
    /\ temporary' = temporary \ {c}

PublishClip(c) ==
    /\ alive /\ clip[c].at = "writing"
    /\ clip' = [clip EXCEPT ![c].at = "over"]
    /\ clipFile' = [clipFile EXCEPT ![clip[c].entrypoint] = clip[c].samples]
    /\ temporary' = temporary \ {c}
    /\ UNCHANGED <<started, active, alive>>

\* Power loss, and the start after it: NewRingClipRecorder removes leftovers.
ClipCrash ==
    /\ alive /\ alive' = FALSE
    /\ clip' = [c \in ClipIds |-> NewClip]
    /\ active' = 0
    /\ UNCHANGED <<started, clipFile, temporary>>

ClipRestart ==
    /\ ~alive /\ alive' = TRUE
    /\ temporary' = {}
    /\ UNCHANGED <<clip, started, active, clipFile>>

ClipNext ==
    \/ \E ep \in ClipEntrypoints : StartRecording(ep)
    \/ \E c \in ClipIds :
           \/ \E u \in AccessUnits : ClipVideoRTP(c, u)
           \/ CloseClip(c) \/ TakePacket(c) \/ RunEnds(c) \/ FinishClip(c)
           \/ WriteFails(c) \/ PublishClip(c)
    \/ ClipCrash \/ ClipRestart

ClipSpec == ClipInit /\ [][ClipNext]_clipVars

-----------------------------------------------------------------------------

Playable(s) ==
    /\ s # <<>> => s[1].idr /\ s[1].pts = 0
    /\ \A i \in 2 .. Len(s) : s[i - 1].pts < s[i].pts /\ s[i].sps = s[1].sps
    /\ \A i \in 1 .. Len(s) : s[i].pts < ClipMaxTicks

\* The file of an entrypoint, when there is one, is a clip that plays: it starts
\* with a key frame, its samples are in order whatever order and wrap-around the
\* timestamps had (ringclip.go:434), one track carries them all, and it is at
\* least the minimum long.  No crash leaves half of one, or a temporary file.
SavedClipPlays ==
    /\ \A ep \in ClipEntrypoints :
           clipFile[ep] # <<>> =>
               Playable(clipFile[ep]) /\ Duration(clipFile[ep]) >= ClipMinTicks
    /\ alive => \A c \in temporary : clip[c].at = "writing"
=============================================================================
