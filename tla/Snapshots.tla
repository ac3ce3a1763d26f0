----------------------------- MODULE Snapshots -----------------------------
(***************************************************************************)
(* media.SnapshotManager: one picture from each source generation.  A      *)
(* capture is armed with the source, started when the intercom's core is   *)
(* free, and closed with the source or by the next capture; its picture is *)
(* published in memory and written to disk by a goroutine of its own.  A   *)
(* picture is named by the capture that took it.  Packets are abstracted   *)
(* to the key frame the decoder is fed.                                    *)
(***************************************************************************)
EXTENDS Integers

CONSTANTS
    MaxCaptures,    \* bound on the captures armed
    MaxDecoders     \* snapshotMaxDecoders

ASSUME SnapshotAssumption == MaxCaptures \in Nat /\ MaxDecoders \in Nat \ {0}

Captures == 1 .. MaxCaptures
Paths == {"latest", "ring"}

VARIABLES
    capture,    \* capture -> its state
    armed,      \* captures armed so far (nextID)
    current,    \* the manager's active capture, 0 for nil
    pictures,   \* path -> the picture published since the start, 0 for none
    snapFile,   \* path -> the picture in the file, 0 for none
    persisting, \* capture -> the paths its persist goroutine still writes
    writer,     \* the goroutine that holds writeMu: capture, path, picture
    unsaved     \* history: the paths whose last write failed

snapVars == <<capture, armed, current, pictures, snapFile, persisting, writer,
              unsaved>>

NoWriter == [capture |-> 0, path |-> "latest", picture |-> 0]
NewCapture == [at |-> "none", cancelled |-> FALSE, ring |-> FALSE,
               decoders |-> 0, fed |-> FALSE, ready |-> FALSE]

SnapshotType ==
    /\ capture \in [Captures ->
           [at : {"none", "armed", "running", "over"}, cancelled : BOOLEAN,
            ring : BOOLEAN, decoders : 0 .. MaxDecoders, fed : BOOLEAN, ready : BOOLEAN]]
    /\ armed \in 0 .. MaxCaptures /\ current \in 0 .. MaxCaptures
    /\ pictures \in [Paths -> 0 .. MaxCaptures]
    /\ snapFile \in [Paths -> 0 .. MaxCaptures]
    /\ persisting \in [Captures -> SUBSET Paths]
    /\ writer \in [capture : 0 .. MaxCaptures, path : Paths, picture : 0 .. MaxCaptures]
    /\ unsaved \subseteq Paths

SnapshotInit ==
    /\ capture = [a \in Captures |-> NewCapture]
    /\ armed = 0 /\ current = 0
    /\ pictures = [p \in Paths |-> 0]
    /\ snapFile = [p \in Paths |-> 0]
    /\ persisting = [a \in Captures |-> {}]
    /\ writer = NoWriter /\ unsaved = {}

\* Close: the context is cancelled, and a capture that never started is over.
ClosedCapture(a) ==
    [capture EXCEPT ![a].cancelled = TRUE,
                    ![a].at = IF @ = "armed" THEN "over" ELSE @]

\* finish: the manager forgets the capture, unless another has taken its place.
Forgets(a) == IF current = a THEN 0 ELSE current

\* Arm replaces the capture before it and closes it; MarkRing is called before
\* the stream starts.
Arm(ring) ==
    /\ armed < MaxCaptures
    /\ armed' = armed + 1
    /\ current' = armed + 1
    /\ capture' = [(IF current = 0 THEN capture ELSE ClosedCapture(current)) EXCEPT
                       ![armed + 1].at = "armed", ![armed + 1].ring = ring]
    /\ UNCHANGED <<pictures, snapFile, persisting, writer, unsaved>>

\* Start, and the decoder's start inside run, which may fail.
StartCapture(a) ==
    /\ capture[a].at = "armed"
    /\ \/ /\ capture' = [capture EXCEPT ![a].at = "running", ![a].decoders = 1]
          /\ UNCHANGED current
       \/ /\ capture' = [capture EXCEPT ![a].at = "over"]
          /\ current' = Forgets(a)
    /\ UNCHANGED <<armed, pictures, snapFile, persisting, writer, unsaved>>

CloseCapture(a) ==
    /\ capture[a].at \in {"armed", "running"} /\ ~capture[a].cancelled
    /\ capture' = ClosedCapture(a)
    /\ current' = IF capture[a].at = "armed" THEN Forgets(a) ELSE current
    /\ UNCHANGED <<armed, pictures, snapFile, persisting, writer, unsaved>>

Running(a) == capture[a].at = "running"

\* A key frame with its parameter sets completes, and is fed to the decoder.
FeedDecoder(a) ==
    /\ Running(a) /\ ~capture[a].fed
    /\ capture' = [capture EXCEPT ![a].fed = TRUE]
    /\ UNCHANGED <<armed, current, pictures, snapFile, persisting, writer, unsaved>>

DecoderWrites(a) ==
    /\ Running(a) /\ capture[a].fed
    /\ capture' = [capture EXCEPT ![a].ready = TRUE]
    /\ UNCHANGED <<armed, current, pictures, snapFile, persisting, writer, unsaved>>

Over(a) ==
    /\ capture' = [capture EXCEPT ![a].at = "over"]
    /\ current' = Forgets(a)

\* The decoder exits without a picture: another is started for the next key
\* frame, if this one was fed and the limit is not reached.
DecoderExits(a) ==
    /\ Running(a) /\ ~capture[a].ready
    /\ \/ /\ capture[a].fed /\ capture[a].decoders < MaxDecoders /\ ~capture[a].cancelled
          /\ capture' = [capture EXCEPT ![a].decoders = @ + 1, ![a].fed = FALSE]
          /\ UNCHANGED current
       \/ Over(a)
    /\ UNCHANGED <<armed, pictures, snapFile, persisting, writer, unsaved>>

\* The capture is cancelled or its timeout elapses.
CaptureEnds(a) ==
    /\ Running(a)
    /\ Over(a)
    /\ UNCHANGED <<armed, pictures, snapFile, persisting, writer, unsaved>>

\* A closed capture stays active until its run returns, and its picture may be
\* ready together with the cancellation.
MayPublish(a) == current = a /\ ~capture[a].cancelled

PicturePaths(a) == IF capture[a].ring THEN Paths ELSE {"latest"}

\* publish, and run returns.
PublishPicture(a) ==
    /\ Running(a) /\ capture[a].ready
    /\ IF MayPublish(a)
         THEN /\ pictures' = [p \in Paths |->
                                  IF p \in PicturePaths(a) THEN a ELSE pictures[p]]
              /\ persisting' = [persisting EXCEPT ![a] = PicturePaths(a)]
         ELSE UNCHANGED <<pictures, persisting>>
    /\ Over(a)
    /\ UNCHANGED <<armed, snapFile, writer, unsaved>>

\* MUTANT of ToWrite: a goroutine writes the picture it was started for.
ToWrite_Own(a, p) == a

\* The newest picture of the path, read with writeMu held.
ToWrite(a, p) == pictures[p]

\* persist: writeMu runs one goroutine at a time, path after path.
BeginWrite(a, p) ==
    /\ p \in persisting[a]
    /\ p = "latest" \/ "latest" \notin persisting[a]
    /\ writer = NoWriter \/ (writer.capture = a /\ writer.picture = 0)
    /\ writer' = [capture |-> a, path |-> p, picture |-> ToWrite(a, p)]
    /\ UNCHANGED <<capture, armed, current, pictures, snapFile, persisting, unsaved>>

\* writeSnapshot renames a whole file into place, or fails and leaves the old.
EndWrite(saved) ==
    /\ writer.picture # 0
    /\ LET a == writer.capture
           rest == persisting[a] \ {writer.path} IN
       /\ IF saved
            THEN /\ snapFile' = [snapFile EXCEPT ![writer.path] = writer.picture]
                 /\ unsaved' = unsaved \ {writer.path}
            ELSE /\ unsaved' = unsaved \cup {writer.path}
                 /\ UNCHANGED snapFile
       /\ persisting' = [persisting EXCEPT ![a] = rest]
       /\ writer' = IF rest = {} THEN NoWriter ELSE [writer EXCEPT !.picture = 0]
    /\ UNCHANGED <<capture, armed, current, pictures>>

\* The process restarts: the files bring the pictures back.
SnapshotRestart ==
    /\ \E a \in Captures : capture[a].at # "none"
    /\ capture' = [a \in Captures |->
                       IF capture[a].at = "none" THEN capture[a]
                       ELSE [NewCapture EXCEPT !.at = "over"]]
    /\ current' = 0
    /\ pictures' = [p \in Paths |-> 0]
    /\ persisting' = [a \in Captures |-> {}]
    /\ writer' = NoWriter /\ unsaved' = {}
    /\ UNCHANGED <<armed, snapFile>>

SnapshotNext ==
    \/ \E ring \in BOOLEAN : Arm(ring)
    \/ \E a \in Captures :
           \/ StartCapture(a) \/ CloseCapture(a) \/ FeedDecoder(a)
           \/ DecoderWrites(a) \/ DecoderExits(a) \/ CaptureEnds(a)
           \/ PublishPicture(a)
           \/ \E p \in Paths : BeginWrite(a, p)
    \/ \E saved \in BOOLEAN : EndWrite(saved)
    \/ SnapshotRestart

SnapshotSpec == SnapshotInit /\ [][SnapshotNext]_snapVars

-----------------------------------------------------------------------------

\* read: a published picture is served from memory, an older one from its file.
Served(p) == IF pictures[p] # 0 THEN pictures[p] ELSE snapFile[p]

\* However the write goroutines are scheduled, a file ends with the newest
\* picture of its path, unless its write failed: once no goroutine has it left
\* to write, what a restart brings back is what was served before it (snapshot.go:533).
FileEndsNewest ==
    \A p \in Paths \ unsaved :
        (\A a \in Captures : p \notin persisting[a]) => snapFile[p] = Served(p)
=============================================================================
