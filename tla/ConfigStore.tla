----------------------------- MODULE ConfigStore -----------------------------
(***************************************************************************)
(* config.Store and storage.WritePrivateFile: the configuration in memory, *)
(* the file it is saved to and what of it survives a crash.  Update keeps  *)
(* the store's lock from its clone to its assignment, so two updates never *)
(* interleave and no Snapshot sees one half done; a crash can still fall   *)
(* between any two of its system calls.  The temporary file is written and *)
(* synced before it is renamed, so that a torn one is never config.yaml:   *)
(* the rename and the directory sync are the two steps kept apart here.    *)
(* A configuration is a record of the fields the properties tell apart;    *)
(* logging, system, HomeKit and the update channel are not among them.     *)
(***************************************************************************)
EXTENDS Integers, FiniteSets

CONSTANTS
    ConfigEntrypoints,  \* entrypoint ids of the edited section
    MainUnit,           \* the one at DefaultDoorbellDevAddr, or none of them
    MaxOwners,          \* bound on the owner credentials ever chosen
    MaxTokens,          \* bound on the bearer tokens ever made
    MaxDoubts           \* bound on the failed updates since the last saved one

ASSUME ConfigAssumption ==
    /\ {MaxOwners, MaxTokens, MaxDoubts} \subseteq Nat
    /\ MaxTokens > 0    \* a token of the older release's file

VARIABLES
    cfg,        \* the store's configuration in memory
    disk,       \* what config.yaml reads as now
    unsynced,   \* what it may read as after a power loss: renames not yet synced
    acked,      \* history: the last update the store reported as saved
    inDoubt     \* history: later updates that failed or were cut by a crash

configVars == <<cfg, disk, unsynced, acked, inDoubt>>

PairingStates == {"setup_required", "claimable", "claimed"}

\* owner 0: no admin password hash.  The username, the hash and the session
\* secret are always written together, so one number stands for the three.
Configs ==
    [pairing : PairingStates, token : 0 .. MaxTokens, owner : 0 .. MaxOwners,
     stream : SUBSET ConfigEntrypoints, ring : SUBSET ConfigEntrypoints]

ConfigType ==
    /\ cfg \in Configs /\ disk \in Configs /\ acked \in Configs
    /\ unsynced \subseteq Configs /\ inDoubt \subseteq Configs

\* Default: the seeded entrypoint is the doorbell and nobody owns the device.
DefaultConfig ==
    [pairing |-> "setup_required", token |-> 0, owner |-> 0,
     stream |-> {MainUnit} \cap ConfigEntrypoints,
     ring |-> {MainUnit} \cap ConfigEntrypoints]

\* A file written by an older release: claimed before an owner was ever set,
\* with two entrypoints that can ring.
LegacyConfig ==
    [DefaultConfig EXCEPT !.pairing = "claimed", !.token = 1,
                          !.ring = ConfigEntrypoints]

ConfigInit ==
    /\ cfg \in {DefaultConfig, LegacyConfig}
    /\ disk = cfg /\ unsynced = {} /\ acked = cfg /\ inDoubt = {}

\* Validate, for the fields that are kept.
Valid(c) == (c.pairing = "claimed") <=> (c.token # 0)

\* An edit that leaves no entrypoint able to stream makes the main unit the
\* doorbell, or changes nothing when no entrypoint has its address; one that
\* leaves a split or a second doorbell is refused.
DefaultDoorbell(c) ==
    IF c.stream # {} \/ MainUnit \notin ConfigEntrypoints THEN c
    ELSE [c EXCEPT !.stream = {MainUnit}, !.ring = @ \cup {MainUnit}]

Exclusive(c) == c.stream = c.ring /\ Cardinality(c.ring) <= 1

EditsEntrypoints(c) == <<c.stream, c.ring>> # <<cfg.stream, cfg.ring>>

\* The configuration Update saves for the one its caller asked for.
Normalised(c) == IF EditsEntrypoints(c) THEN DefaultDoorbell(c) ELSE c

Accepted(c) == Valid(c) /\ (EditsEntrypoints(c) => Exclusive(Normalised(c)))

\* The directory is synced: an older version of the file cannot come back.
\* MUTANT of Synced: the rename is never synced to the directory.
Synced_Never(c) == unsynced \cup {disk}
Synced(c) == {}

\* WritePrivateFile went through: the file is replaced, then the memory.
Saves(c) ==
    /\ disk' = c /\ cfg' = c /\ unsynced' = Synced(c)
    /\ acked' = c /\ inDoubt' = {}

\* It failed before the rename: nothing has changed.
SaveFails(c) == UNCHANGED configVars

Doubts(cs) ==
    /\ inDoubt' = inDoubt \cup cs
    /\ Cardinality(inDoubt') <= MaxDoubts

\* It failed in syncDirectory, after the rename: the caller is told of an error
\* and the memory is left as it was, with the new file on disk.
SyncFails(c) ==
    /\ disk' = c /\ unsynced' = unsynced \cup {disk}
    /\ Doubts({c})
    /\ UNCHANGED <<cfg, acked>>

\* Update to c as one step of its caller; ok says what it returns.
Update(c, ok) ==
    \/ ok /\ Accepted(c) /\ Saves(Normalised(c))
    \/ /\ ~ok
       /\ \/ SaveFails(c)
          \/ Accepted(c) /\ SyncFails(Normalised(c))

\* A new process loads what the file holds, and what it held before may still come back.
Reload(files, older, doubts) ==
    /\ \E c \in files : disk' = c /\ cfg' = c
    /\ unsynced' = older /\ Doubts(doubts)
    /\ UNCHANGED acked

\* The device loses power: a rename that was not synced may be lost, and what
\* the file then holds is all there is.
PowerLoss(files, doubts) == Reload(files, {}, doubts)

\* The process dies on its own, or its device does: outside Update, or inside
\* it before the rename.
Crash ==
    \/ Reload({disk}, unsynced, {})
    \/ PowerLoss({disk} \cup unsynced, {})

\* It dies inside Update after the rename.
CrashInUpdate(c) ==
    LET n == Normalised(c)
    IN  /\ Accepted(c)
        /\ \/ Reload({n}, unsynced \cup {disk}, {n})
           \/ PowerLoss({disk, n} \cup unsynced, {n})

(***************************************************************************)
(* What an update that was reported saved is worth: whatever the store     *)
(* holds, and whatever the file holds or may hold after a power loss, is   *)
(* the last update that was acknowledged or one that was attempted after   *)
(* it and reported as failed, never an older one.  It is the write, sync,  *)
(* rename and directory sync of WritePrivateFile, in that order.           *)
(***************************************************************************)
AckedSurvives == {cfg, disk} \cup unsynced \subseteq {acked} \cup inDoubt
=============================================================================
