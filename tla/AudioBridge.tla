----------------------------- MODULE AudioBridge -----------------------------
(***************************************************************************)
(* media.AudioBridge and the streamPipelines around it: the GStreamer      *)
(* children of one stream source.  The bridge is started once, by the      *)
(* first of the 180 and the AV request, restarted by its monitor when a    *)
(* child dies, and stopped with the source; children are started and       *)
(* reaped outside the bridge's lock.  A pipeline is named by the attempt   *)
(* that started it; packets are not modelled.                              *)
(***************************************************************************)
EXTENDS Integers

CONSTANT RestartLimit       \* audioBridgeRestartLimit

ASSUME BridgeAssumption == RestartLimit \in Nat

\* One Start and at most RestartLimit restarts.
Pipelines == 1 .. RestartLimit + 1

VARIABLES
    pipes,      \* streamPipelines: armed, started, closed; busy while mu is held
    bridgeActive, \* b.active
    installed,  \* b.pipeline, 0 for nil
    restarts,   \* b.restarts
    proc,       \* pipeline -> its children
    starter,    \* bridge.Start: at, and the pipeline it got
    restarter,  \* the monitor's restart: at, the failed and the new pipeline
    stopper,    \* bridgeSource.Close or a failed Start: at, and what it closes
    failures    \* the failure callback was called

bridgeVars == <<pipes, bridgeActive, installed, restarts, proc, starter, restarter,
                stopper, failures>>

Launched == {p \in Pipelines : proc[p] # "none"}
Alive == {p \in Pipelines : proc[p] \in {"up", "failed"}}

BridgeType ==
    /\ pipes \in [armed : BOOLEAN, started : BOOLEAN, closed : BOOLEAN, busy : BOOLEAN]
    /\ bridgeActive \in BOOLEAN /\ failures \in BOOLEAN
    /\ installed \in Pipelines \cup {0}
    /\ restarts \in 0 .. RestartLimit
    /\ proc \in [Pipelines -> {"none", "up", "failed", "reaped"}]
    /\ starter \in [at : {"idle", "launches", "installs"}, p : Pipelines \cup {0}]
    /\ restarter \in [at : {"idle", "closes", "launches", "installs"},
                      p : Pipelines \cup {0}]
    /\ stopper \in [at : {"idle", "waits", "stops", "closes", "done"},
                    p : Pipelines \cup {0}]

BridgeInit ==
    /\ pipes = [armed |-> FALSE, started |-> FALSE, closed |-> FALSE, busy |-> FALSE]
    /\ bridgeActive = FALSE /\ installed = 0 /\ restarts = 0
    /\ proc = [p \in Pipelines |-> "none"]
    /\ starter = [at |-> "idle", p |-> 0]
    /\ restarter = [at |-> "idle", p |-> 0]
    /\ stopper = [at |-> "idle", p |-> 0]
    /\ failures = FALSE

(***************************************************************************)
(* streamPipelines.start and AudioBridge.Start, under the pipelines' lock. *)
(***************************************************************************)

ArmPipelines ==
    /\ ~pipes.armed
    /\ pipes' = [pipes EXCEPT !.armed = TRUE]
    /\ UNCHANGED <<bridgeActive, installed, restarts, proc, starter, restarter, stopper, failures>>

StartPipelines ==
    /\ pipes.armed /\ ~pipes.busy /\ ~pipes.closed /\ ~pipes.started
    /\ pipes' = [pipes EXCEPT !.started = TRUE, !.busy = TRUE]
    /\ bridgeActive' = TRUE /\ restarts' = 0
    /\ starter' = [at |-> "launches", p |-> 0]
    /\ UNCHANGED <<installed, proc, restarter, stopper, failures>>

\* StartAudioBridge: the sockets and the four children, or none of them.
NewPipeline == CHOOSE p \in Pipelines : Launched = 1 .. p - 1

StartLaunches ==
    /\ starter.at = "launches"
    /\ \/ /\ proc' = [proc EXCEPT ![NewPipeline] = "up"]
          /\ starter' = [at |-> "installs", p |-> NewPipeline]
          /\ UNCHANGED <<bridgeActive, pipes>>
       \/ /\ bridgeActive' = FALSE
          /\ starter' = [at |-> "idle", p |-> 0]
          /\ pipes' = [pipes EXCEPT !.busy = FALSE]
          /\ UNCHANGED proc
    /\ UNCHANGED <<installed, restarts, restarter, stopper, failures>>

\* MUTANT of MayInstall: the bridge may have been stopped meanwhile.
MayInstall_Any == TRUE

\* Whether a pipeline launched outside the lock is still wanted.
MayInstall == bridgeActive

\* installLocked, or the pipeline is closed again.
StartInstalls ==
    /\ starter.at = "installs"
    /\ IF MayInstall
       THEN installed' = starter.p /\ UNCHANGED proc
       ELSE proc' = [proc EXCEPT ![starter.p] = "reaped"] /\ UNCHANGED installed
    /\ starter' = [at |-> "idle", p |-> 0]
    /\ pipes' = [pipes EXCEPT !.busy = FALSE]
    /\ UNCHANGED <<bridgeActive, restarts, restarter, stopper, failures>>

(***************************************************************************)
(* A child exits; monitor and restart.                                     *)
(***************************************************************************)

ChildExits(p) ==
    /\ proc[p] = "up"
    /\ proc' = [proc EXCEPT ![p] = "failed"]
    /\ UNCHANGED <<pipes, bridgeActive, installed, restarts, starter, restarter, stopper, failures>>

\* restart is ignored for a pipeline that is not the bridge's any more, and
\* gives up, leaving the pipeline to the source's Close, once the budget is gone.
RestartBegins(p) ==
    /\ proc[p] = "failed" /\ restarter.at = "idle"
    /\ bridgeActive /\ installed = p
    /\ IF restarts >= RestartLimit
       THEN /\ ~failures /\ failures' = TRUE
            /\ UNCHANGED <<installed, restarts, restarter>>
       ELSE /\ restarts' = restarts + 1
            /\ installed' = 0
            /\ restarter' = [at |-> "closes", p |-> p]
            /\ UNCHANGED failures
    /\ UNCHANGED <<pipes, bridgeActive, proc, starter, stopper>>

\* failed.Close reaps the children, and the forwarder ends.
RestartCloses ==
    /\ restarter.at = "closes"
    /\ proc' = [proc EXCEPT ![restarter.p] = "reaped"]
    /\ restarter' = [at |-> "launches", p |-> 0]
    /\ UNCHANGED <<pipes, bridgeActive, installed, restarts, starter, stopper, failures>>

RestartLaunches ==
    /\ restarter.at = "launches"
    /\ \/ /\ proc' = [proc EXCEPT ![NewPipeline] = "up"]
          /\ restarter' = [at |-> "installs", p |-> NewPipeline]
          /\ UNCHANGED failures
       \/ /\ failures' = TRUE
          /\ restarter' = [at |-> "idle", p |-> 0]
          /\ UNCHANGED proc
    /\ UNCHANGED <<pipes, bridgeActive, installed, restarts, starter, stopper>>

RestartInstalls ==
    /\ restarter.at = "installs"
    /\ IF MayInstall /\ installed = 0
       THEN installed' = restarter.p /\ UNCHANGED proc
       ELSE proc' = [proc EXCEPT ![restarter.p] = "reaped"] /\ UNCHANGED installed
    /\ restarter' = [at |-> "idle", p |-> 0]
    /\ UNCHANGED <<pipes, bridgeActive, restarts, starter, stopper, failures>>

(***************************************************************************)
(* bridgeSource.Close, and Start once the source failed.                   *)
(***************************************************************************)

SourceStops ==
    /\ stopper.at = "idle"
    /\ stopper' = [at |-> "waits", p |-> 0]
    /\ UNCHANGED <<pipes, bridgeActive, installed, restarts, proc, starter, restarter, failures>>

\* pipelines.close waits for a start in progress.
ClosePipelines ==
    /\ stopper.at = "waits" /\ ~pipes.busy
    /\ pipes' = [pipes EXCEPT !.closed = TRUE]
    /\ stopper' = [at |-> "stops", p |-> 0]
    /\ UNCHANGED <<bridgeActive, installed, restarts, proc, starter, restarter, failures>>

\* StopContext takes the pipeline under the lock and closes it outside.
StopContext ==
    /\ stopper.at = "stops"
    /\ bridgeActive' = FALSE /\ installed' = 0
    /\ stopper' = IF installed = 0 THEN [at |-> "done", p |-> 0]
                  ELSE [at |-> "closes", p |-> installed]
    /\ UNCHANGED <<pipes, restarts, proc, starter, restarter, failures>>

StopCloses ==
    /\ stopper.at = "closes"
    /\ proc' = [proc EXCEPT ![stopper.p] = "reaped"]
    /\ stopper' = [at |-> "done", p |-> 0]
    /\ UNCHANGED <<pipes, bridgeActive, installed, restarts, starter, restarter, failures>>

BridgeNext ==
    \/ ArmPipelines \/ StartPipelines \/ StartLaunches \/ StartInstalls
    \/ \E p \in Pipelines : ChildExits(p) \/ RestartBegins(p)
    \/ RestartCloses \/ RestartLaunches \/ RestartInstalls
    \/ SourceStops \/ ClosePipelines \/ StopContext \/ StopCloses

BridgeSpec == BridgeInit /\ [][BridgeNext]_bridgeVars

(***************************************************************************)
(* Property.                                                               *)
(***************************************************************************)

\* The children of a source never outlive it unowned: a pipeline that runs is
\* the bridge's, or in the hands of the Start, the restart or the stop that
\* will install or reap it, and none is installed once the bridge is stopped.
\* The next source's pipeline binds the same UDP ports.
EveryPipelineOwned ==
    /\ Alive \subseteq {installed, starter.p, restarter.p, stopper.p}
    /\ stopper.at = "done" => installed = 0 /\ starter.at = "idle"

=============================================================================
