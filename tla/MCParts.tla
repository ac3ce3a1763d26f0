------------------------------ MODULE MCParts ------------------------------
(***************************************************************************)
(* The parts of the companion around the call line and the stream, each    *)
(* checked on its own in one run: the projector, what listens to the bus,  *)
(* what consumes the stream, what serves clients and HomeKit, and the      *)
(* accounts over the configuration store.                                  *)
(*                                                                         *)
(* They are not composed: the first state chooses a part and only that     *)
(* part moves, so the state spaces add up instead of multiplying.          *)
(***************************************************************************)
EXTENDS Projector, Mapper, RingHolder, BusObservers, BusControl, Accounts, Fanout, WebRTC,
        Rtsp, Snapshots, RingClip, AudioBridge, HomeKit, Clients, TLC

VARIABLE part   \* the part that runs

-----------------------------------------------------------------------------
(* Values of the constants *)

\* A ring frame with two addresses and one with the same address twice; one of
\* the addresses is configured.
PartsRingFrames == {[a |-> "x", b |-> "y"], [a |-> "z", b |-> "z"]}
PartsEntrypointAt == [y |-> "door", w |-> "gate"]

Unit(ts, idr, sps) == [ts |-> ts, idr |-> idr, sps |-> sps, pps |-> sps # NoSps, size |-> 1]

\* Two key frames with different parameters, the first just before the RTP
\* timestamp wraps, and two other units, one after the wrap and one late.
PartsUnits == {Unit(7, TRUE, "A"), Unit(0, FALSE, NoSps), Unit(6, FALSE, NoSps),
               Unit(1, TRUE, "B")}

\* Requests are interchangeable.
PartsSymmetry == Permutations(AccountRequests)

-----------------------------------------------------------------------------

busVariables == <<mapperVars, holderVars, observerVars, controlVars>>
mediaVariables == <<fanoutVars, webrtcVars, rtspVars, snapVars, clipVars, bridgeVars>>
partsVars ==
    <<part, vars, busVariables, accountVars, mediaVariables, homeKitVars, clientVars>>

\* A part that does not run starts in one state only.
PartsInit ==
    /\ part \in {"projector", "mapper", "holder", "observers", "control", "accounts",
                 "fanout", "webrtc", "rtsp", "snapshots", "clips", "bridge", "homekit",
                 "hub", "signalling"}
    /\ Init /\ MapperInit /\ HolderInit /\ ObserverInit /\ ControlInit /\ AccountInit
    /\ FanoutInit /\ WebRTCInit /\ RtspInit /\ SnapshotInit /\ ClipInit /\ BridgeInit
    /\ HomeKitInit /\ ClientsInit
    /\ part # "accounts" => cfg = DefaultConfig

ProjectorRuns ==
    /\ part = "projector" /\ Next
    /\ UNCHANGED <<part, busVariables, accountVars, mediaVariables, homeKitVars, clientVars>>

MapperRuns ==
    /\ part = "mapper" /\ MapperNext
    /\ UNCHANGED <<part, vars, holderVars, observerVars, controlVars>>
    /\ UNCHANGED <<accountVars, mediaVariables, homeKitVars, clientVars>>

HolderRuns ==
    /\ part = "holder" /\ HolderNext
    /\ UNCHANGED <<part, vars, mapperVars, observerVars, controlVars>>
    /\ UNCHANGED <<accountVars, mediaVariables, homeKitVars, clientVars>>

ObserversRun ==
    /\ part = "observers" /\ ObserverNext
    /\ UNCHANGED <<part, vars, mapperVars, holderVars, controlVars>>
    /\ UNCHANGED <<accountVars, mediaVariables, homeKitVars, clientVars>>

ControlRuns ==
    /\ part = "control" /\ ControlNext
    /\ UNCHANGED <<part, vars, mapperVars, holderVars, observerVars>>
    /\ UNCHANGED <<accountVars, mediaVariables, homeKitVars, clientVars>>

AccountsRun ==
    /\ part = "accounts" /\ AccountNext
    /\ UNCHANGED <<part, vars, busVariables, mediaVariables, homeKitVars, clientVars>>

FanoutRuns ==
    /\ part = "fanout" /\ FanoutNext
    /\ UNCHANGED <<part, vars, webrtcVars, rtspVars, snapVars, clipVars, bridgeVars>>
    /\ UNCHANGED <<busVariables, accountVars, homeKitVars, clientVars>>

WebRTCRuns ==
    /\ part = "webrtc" /\ WebRTCNext
    /\ UNCHANGED <<part, vars, fanoutVars, rtspVars, snapVars, clipVars, bridgeVars>>
    /\ UNCHANGED <<busVariables, accountVars, homeKitVars, clientVars>>

RtspRuns ==
    /\ part = "rtsp" /\ RtspNext
    /\ UNCHANGED <<part, vars, fanoutVars, webrtcVars, snapVars, clipVars, bridgeVars>>
    /\ UNCHANGED <<busVariables, accountVars, homeKitVars, clientVars>>

SnapshotsRun ==
    /\ part = "snapshots" /\ SnapshotNext
    /\ UNCHANGED <<part, vars, fanoutVars, webrtcVars, rtspVars, clipVars, bridgeVars>>
    /\ UNCHANGED <<busVariables, accountVars, homeKitVars, clientVars>>

ClipsRun ==
    /\ part = "clips" /\ ClipNext
    /\ UNCHANGED <<part, vars, fanoutVars, webrtcVars, rtspVars, snapVars, bridgeVars>>
    /\ UNCHANGED <<busVariables, accountVars, homeKitVars, clientVars>>

BridgeRuns ==
    /\ part = "bridge" /\ BridgeNext
    /\ UNCHANGED <<part, vars, fanoutVars, webrtcVars, rtspVars, snapVars, clipVars>>
    /\ UNCHANGED <<busVariables, accountVars, homeKitVars, clientVars>>

HomeKitRuns ==
    /\ part = "homekit" /\ HomeKitNext
    /\ UNCHANGED <<part, vars, busVariables, accountVars, mediaVariables, clientVars>>

HubRuns ==
    /\ part = "hub" /\ HubNext
    /\ UNCHANGED <<part, vars, busVariables, accountVars, mediaVariables, homeKitVars>>

SignallingRuns ==
    /\ part = "signalling" /\ SignalNext
    /\ UNCHANGED <<part, vars, busVariables, accountVars, mediaVariables, homeKitVars>>

PartsNext ==
    \/ ProjectorRuns \/ MapperRuns \/ HolderRuns \/ ObserversRun \/ ControlRuns
    \/ AccountsRun \/ FanoutRuns \/ WebRTCRuns \/ RtspRuns \/ SnapshotsRun \/ ClipsRun
    \/ BridgeRuns \/ HomeKitRuns \/ HubRuns \/ SignallingRuns

PartsSpec == PartsInit /\ [][PartsNext]_partsVars

\* The part that runs stays within its types; a projected state has the call
\* state that follows from the rest of it (Projector.Apply).
PartsTypes ==
    CASE part = "projector" -> TypeOK
      [] part = "mapper" -> MapperType
      [] part = "holder" -> HolderType
      [] part = "observers" -> ObserverType
      [] part = "control" -> ControlType
      [] part = "accounts" -> AccountType
      [] part = "fanout" -> FanoutType
      [] part = "webrtc" -> WebRTCType
      [] part = "rtsp" -> RtspType
      [] part = "snapshots" -> SnapshotType
      [] part = "clips" -> ClipType
      [] part = "bridge" -> BridgeType
      [] part = "homekit" -> HomeKitType
      [] part \in {"hub", "signalling"} -> ClientsType
=============================================================================
