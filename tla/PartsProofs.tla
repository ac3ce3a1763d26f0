---------------------------- MODULE PartsProofs ----------------------------
(***************************************************************************)
(* The theorems about the parts hold of the run that checks them together: *)
(* whichever part runs, what it does is a behaviour of its own             *)
(* specification, since the others leave its variables alone.  So each     *)
(* part of that run stays within its types, for every value of the         *)
(* constants.                                                              *)
(***************************************************************************)
EXTENDS MCParts, BusProofs, MediaProofs, ClientProofs

\* The parts, as the first state chooses one.
Parts ==
    {"projector", "mapper", "holder", "observers", "control", "accounts", "fanout", "webrtc",
     "rtsp", "snapshots", "clips", "bridge", "homekit", "hub", "signalling"}

\* What the bus's parts do is a step of theirs, or none.
LEMMA BusPartsStep ==
    ASSUME [PartsNext]_partsVars
    PROVE  /\ [MapperNext]_mapperVars /\ [HolderNext]_holderVars
           /\ [ObserverNext]_observerVars /\ [ControlNext]_controlVars
BY DEF PartsNext, partsVars, busVariables, ProjectorRuns, MapperRuns, HolderRuns, ObserversRun,
   ControlRuns, AccountsRun, FanoutRuns, WebRTCRuns, RtspRuns, SnapshotsRun, ClipsRun,
   BridgeRuns, HomeKitRuns, HubRuns, SignallingRuns

\* The same, of the parts that handle media.
LEMMA MediaPartsStep ==
    ASSUME [PartsNext]_partsVars
    PROVE  /\ [FanoutNext]_fanoutVars /\ [WebRTCNext]_webrtcVars /\ [RtspNext]_rtspVars
           /\ [SnapshotNext]_snapVars /\ [ClipNext]_clipVars /\ [BridgeNext]_bridgeVars
BY DEF PartsNext, partsVars, mediaVariables, ProjectorRuns, MapperRuns, HolderRuns,
   ObserversRun, ControlRuns, AccountsRun, FanoutRuns, WebRTCRuns, RtspRuns, SnapshotsRun,
   ClipsRun, BridgeRuns, HomeKitRuns, HubRuns, SignallingRuns

\* The same, of the parts that serve people, and of the part that runs.
LEMMA ClientPartsStep ==
    ASSUME [PartsNext]_partsVars
    PROVE  /\ [Next]_vars /\ [AccountNext]_accountVars /\ [HomeKitNext]_homeKitVars
           /\ [HubNext \/ SignalNext]_clientVars
           /\ part' = part
BY DEF PartsNext, partsVars, ProjectorRuns, MapperRuns, HolderRuns, ObserversRun,
   ControlRuns, AccountsRun, FanoutRuns, WebRTCRuns, RtspRuns, SnapshotsRun, ClipsRun,
   BridgeRuns, HomeKitRuns, HubRuns, SignallingRuns

\* The part that runs stays within its types (PartsTypes), because the run of the
\* parts is a behaviour of every part.
THEOREM PartsStayTyped == PartsSpec => []PartsTypes
<1>1. PartsInit =>
         /\ Init /\ MapperInit /\ HolderInit /\ ObserverInit /\ ControlInit /\ AccountInit
         /\ FanoutInit /\ WebRTCInit /\ RtspInit /\ SnapshotInit /\ ClipInit /\ BridgeInit
         /\ HomeKitInit /\ ClientsInit /\ part \in Parts
  BY DEF PartsInit, Parts
<1>2. [PartsNext]_partsVars =>
         /\ [MapperNext]_mapperVars /\ [HolderNext]_holderVars
         /\ [ObserverNext]_observerVars /\ [ControlNext]_controlVars
         /\ [FanoutNext]_fanoutVars /\ [WebRTCNext]_webrtcVars /\ [RtspNext]_rtspVars
         /\ [SnapshotNext]_snapVars /\ [ClipNext]_clipVars /\ [BridgeNext]_bridgeVars
         /\ [Next]_vars /\ [AccountNext]_accountVars /\ [HomeKitNext]_homeKitVars
         /\ [HubNext \/ SignalNext]_clientVars
  BY BusPartsStep, MediaPartsStep, ClientPartsStep
<1>3. part \in Parts /\ [PartsNext]_partsVars => (part \in Parts)'
  BY ClientPartsStep
<1>4. PartsSpec => [](part \in Parts)  BY <1>1, <1>3, PTL DEF PartsSpec
<1>5. PartsSpec => [](MapperType /\ HolderType /\ ObserverType /\ ControlType)
  <2>1. MapperInv => MapperType  BY DEF MapperInv
  <2> QED
    BY <1>1, <1>2, <2>1, MapperCorrect, HolderForgetsNothing, WaitersReached, PressFitsDeadline,
       PTL DEF PartsSpec, MapperSpec, HolderSpec, ObserverSpec, ControlSpec
<1>6. PartsSpec => [](FanoutType /\ WebRTCType /\ RtspType)
  BY <1>1, <1>2, FanoutKeepsPictures, WebRTCSessionsKeep, RtspStreamRead, PTL
     DEF PartsSpec, FanoutSpec, WebRTCSpec, RtspSpec
<1>7. PartsSpec => [](SnapshotType /\ ClipType /\ BridgeType)
  BY <1>1, <1>2, SnapshotFilesNewest, SavedClipsPlay, BridgeOwnsPipelines, PTL
     DEF PartsSpec, SnapshotSpec, ClipSpec, BridgeSpec
<1>8. PartsSpec => [](TypeOK /\ AccountType /\ HomeKitType /\ ClientsType)
  BY <1>1, <1>2, ProjectorInvariant, SavedUpdateSurvives, HomeKitKeepsItsWord, ClientsServed,
     PTL DEF PartsSpec, Spec, AccountSpec, HomeKitSpec, ClientsSpec
<1>9. /\ part \in Parts
      /\ MapperType /\ HolderType /\ ObserverType /\ ControlType
      /\ FanoutType /\ WebRTCType /\ RtspType
      /\ SnapshotType /\ ClipType /\ BridgeType
      /\ TypeOK /\ AccountType /\ HomeKitType /\ ClientsType
      => PartsTypes
  BY DEF PartsTypes, Parts
<1> QED  BY <1>4, <1>5, <1>6, <1>7, <1>8, <1>9, PTL
=============================================================================
