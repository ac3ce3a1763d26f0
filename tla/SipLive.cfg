SPECIFICATION LiveSpec
CONSTANTS
    Entrypoints = {door}
    Dialogs = {d1}
    Streams = {}
    None = None
    RevisionLimit = 1
    Outbound = {o1}
    Callers = {c1}
    Doorbell = door
    BusRings = {}
    HangsUp = {}
    CancelReasons = {"cancelled"}
    MaxPanics = 1
    Inbound = {h1, h2}
    MaxRestarts = 2
    MaxFailures = 1
PROPERTIES
    RingEnds
    QueueDrains
    InviteConcluded
    RegistrationRestored
    CloseEnds
CHECK_DEADLOCK FALSE
