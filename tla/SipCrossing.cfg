SPECIFICATION Spec
CONSTANTS
    Entrypoints = {door}
    Dialogs = {d1, d2}
    Streams = {}
    None = None
    RevisionLimit = 1
    Outbound = {o1}
    Callers = {c1}
    Doorbell = door
    BusRings = {}
    HangsUp = {d1}
    CancelReasons = {"cancelled"}
    MaxPanics = 0
INVARIANT
    EndsOnlyItsCall
