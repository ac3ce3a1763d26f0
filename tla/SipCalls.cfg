SPECIFICATION CasesSpec
CONSTANTS
    Entrypoints = {door, gate}
    Dialogs = {d1, d2}
    Streams = {}
    None = None
    RevisionLimit = 1
    Outbound = {o1}
    Callers = {c1, c2}
    Doorbell = None
    BusRings = {gate}
    HangsUp = {d1, d2, o1}
    CancelReasons = {"cancelled", "elsewhere"}
    MaxPanics = 1
SYMMETRY Symmetry
INVARIANTS
    TypeOK
    OneLine
    Converged
    OneFinalResponse
    NoOrphanedCall
PROPERTY ImplementsLine
