SPECIFICATION CasesSpec
CONSTANTS
    Entrypoints = {door}
    Dialogs = {d1}
    Streams = {c1, c2}
    Consumers = {c1, c2}
    Plain = {}
    EntryOf <- SameDoor
    Door = door
    None = None
    RevisionLimit = 1
    First = c1
    Happens = {"bye", "failure", "stall", "frames", "hangup", "timeout"}
INVARIANTS
    TypeOK
    ClosedForGood
    AnsweredIsPromoted
    NoStaleTalker
    EveryoneTold
PROPERTIES
    EndsOnlyItsOwnDialog
    JoinersWake
    LastOutEnds
    ImplementsShare
