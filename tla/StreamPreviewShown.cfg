SPECIFICATION Spec
CONSTANTS
    Entrypoints = {door}
    Dialogs = {}
    Streams = {c1}
    Consumers = {c1}
    Plain = {}
    EntryOf <- SameDoor
    Door = door
    None = None
    RevisionLimit = 1
    Happens = {"failure"}

INVARIANT PreviewShown
